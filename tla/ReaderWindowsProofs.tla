------------------------- MODULE ReaderWindowsProofs -------------------------
(* The lists of windows of the readers of the other stream formats: what     *)
(* their operations keep of the order, the text and the shape of a document, *)
(* for every value of the constants.                                         *)
EXTENDS ReaderWindows, ListProofs, SequenceTheorems, TLAPS

-----------------------------------------------------------------------------
(* Sequences laid end to end, one more at a time.                            *)

LaidUpTo(f, s, m) ==
  f = [i \in 1 .. m |-> IF i = 1 THEN s[i] ELSE f[i - 1] \o s[i]]

Lays(f, s, m) ==
  \A i \in 1 .. m : f[i] = IF i = 1 THEN s[i] ELSE f[i - 1] \o s[i]

LEMMA LaidSteps ==
  ASSUME NEW s, NEW m \in Nat, NEW f, LaidUpTo(f, s, m)
  PROVE  Lays(f, s, m)
<1> DEFINE At(i) == IF i = 1 THEN s[i] ELSE f[i - 1] \o s[i]
<1>1. f = [i \in 1 .. m |-> At(i)]
  BY DEF LaidUpTo
<1>2. \A i \in 1 .. m : f[i] = At(i)
  BY <1>1
<1> QED
  BY <1>2 DEF Lays

LEMMA LaidExists ==
  ASSUME NEW s, NEW m \in Nat
  PROVE  \E f : LaidUpTo(f, s, m)
<1> DEFINE T == {n \in Nat : ~ \E f : LaidUpTo(f, s, n)}
<1> SUFFICES ASSUME T # {}
             PROVE  FALSE
  OBVIOUS
<1>1. PICK n \in T : \A k \in T : n <= k
  BY LeastNatural
<1>2. n # 0
  <2> DEFINE g == [i \in 1 .. 0 |-> <<>>]
  <2>1. LaidUpTo(g, s, 0)
    BY DEF LaidUpTo
  <2> QED
    BY <2>1
<1>3. n - 1 \in Nat /\ n - 1 \notin T
  BY <1>1, <1>2
<1>4. PICK f : LaidUpTo(f, s, n - 1)
  BY <1>3
<1>5. \A i \in 1 .. n - 1 : f[i] = IF i = 1 THEN s[i] ELSE f[i - 1] \o s[i]
  BY <1>3, <1>4, LaidSteps DEF Lays
<1> DEFINE last == IF n = 1 THEN s[n] ELSE f[n - 1] \o s[n]
           g == [i \in 1 .. n |-> IF i = n THEN last ELSE f[i]]
           At(i) == IF i = 1 THEN s[i] ELSE g[i - 1] \o s[i]
<1>6. ASSUME NEW i \in 1 .. n
      PROVE  g[i] = At(i)
  <2>1. CASE i = n
    <3>1. CASE n = 1
      BY <2>1, <3>1
    <3>2. CASE n # 1
      <4>1. n - 1 \in 1 .. n /\ n - 1 # n
        BY <1>2, <3>2
      <4>2. g[n - 1] = f[n - 1] /\ g[n] = last
        BY <1>2, <4>1
      <4> HIDE DEF g
      <4> QED
        BY <2>1, <3>2, <4>2
    <3> QED
      BY <3>1, <3>2
  <2>2. CASE i # n
    <3>1. i \in 1 .. n - 1 /\ (i # 1 => i - 1 \in 1 .. n /\ i - 1 # n)
      BY <2>2
    <3>2. g[i] = f[i] /\ (i # 1 => g[i - 1] = f[i - 1])
      BY <2>2, <3>1
    <3> HIDE DEF g
    <3> QED
      BY <1>5, <3>1, <3>2
  <2> QED
    BY <2>1, <2>2
<1>7. g = [i \in 1 .. n |-> At(i)]
  BY <1>6
<1>8. LaidUpTo(g, s, n)
  BY <1>7 DEF LaidUpTo
<1> QED
  BY <1>1, <1>8

LEMMA FlattenSteps ==
  ASSUME NEW s, NEW n \in Nat, Len(s) = n, n # 0
  PROVE  \E f : Lays(f, s, n) /\ FlattenSeq(s) = f[n]
<1> DEFINE f == CHOOSE f : LaidUpTo(f, s, n)
<1>1. LaidUpTo(f, s, n)
  BY LaidExists
<1>2. FlattenSeq(s) = f[n]
  BY DEF FlattenSeq, LaidUpTo
<1> HIDE DEF f
<1>3. Lays(f, s, n)
  BY <1>1, LaidSteps
<1> QED
  BY <1>2, <1>3

LEMMA LaidAgree ==
  ASSUME NEW n \in Nat, NEW f, NEW g, NEW s, NEW t, Lays(f, s, n), Lays(g, t, n),
         \A i \in 1 .. n : s[i] = t[i]
  PROVE  \A i \in 1 .. n : f[i] = g[i]
<1> DEFINE T == {i \in 1 .. n : f[i] # g[i]}
<1> SUFFICES ASSUME T # {}
             PROVE  FALSE
  OBVIOUS
<1>1. T \subseteq Nat
  OBVIOUS
<1>2. PICK i \in T : \A k \in T : i <= k
  BY <1>1, LeastNatural
<1>3. i \in 1 .. n /\ f[i] # g[i]
  OBVIOUS
<1>4. /\ f[i] = IF i = 1 THEN s[i] ELSE f[i - 1] \o s[i]
      /\ g[i] = IF i = 1 THEN t[i] ELSE g[i - 1] \o t[i]
  BY <1>3 DEF Lays
<1>5. i # 1
  BY <1>3, <1>4
<1>6. i - 1 \in 1 .. n /\ ~ (i <= i - 1)
  BY <1>3, <1>5
<1>7. f[i - 1] = g[i - 1]
  BY <1>2, <1>6
<1> QED
  BY <1>3, <1>4, <1>5, <1>7

Text == Seq(Nat)

LEMMA TextConcat ==
  ASSUME NEW s \in Text, NEW t \in Text
  PROVE  s \o t \in Text /\ s \o <<>> = s /\ <<>> \o t = t /\ <<>> \in Text
  BY ConcatProperties, ConcatEmptySeq, EmptySeq DEF Text

LEMMA TextGroups ==
  ASSUME NEW s \in Text, NEW t \in Text, NEW u \in Text
  PROVE  (s \o t) \o u = s \o (t \o u)
  BY ConcatAssociative DEF Text

\* The parts g[a + 1] .. g[b], one after another.
Flat(g, a, b) == FlattenSeq([i \in 1 .. b - a |-> g[a + i]])

LEMMA FlatEmpty ==
  ASSUME NEW g, NEW a \in Nat
  PROVE  Flat(g, a, a) = <<>>
<1>1. a - a = 0 /\ 1 .. 0 = {}
  OBVIOUS
<1>2. [i \in 1 .. 0 |-> g[a + i]] = <<>> /\ Len(<<>>) = 0
  BY EmptySeq
<1>3. FlattenSeq(<<>>) = <<>>
  BY <1>2 DEF FlattenSeq
<1> QED
  BY <1>1, <1>2, <1>3 DEF Flat

LEMMA FlatNext ==
  ASSUME NEW g, NEW a \in Nat, NEW n \in Nat, g[a + n + 1] \in Text
  PROVE  Flat(g, a, a + n + 1) = Flat(g, a, a + n) \o g[a + n + 1]
<1> DEFINE m == n + 1
           s == [i \in 1 .. n |-> g[a + i]]
           t == [i \in 1 .. m |-> g[a + i]]
<1>1. (a + n) - a = n /\ (a + n + 1) - a = m /\ m \in Nat /\ m # 0 /\ m - 1 = n
      /\ m \in 1 .. m /\ a + m = a + n + 1
  OBVIOUS
<1>2. Flat(g, a, a + n) = FlattenSeq(s) /\ Flat(g, a, a + n + 1) = FlattenSeq(t)
  BY <1>1 DEF Flat
<1>3. Len(s) = n /\ Len(t) = m /\ \A i \in 1 .. n : s[i] = t[i]
  OBVIOUS
<1>4. t[m] = g[a + n + 1]
  BY <1>1
<1> HIDE DEF s, t, m
<1>5. PICK f : Lays(f, t, m) /\ FlattenSeq(t) = f[m]
  BY <1>1, <1>3, FlattenSteps
<1>6. f[m] = IF m = 1 THEN t[m] ELSE f[n] \o t[m]
  BY <1>1, <1>5 DEF Lays
<1>7. CASE n = 0
  <2>1. m = 1
    BY <1>1, <1>7
  <2>2. FlattenSeq(s) = <<>>
    BY <1>2, <1>7, FlatEmpty
  <2>3. <<>> \o g[a + n + 1] = g[a + n + 1]
    BY ConcatEmptySeq DEF Text
  <2> QED
    BY <1>2, <1>4, <1>5, <1>6, <2>1, <2>2, <2>3
<1>8. CASE n # 0
  <2>1. PICK e : Lays(e, s, n) /\ FlattenSeq(s) = e[n]
    BY <1>3, <1>8, FlattenSteps
  <2>2. Lays(f, t, n)
    BY <1>1, <1>5 DEF Lays
  <2>3. e[n] = f[n]
    <3>1. \A i \in 1 .. n : e[i] = f[i]
      BY <1>3, <2>1, <2>2, LaidAgree
    <3>2. n \in 1 .. n
      BY <1>8
    <3> QED
      BY <3>1, <3>2
  <2>4. m # 1
    BY <1>1, <1>8
  <2> QED
    BY <1>2, <1>4, <1>5, <1>6, <2>1, <2>3, <2>4
<1> QED
  BY <1>7, <1>8

LEMMA FlatText ==
  ASSUME NEW g, NEW a \in Nat, NEW n \in Nat, \A i \in 1 .. n : g[a + i] \in Text
  PROVE  Flat(g, a, a + n) \in Text
<1> DEFINE T == {m \in 0 .. n : Flat(g, a, a + m) \notin Text}
<1> SUFFICES ASSUME T # {}
             PROVE  FALSE
  OBVIOUS
<1>1. T \subseteq Nat
  OBVIOUS
<1>2. PICK m \in T : \A k \in T : m <= k
  BY <1>1, LeastNatural
<1>3. m \in 0 .. n /\ Flat(g, a, a + m) \notin Text
  OBVIOUS
<1>4. m # 0
  <2>1. a + 0 = a /\ <<>> \in Text
    BY EmptySeq DEF Text
  <2> QED
    BY <1>3, <2>1, FlatEmpty
<1>5. PICK k \in 0 .. n : m = k + 1 /\ k \notin T
  <2>1. m - 1 \in 0 .. n /\ m = (m - 1) + 1 /\ ~ (m <= m - 1)
    BY <1>3, <1>4
  <2> QED
    BY <1>2, <2>1
<1>6. Flat(g, a, a + k) \in Text /\ g[a + k + 1] \in Text /\ k \in Nat
  <2>1. k + 1 \in 1 .. n /\ a + (k + 1) = a + k + 1
    BY <1>3, <1>5
  <2> QED
    BY <1>5, <2>1
<1>7. Flat(g, a, a + k + 1) = Flat(g, a, a + k) \o g[a + k + 1]
  BY <1>6, FlatNext
<1>8. Flat(g, a, a + k) \o g[a + k + 1] \in Text
  BY <1>6, ConcatProperties DEF Text
<1>9. a + m = a + k + 1
  BY <1>5
<1> QED
  BY <1>3, <1>7, <1>8, <1>9

Shifted(g, a, b, h, c, e) ==
  b - a = e - c /\ \A i \in 1 .. b - a : g[a + i] = h[c + i]

LEMMA FlatShift ==
  ASSUME NEW g, NEW h, NEW a, NEW b, NEW c, NEW e, Shifted(g, a, b, h, c, e)
  PROVE  Flat(g, a, b) = Flat(h, c, e)
<1>1. [i \in 1 .. b - a |-> g[a + i]] = [i \in 1 .. e - c |-> h[c + i]]
  BY DEF Shifted
<1> QED
  BY <1>1 DEF Flat

LEMMA FlatNone ==
  ASSUME NEW g, NEW a \in Nat, NEW n \in Nat, \A i \in 1 .. n : g[a + i] = <<>>
  PROVE  Flat(g, a, a + n) = <<>>
<1> DEFINE T == {m \in 0 .. n : Flat(g, a, a + m) # <<>>}
<1> SUFFICES ASSUME n \in T
             PROVE  FALSE
  OBVIOUS
<1>1. T \subseteq Nat /\ T # {}
  <2>1. T \subseteq Nat
    OBVIOUS
  <2>2. n \in T
    OBVIOUS
  <2> HIDE DEF T
  <2> QED
    BY <2>1, <2>2
<1>2. PICK m \in T : \A k \in T : m <= k
  BY <1>1, LeastNatural
<1>3. m \in 0 .. n /\ Flat(g, a, a + m) # <<>>
  OBVIOUS
<1>4. m # 0
  <2>1. a + 0 = a
    OBVIOUS
  <2> QED
    BY <1>3, <2>1, FlatEmpty
<1>5. PICK k \in 0 .. n : m = k + 1 /\ k \notin T
  <2>1. m - 1 \in 0 .. n /\ m = (m - 1) + 1 /\ ~ (m <= m - 1)
    BY <1>3, <1>4
  <2> QED
    BY <1>2, <2>1
<1>6. Flat(g, a, a + k) = <<>> /\ g[a + k + 1] = <<>> /\ k \in Nat
  <2>1. k + 1 \in 1 .. n /\ a + (k + 1) = a + k + 1 /\ k \in Nat
    BY <1>3, <1>5
  <2>2. g[a + (k + 1)] = <<>>
    BY <2>1
  <2>3. Flat(g, a, a + k) = <<>>
    BY <1>5
  <2> QED
    BY <2>1, <2>2, <2>3
<1>7. <<>> \in Text
  BY EmptySeq DEF Text
<1>8. Flat(g, a, a + k + 1) = <<>> \o <<>>
  BY <1>6, <1>7, FlatNext
<1>9. <<>> \o <<>> = <<>>
  BY <1>7, ConcatEmptySeq DEF Text
<1>10. a + m = a + k + 1
  BY <1>5
<1> QED
  BY <1>3, <1>8, <1>9, <1>10

\* The same from the first part on.
LEMMA FirstAgree ==
  ASSUME NEW g, NEW h, NEW n \in Nat, \A i \in 1 .. n : g[i] = h[i]
  PROVE  Flat(g, 0, n) = Flat(h, 0, n)
<1>1. n - 0 = n /\ \A i \in 1 .. n : 0 + i = i
  OBVIOUS
<1>2. [i \in 1 .. n - 0 |-> g[0 + i]] = [i \in 1 .. n - 0 |-> h[0 + i]]
  BY <1>1
<1> QED
  BY <1>2 DEF Flat

LEMMA FirstText ==
  ASSUME NEW g, NEW n \in Nat, \A i \in 1 .. n : g[i] \in Text
  PROVE  Flat(g, 0, n) \in Text
<1> DEFINE z == 0
<1>1. z \in Nat /\ z + n = n /\ \A i \in 1 .. n : z + i = i
  OBVIOUS
<1> HIDE DEF z
<1>2. \A i \in 1 .. n : g[z + i] \in Text
  BY <1>1
<1>3. Flat(g, z, z + n) \in Text
  BY <1>1, <1>2, FlatText
<1> QED
  BY <1>1, <1>3 DEF z

LEMMA FirstNext ==
  ASSUME NEW g, NEW n \in Nat, g[n + 1] \in Text
  PROVE  Flat(g, 0, n + 1) = Flat(g, 0, n) \o g[n + 1]
<1> DEFINE z == 0
<1>1. z \in Nat /\ z + n = n /\ z + n + 1 = n + 1
  OBVIOUS
<1> HIDE DEF z
<1>2. g[z + n + 1] \in Text
  BY <1>1
<1>3. Flat(g, z, z + n + 1) = Flat(g, z, z + n) \o g[z + n + 1]
  BY <1>1, <1>2, FlatNext
<1> QED
  BY <1>1, <1>3 DEF z

LEMMA RangeText ==
  ASSUME NEW g, NEW a \in Nat, NEW b \in Nat, a <= b,
         \A i \in a + 1 .. b : g[i] \in Text
  PROVE  Flat(g, a, b) \in Text
<1> DEFINE n == b - a
<1>1. n \in Nat /\ a + n = b /\ \A i \in 1 .. n : a + i \in a + 1 .. b
  OBVIOUS
<1> HIDE DEF n
<1>2. \A i \in 1 .. n : g[a + i] \in Text
  BY <1>1
<1>3. Flat(g, a, a + n) \in Text
  BY <1>1, <1>2, FlatText
<1> QED
  BY <1>1, <1>3

LEMMA RangeAgree ==
  ASSUME NEW g, NEW h, NEW a \in Nat, NEW b \in Nat, a <= b,
         \A i \in a + 1 .. b : g[i] = h[i]
  PROVE  Flat(g, a, b) = Flat(h, a, b)
<1>1. \A i \in 1 .. b - a : a + i \in a + 1 .. b
  OBVIOUS
<1>2. [i \in 1 .. b - a |-> g[a + i]] = [i \in 1 .. b - a |-> h[a + i]]
  BY <1>1
<1> QED
  BY <1>2 DEF Flat

LEMMA RangeNone ==
  ASSUME NEW g, NEW a \in Nat, NEW b \in Nat, a <= b,
         \A i \in a + 1 .. b : g[i] = <<>>
  PROVE  Flat(g, a, b) = <<>>
<1> DEFINE n == b - a
<1>1. n \in Nat /\ a + n = b /\ \A i \in 1 .. n : a + i \in a + 1 .. b
  OBVIOUS
<1> HIDE DEF n
<1>2. \A i \in 1 .. n : g[a + i] = <<>>
  BY <1>1
<1>3. Flat(g, a, a + n) = <<>>
  BY <1>1, <1>2, FlatNone
<1> QED
  BY <1>1, <1>3

LEMMA RangeNext ==
  ASSUME NEW g, NEW a \in Nat, NEW b \in Nat, a <= b, g[b + 1] \in Text
  PROVE  Flat(g, a, b + 1) = Flat(g, a, b) \o g[b + 1]
<1> DEFINE n == b - a
<1>1. n \in Nat /\ a + n = b /\ a + n + 1 = b + 1
  OBVIOUS
<1> HIDE DEF n
<1>2. g[a + n + 1] \in Text
  BY <1>1
<1>3. Flat(g, a, a + n + 1) = Flat(g, a, a + n) \o g[a + n + 1]
  BY <1>1, <1>2, FlatNext
<1> QED
  BY <1>1, <1>3

LEMMA RangeCut ==
  ASSUME NEW g, NEW a \in Nat, NEW b \in Nat, NEW c \in Nat, a <= b, b <= c,
         \A i \in a + 1 .. c : g[i] \in Text
  PROVE  Flat(g, a, c) = Flat(g, a, b) \o Flat(g, b, c)
<1> DEFINE p == Flat(g, a, b)
           Cuts(k) == Flat(g, a, k) = p \o Flat(g, b, k)
           T == {k \in b .. c : ~ Cuts(k)}
<1> SUFFICES ASSUME c \in T
             PROVE  FALSE
  OBVIOUS
<1>1. T \subseteq Nat /\ T # {}
  <2>1. T \subseteq Nat
    OBVIOUS
  <2>2. c \in T
    OBVIOUS
  <2> HIDE DEF T
  <2> QED
    BY <2>1, <2>2
<1>2. PICK k \in T : \A x \in T : k <= x
  BY <1>1, LeastNatural
<1>3. k \in b .. c /\ ~ Cuts(k)
  OBVIOUS
<1>4. p \in Text
  <2>1. \A i \in a + 1 .. b : i \in a + 1 .. c
    OBVIOUS
  <2> QED
    BY <2>1, RangeText
<1> HIDE DEF p
<1>5. k # b
  <2>1. Flat(g, b, b) = <<>>
    BY FlatEmpty
  <2>2. p \o <<>> = p
    BY <1>4, TextConcat
  <2>3. Cuts(b)
    BY <2>1, <2>2 DEF p
  <2> QED
    BY <1>3, <2>3
<1>6. PICK j \in b .. c : k = j + 1 /\ j \notin T
  <2>1. k - 1 \in b .. c /\ k = (k - 1) + 1 /\ ~ (k <= k - 1)
    BY <1>3, <1>5
  <2> QED
    BY <1>2, <2>1
<1> DEFINE q == Flat(g, b, j)
           x == g[j + 1]
<1>7. Flat(g, a, j) = p \o q /\ j \in Nat /\ a <= j /\ b <= j
  BY <1>6
<1>8. x \in Text /\ q \in Text
  <2>1. j + 1 \in a + 1 .. c /\ \A i \in b + 1 .. j : i \in a + 1 .. c
    BY <1>3, <1>6, <1>7
  <2> QED
    BY <1>7, <2>1, RangeText
<1>9. Flat(g, b, j + 1) = q \o x /\ Flat(g, a, j + 1) = (p \o q) \o x
  BY <1>7, <1>8, RangeNext
<1> HIDE DEF q, x
<1>10. (p \o q) \o x = p \o (q \o x)
  BY <1>4, <1>8, TextGroups
<1> QED
  BY <1>3, <1>6, <1>9, <1>10

LEMMA FirstCut ==
  ASSUME NEW g, NEW m \in Nat, NEW n \in Nat, \A i \in 1 .. m + n : g[i] \in Text
  PROVE  Flat(g, 0, m + n) = Flat(g, 0, m) \o Flat(g, m, m + n)
<1> DEFINE z == 0
           k == m + n
<1>1. z \in Nat /\ m \in Nat /\ k \in Nat /\ z <= m /\ m <= k
  OBVIOUS
<1>2. \A i \in z + 1 .. k : g[i] \in Text
  OBVIOUS
<1> HIDE DEF z, k
<1>3. Flat(g, z, k) = Flat(g, z, m) \o Flat(g, m, k)
  BY ONLY <1>1, <1>2, RangeCut
<1> QED
  BY <1>3 DEF z, k

-----------------------------------------------------------------------------
(* What cohorts and windows hold.                                            *)

CohortType ==
  [id : Int, ids : Text, kinds : SUBSET {"soft", "hard"}, text : Text,
   ended : BOOLEAN]
WindowType ==
  [cohorts : Seq(CohortType), text : Text, flush : Text, set : Nat,
   rem : BOOLEAN, runs : Nat, ranWith : Nat, saw : Nat]

Says(c) == c.ids \o c.text
Said(cs) == FlattenSeq([k \in DOMAIN cs |-> cs[k].ids \o cs[k].text])
Items(x) == x.text \o Said(x.cohorts) \o x.flush

SaysAll(cs) == [k \in DOMAIN cs |-> Says(cs[k])]

LEMMA SaysText ==
  ASSUME NEW c \in CohortType
  PROVE  Says(c) \in Text
<1>1. c.ids \in Text /\ c.text \in Text
  BY DEF CohortType
<1> QED
  BY <1>1, TextConcat DEF Says

LEMMA SaidFlat ==
  ASSUME NEW cs \in Seq(CohortType)
  PROVE  /\ Len(cs) \in Nat
         /\ Said(cs) = Flat(SaysAll(cs), 0, Len(cs)) /\ Said(cs) \in Text
         /\ \A k \in 1 .. Len(cs) : SaysAll(cs)[k] = Says(cs[k]) /\ SaysAll(cs)[k] \in Text
<1> DEFINE n == Len(cs)
           g == SaysAll(cs)
<1>1. n \in Nat /\ DOMAIN cs = 1 .. n /\ \A k \in 1 .. n : cs[k] \in CohortType
  BY LenProperties, ElementOfSeq
<1>2. \A k \in 1 .. n : g[k] = Says(cs[k])
  BY <1>1 DEF SaysAll
<1>3. \A k \in 1 .. n : g[k] \in Text
  BY <1>1, <1>2, SaysText
<1>4. Said(cs) = FlattenSeq(g)
  BY DEF Said, SaysAll, Says
<1>5. g = [i \in 1 .. n - 0 |-> g[0 + i]]
  <2>1. n - 0 = n /\ \A i \in 1 .. n : 0 + i = i
    BY <1>1
  <2>2. g = [i \in 1 .. n |-> g[i]]
    BY <1>1 DEF SaysAll
  <2> QED
    BY <2>1, <2>2
<1>6. Said(cs) = Flat(g, 0, n)
  BY <1>4, <1>5 DEF Flat
<1>7. Flat(g, 0, n) \in Text
  <2>1. 0 \in Nat /\ 0 + n = n /\ \A i \in 1 .. n : 0 + i = i
    BY <1>1
  <2>2. Flat(g, 0, 0 + n) \in Text
    BY <1>1, <1>3, <2>1, FlatText
  <2> QED
    BY <2>1, <2>2
<1> QED
  BY <1>1, <1>2, <1>3, <1>6, <1>7

LEMMA ItemsText ==
  ASSUME NEW x \in WindowType
  PROVE  /\ x.text \in Text /\ Said(x.cohorts) \in Text /\ x.flush \in Text
         /\ Items(x) \in Text
<1>1. x.text \in Text /\ x.flush \in Text /\ x.cohorts \in Seq(CohortType)
  BY DEF WindowType
<1>2. Said(x.cohorts) \in Text
  BY <1>1, SaidFlat
<1>3. x.text \o Said(x.cohorts) \in Text
  BY <1>1, <1>2, TextConcat
<1> QED
  BY <1>1, <1>2, <1>3, TextConcat DEF Items

\* The same items, cohort for cohort.
LEMMA SaidAlike ==
  ASSUME NEW cs \in Seq(CohortType), NEW ds \in Seq(CohortType), Len(cs) = Len(ds),
         \A k \in 1 .. Len(cs) : Says(ds[k]) = Says(cs[k])
  PROVE  Said(ds) = Said(cs)
<1> DEFINE n == Len(cs)
           g == SaysAll(cs)
           h == SaysAll(ds)
<1>1. /\ n \in Nat /\ Said(cs) = Flat(g, 0, n) /\ Said(ds) = Flat(h, 0, n)
      /\ \A k \in 1 .. n : g[k] = Says(cs[k])
      /\ \A k \in 1 .. n : h[k] = Says(ds[k])
  BY SaidFlat
<1>2. \A i \in 1 .. n : g[i] = h[i]
  BY <1>1
<1> HIDE DEF g, h, n
<1>3. Flat(g, 0, n) = Flat(h, 0, n)
  BY <1>1, <1>2, FirstAgree
<1> QED
  BY <1>1, <1>3

\* One more cohort.
LEMMA SaidAppend ==
  ASSUME NEW cs \in Seq(CohortType), NEW c \in CohortType
  PROVE  /\ Append(cs, c) \in Seq(CohortType)
         /\ Said(Append(cs, c)) = Said(cs) \o Says(c)
<1> DEFINE ds == Append(cs, c)
           n == Len(cs)
           g == SaysAll(cs)
           h == SaysAll(ds)
<1>1. /\ ds \in Seq(CohortType) /\ Len(ds) = n + 1
      /\ \A i \in 1 .. n : ds[i] = cs[i]
      /\ ds[n + 1] = c
  BY AppendProperties
<1> HIDE DEF ds
<1>2. /\ n \in Nat /\ Said(cs) = Flat(g, 0, n)
      /\ \A k \in 1 .. n : g[k] = Says(cs[k])
  BY SaidFlat
<1>3. /\ Said(ds) = Flat(h, 0, n + 1)
      /\ \A k \in 1 .. n + 1 : h[k] = Says(ds[k]) /\ h[k] \in Text
  BY <1>1, SaidFlat
<1>4. n + 1 \in 1 .. n + 1 /\ \A i \in 1 .. n : i \in 1 .. n + 1
  BY <1>2
<1>5. \A i \in 1 .. n : g[i] = h[i]
  BY <1>1, <1>2, <1>3, <1>4
<1>6. h[n + 1] \in Text /\ h[n + 1] = Says(c)
  BY <1>1, <1>3, <1>4
<1> HIDE DEF g, h, n
<1>7. Flat(g, 0, n) = Flat(h, 0, n)
  BY <1>2, <1>5, FirstAgree
<1>8. Flat(h, 0, n + 1) = Flat(h, 0, n) \o h[n + 1]
  BY <1>2, <1>6, FirstNext
<1> QED
  BY <1>1, <1>2, <1>3, <1>6, <1>7, <1>8 DEF ds

\* Text after the last cohort.
LEMMA SaidLast ==
  ASSUME NEW cs \in Seq(CohortType), NEW ds \in Seq(CohortType), NEW t \in Text,
         NEW n \in Nat, Len(cs) = n + 1, Len(ds) = n + 1,
         \A k \in 1 .. n : Says(ds[k]) = Says(cs[k]),
         Says(ds[n + 1]) = Says(cs[n + 1]) \o t
  PROVE  Said(ds) = Said(cs) \o t
<1> DEFINE g == SaysAll(cs)
           h == SaysAll(ds)
           m == n + 1
<1>1. /\ Said(cs) = Flat(g, 0, m)
      /\ \A k \in 1 .. m : g[k] = Says(cs[k]) /\ g[k] \in Text
  BY SaidFlat
<1>2. /\ Said(ds) = Flat(h, 0, m)
      /\ \A k \in 1 .. m : h[k] = Says(ds[k]) /\ h[k] \in Text
  BY SaidFlat
<1>3. m \in 1 .. m /\ m = n + 1 /\ \A i \in 1 .. n : i \in 1 .. m
  OBVIOUS
<1>4. \A i \in 1 .. n : g[i] = h[i] /\ g[i] \in Text
  BY <1>1, <1>2, <1>3
<1>5. g[m] \in Text /\ h[m] \in Text /\ h[m] = g[m] \o t
  BY <1>1, <1>2, <1>3
<1> HIDE DEF g, h, m
<1>6. Flat(g, 0, n) = Flat(h, 0, n) /\ Flat(g, 0, n) \in Text
  BY <1>4, FirstAgree, FirstText
<1>7. /\ Flat(g, 0, n + 1) = Flat(g, 0, n) \o g[n + 1]
      /\ Flat(h, 0, n + 1) = Flat(h, 0, n) \o h[n + 1]
  BY <1>3, <1>5, FirstNext
<1> DEFINE p == Flat(g, 0, n)
           q == g[m]
<1>8. p \in Text /\ q \in Text /\ Said(cs) = p \o q /\ Said(ds) = p \o (q \o t)
  BY <1>1, <1>2, <1>3, <1>5, <1>6, <1>7
<1> HIDE DEF p, q
<1>9. (p \o q) \o t = p \o (q \o t)
  BY <1>8, TextGroups
<1> QED
  BY <1>8, <1>9

\* The cohorts after the k-th go behind another first cohort, that says nothing.
CutInto(cs, ps, qs, k, m) ==
  /\ Len(cs) = k + m /\ Len(ps) = k /\ Len(qs) = 1 + m
  /\ \A i \in 1 .. k : Says(ps[i]) = Says(cs[i])
  /\ Says(qs[1]) = <<>>
  /\ \A i \in 1 .. m : Says(qs[1 + i]) = Says(cs[k + i])

LEMMA SaidCut ==
  ASSUME NEW cs \in Seq(CohortType), NEW ps \in Seq(CohortType),
         NEW qs \in Seq(CohortType), NEW k \in Nat, NEW m \in Nat,
         CutInto(cs, ps, qs, k, m)
  PROVE  Said(cs) = Said(ps) \o Said(qs)
<1> DEFINE g == SaysAll(cs)
           h == SaysAll(ps)
           e == SaysAll(qs)
<1>0. /\ Len(cs) = k + m /\ Len(ps) = k /\ Len(qs) = 1 + m
      /\ \A i \in 1 .. k : Says(ps[i]) = Says(cs[i])
      /\ Says(qs[1]) = <<>>
      /\ \A i \in 1 .. m : Says(qs[1 + i]) = Says(cs[k + i])
  BY DEF CutInto
<1>1. /\ Said(cs) = Flat(g, 0, k + m)
      /\ \A i \in 1 .. k + m : g[i] = Says(cs[i]) /\ g[i] \in Text
  BY <1>0, SaidFlat
<1>2. Said(ps) = Flat(h, 0, k) /\ \A i \in 1 .. k : h[i] = Says(ps[i])
  BY <1>0, SaidFlat
<1>3. /\ Said(qs) = Flat(e, 0, 1 + m)
      /\ \A i \in 1 .. 1 + m : e[i] = Says(qs[i]) /\ e[i] \in Text
  BY <1>0, SaidFlat
<1>4. /\ \A i \in 1 .. k : i \in 1 .. k + m
      /\ \A i \in 1 .. m : k + i \in 1 .. k + m /\ 1 + i \in 1 .. 1 + m
      /\ 1 \in 1 .. 1 + m /\ 1 \in Nat /\ 0 \in Nat /\ 0 + 1 = 1
  OBVIOUS
<1>5. /\ \A i \in 1 .. k : g[i] = h[i]
      /\ \A i \in 1 .. m : g[k + i] = e[1 + i] /\ e[1 + i] \in Text
      /\ e[1] = <<>>
  BY <1>0, <1>1, <1>2, <1>3, <1>4
<1> HIDE DEF g, h, e
<1>6. Flat(g, 0, k + m) = Flat(g, 0, k) \o Flat(g, k, k + m)
  BY <1>1, FirstCut
<1>7. Flat(g, 0, k) = Flat(h, 0, k)
  BY <1>5, FirstAgree
<1> DEFINE o == 1
<1>8. /\ o \in Nat /\ m \in Nat
      /\ \A i \in 1 .. m : g[k + i] = e[o + i] /\ e[o + i] \in Text
      /\ \A i \in 1 .. o + m : e[i] \in Text
      /\ Said(qs) = Flat(e, 0, o + m)
  BY <1>3, <1>4, <1>5
<1>9. Flat(e, 0, o) = <<>>
  <2> DEFINE z == 0
  <2>1. z \in Nat /\ z + 1 = o /\ e[z + 1] = <<>> /\ <<>> \in Text
    BY <1>4, <1>5, EmptySeq DEF Text
  <2> HIDE DEF z, o
  <2>2. Flat(e, 0, z + 1) = Flat(e, 0, z) \o e[z + 1]
    BY <2>1, FirstNext
  <2>3. Flat(e, 0, z) = <<>>
    BY FlatEmpty DEF z
  <2> QED
    BY <2>1, <2>2, <2>3, TextConcat
<1> HIDE DEF o
<1>10. Flat(g, k, k + m) = Flat(e, o, o + m)
  <2> DEFINE b == k + m
             f == o + m
  <2>1. /\ k \in Nat /\ o \in Nat /\ b \in Nat /\ f \in Nat /\ k <= b
        /\ b - k = m /\ b - k = f - o
    BY <1>8
  <2>2. \A i \in 1 .. b - k : g[k + i] = e[o + i]
    BY <1>8, <2>1
  <2> HIDE DEF b, f
  <2>3. Shifted(g, k, b, e, o, f)
    BY <2>1, <2>2 DEF Shifted
  <2>4. Flat(g, k, b) = Flat(e, o, f)
    BY <2>3, FlatShift
  <2> QED
    BY <2>4 DEF b, f
<1>11. Flat(e, 0, o + m) = Flat(e, 0, o) \o Flat(e, o, o + m)
  BY ONLY <1>8, FirstCut
<1>12. Flat(e, o, o + m) \in Text
  BY <1>8, FlatText
<1>13. Said(qs) = Flat(e, o, o + m)
  BY <1>8, <1>9, <1>11, <1>12, TextConcat
<1> QED
  BY <1>1, <1>2, <1>6, <1>7, <1>10, <1>13

-----------------------------------------------------------------------------
(* The document of a reader: its windows are numbered in the order they were *)
(* made; the first ones are printed, the others wait in that order.          *)

DocumentType ==
  [passes : BOOLEAN, cgPrinted : SUBSET Nat, prev : Seq(Nat), cur : Nat,
   next : Seq(Nat), win : Seq(WindowType), cSw : Nat, lSw : Nat,
   cCoh : CohortType, lCoh : Int, lookback : BOOLEAN, blank : Text, set : Nat,
   rem : BOOLEAN, globals : Nat, ignoring : BOOLEAN, out : Text]

LEMMA DocumentFields ==
  ASSUME NEW r \in DocumentType
  PROVE  /\ r.prev \in Seq(Nat) /\ r.cur \in Nat /\ r.next \in Seq(Nat)
         /\ r.win \in Seq(WindowType) /\ r.cCoh \in CohortType
         /\ r.out \in Text /\ r.blank \in Text
         /\ Len(r.prev) \in Nat /\ Len(r.next) \in Nat /\ Len(r.win) \in Nat
         /\ DOMAIN r.prev = 1 .. Len(r.prev) /\ DOMAIN r.next = 1 .. Len(r.next)
         /\ DOMAIN r.win = 1 .. Len(r.win)
         /\ \A w \in 1 .. Len(r.win) : r.win[w] \in WindowType
<1>1. /\ r.prev \in Seq(Nat) /\ r.cur \in Nat /\ r.next \in Seq(Nat)
      /\ r.win \in Seq(WindowType) /\ r.cCoh \in CohortType
      /\ r.out \in Text /\ r.blank \in Text
  BY DEF DocumentType
<1> QED
  BY <1>1, LenProperties, ElementOfSeq

Running(r) == IF r.cur = NoWin THEN 0 ELSE 1
Queued(r) == Len(r.prev) + Running(r) + Len(r.next)
Printed(r) == Len(r.win) - Queued(r)

InTurn(r) ==
  /\ Printed(r) \in Nat
  /\ \A i \in 1 .. Len(r.prev) : r.prev[i] = Printed(r) + i
  /\ r.cur # NoWin => r.cur = Printed(r) + Len(r.prev) + 1
  /\ \A i \in 1 .. Len(r.next) : r.next[i] = Printed(r) + Len(r.prev) + Running(r) + i

ItemsAll(r) == [w \in 1 .. Len(r.win) |-> Items(r.win[w])]
Held(r) == Flat(ItemsAll(r), Printed(r), Len(r.win))
Written(r) == r.out \o Held(r)

LEMMA BufferedHolds ==
  ASSUME NEW r \in DocumentType, InTurn(r)
  PROVE  /\ Buffered(r) \in Seq(Nat) /\ Len(Buffered(r)) = Queued(r)
         /\ DOMAIN Buffered(r) = 1 .. Queued(r)
         /\ \A i \in 1 .. Queued(r) : Buffered(r)[i] = Printed(r) + i
         /\ Queued(r) \in Nat /\ Printed(r) \in Nat
         /\ Len(r.win) = Printed(r) + Queued(r)
<1> DEFINE p == Len(r.prev)
           n == Len(r.next)
           one == IF r.cur = NoWin THEN <<>> ELSE <<r.cur>>
           both == r.prev \o one
<1>1. /\ p \in Nat /\ n \in Nat /\ r.prev \in Seq(Nat) /\ r.next \in Seq(Nat)
      /\ r.cur \in Nat /\ Len(r.win) \in Nat
  BY DocumentFields
<1>2. /\ one \in Seq(Nat) /\ Len(one) = Running(r)
      /\ r.cur # NoWin => one[1] = r.cur
  <2>1. CASE r.cur = NoWin
    BY <2>1, EmptySeq DEF Running
  <2>2. CASE r.cur # NoWin
    BY <1>1, <2>2 DEF Running
  <2> QED
    BY <2>1, <2>2
<1> HIDE DEF one
<1>3. Running(r) \in {0, 1} /\ (r.cur # NoWin <=> Running(r) = 1)
  BY DEF Running
<1>4. /\ both \in Seq(Nat) /\ Len(both) = p + Running(r)
      /\ \A i \in 1 .. p + Running(r) : both[i] = IF i <= p THEN r.prev[i] ELSE one[i - p]
  <2>1. /\ both \in Seq(Nat) /\ Len(both) = Len(r.prev) + Len(one)
        /\ \A i \in 1 .. Len(r.prev) + Len(one) :
             both[i] = IF i <= Len(r.prev) THEN r.prev[i] ELSE one[i - Len(r.prev)]
    BY <1>1, <1>2, ConcatProperties
  <2> HIDE DEF both
  <2> QED
    BY <1>2, <2>1
<1>5. Buffered(r) = both \o r.next
  BY DEF Buffered, one
<1> HIDE DEF both
<1>6. /\ Buffered(r) \in Seq(Nat) /\ Len(Buffered(r)) = p + Running(r) + n
      /\ \A i \in 1 .. p + Running(r) + n :
           Buffered(r)[i] = IF i <= p + Running(r) THEN both[i]
                            ELSE r.next[i - (p + Running(r))]
  <2> DEFINE b == both \o r.next
  <2>1. /\ b \in Seq(Nat) /\ Len(b) = Len(both) + Len(r.next)
        /\ \A i \in 1 .. Len(both) + Len(r.next) :
             b[i] = IF i <= Len(both) THEN both[i] ELSE r.next[i - Len(both)]
    BY <1>1, <1>4, ConcatProperties
  <2>2. Buffered(r) = b
    BY <1>5
  <2> HIDE DEF b
  <2> QED
    BY <1>4, <2>1, <2>2
<1>7. Queued(r) = p + Running(r) + n /\ Queued(r) \in Nat /\ Printed(r) \in Nat
  BY <1>1, <1>3 DEF Queued, InTurn
<1>8. ASSUME NEW i \in 1 .. Queued(r)
      PROVE  Buffered(r)[i] = Printed(r) + i
  <2>1. CASE i <= p
    <3>1. i \in 1 .. p /\ i \in 1 .. p + Running(r) /\ i \in 1 .. p + Running(r) + n
          /\ i <= p + Running(r)
      BY <1>1, <1>3, <1>7, <2>1
    <3>2. Buffered(r)[i] = r.prev[i]
      BY <1>4, <1>6, <2>1, <3>1
    <3> QED
      BY <3>1, <3>2 DEF InTurn
  <2>2. CASE i > p /\ i <= p + Running(r)
    <3>1. i = p + 1 /\ r.cur # NoWin /\ i - p = 1 /\ ~ (i <= p)
          /\ i \in 1 .. p + Running(r) /\ i \in 1 .. p + Running(r) + n
      BY <1>1, <1>3, <1>7, <2>2
    <3>2. Buffered(r)[i] = r.cur
      BY <1>2, <1>4, <1>6, <2>2, <3>1
    <3>3. r.cur = Printed(r) + p + 1
      BY <3>1 DEF InTurn
    <3> QED
      BY <1>1, <1>7, <3>1, <3>2, <3>3
  <2>3. CASE i > p + Running(r)
    <3> DEFINE j == i - (p + Running(r))
    <3>1. j \in 1 .. n /\ i \in 1 .. p + Running(r) + n /\ ~ (i <= p + Running(r))
      <4>1. i \in Nat /\ p + Running(r) \in Nat /\ i <= p + Running(r) + n
            /\ i > p + Running(r) /\ 1 <= i
        BY <1>1, <1>3, <1>7, <2>3
      <4> DEFINE c == p + Running(r)
      <4>2. i \in Nat /\ c \in Nat /\ i <= c + n /\ i > c /\ 1 <= i /\ j = i - c
        BY <4>1
      <4> HIDE DEF c, j
      <4>3. j \in 1 .. n /\ i \in 1 .. c + n /\ ~ (i <= c)
        BY <1>1, <4>2
      <4> QED
        BY <4>3 DEF c
    <3>2. Buffered(r)[i] = r.next[j]
      BY <1>6, <3>1
    <3>3. r.next[j] = Printed(r) + p + Running(r) + j
      BY <3>1 DEF InTurn
    <3> QED
      BY <1>1, <1>3, <1>7, <3>2, <3>3
  <2> QED
    BY <1>1, <1>3, <1>7, <2>1, <2>2, <2>3
<1>9. Len(r.win) = Printed(r) + Queued(r)
  BY <1>1, <1>7 DEF Printed
<1>10. DOMAIN Buffered(r) = 1 .. Len(Buffered(r))
  BY <1>6, LenProperties
<1> QED
  BY <1>6, <1>7, <1>8, <1>9, <1>10

LEMMA HeldText ==
  ASSUME NEW r \in DocumentType, InTurn(r)
  PROVE  /\ Held(r) \in Text /\ Written(r) \in Text /\ r.out \in Text
         /\ Printed(r) \in Nat /\ Len(r.win) \in Nat /\ Printed(r) <= Len(r.win)
         /\ \A w \in 1 .. Len(r.win) :
              ItemsAll(r)[w] = Items(r.win[w]) /\ ItemsAll(r)[w] \in Text
<1>1. /\ r.out \in Text /\ Len(r.win) \in Nat
      /\ \A w \in 1 .. Len(r.win) : r.win[w] \in WindowType
  BY DocumentFields
<1>2. Printed(r) \in Nat /\ Printed(r) <= Len(r.win)
  <2>1. Printed(r) \in Nat /\ Queued(r) \in Nat /\ Len(r.win) = Printed(r) + Queued(r)
    BY BufferedHolds
  <2> QED
    BY <2>1
<1>3. \A w \in 1 .. Len(r.win) :
        ItemsAll(r)[w] = Items(r.win[w]) /\ ItemsAll(r)[w] \in Text
  BY <1>1, ItemsText DEF ItemsAll
<1>4. \A w \in Printed(r) + 1 .. Len(r.win) : ItemsAll(r)[w] \in Text
  BY <1>1, <1>2, <1>3
<1>5. Held(r) \in Text
  BY <1>1, <1>2, <1>4, RangeText DEF Held
<1> QED
  BY <1>1, <1>2, <1>3, <1>5, TextConcat DEF Written

\* Held is what InputInOrder says the windows hold.
LEMMA HeldHolds ==
  ASSUME NEW r \in DocumentType, InTurn(r)
  PROVE  FlattenSeq([i \in DOMAIN Buffered(r) |-> WindowItems(r, Buffered(r)[i])])
           = Held(r)
<1> DEFINE q == Queued(r)
           p == Printed(r)
<1>1. /\ q \in Nat /\ p \in Nat /\ Len(r.win) = p + q /\ Len(r.win) - p = q
      /\ DOMAIN Buffered(r) = 1 .. q /\ \A i \in 1 .. q : Buffered(r)[i] = p + i
  BY BufferedHolds
<1>2. ASSUME NEW i \in 1 .. q
      PROVE  WindowItems(r, Buffered(r)[i]) = ItemsAll(r)[p + i]
  <2>1. p + i \in 1 .. Len(r.win)
    BY <1>1
  <2>2. WindowItems(r, p + i) = Items(r.win[p + i])
    BY DEF WindowItems, Items, Said
  <2>3. ItemsAll(r)[p + i] = Items(r.win[p + i])
    BY <2>1 DEF ItemsAll
  <2> QED
    BY <1>1, <2>2, <2>3
<1>3. [i \in DOMAIN Buffered(r) |-> WindowItems(r, Buffered(r)[i])]
        = [i \in 1 .. q |-> ItemsAll(r)[p + i]]
  BY <1>1, <1>2
<1>4. Held(r) = FlattenSeq([i \in 1 .. q |-> ItemsAll(r)[p + i]])
  BY <1>1 DEF Held, Flat
<1> QED
  BY <1>3, <1>4

-----------------------------------------------------------------------------
(* What a step of the document does to the windows in turn, and to what is   *)
(* written and held.                                                         *)

Documents(r, s) ==
  /\ r \in DocumentType /\ InTurn(r)
  /\ s \in DocumentType /\ InTurn(s)

SameLists(r, s) ==
  /\ s.prev = r.prev /\ s.cur = r.cur /\ s.next = r.next
  /\ Len(s.win) = Len(r.win)

LEMMA ListsSame ==
  ASSUME NEW r \in DocumentType, NEW s, InTurn(r), SameLists(r, s)
  PROVE  InTurn(s) /\ Printed(s) = Printed(r) /\ Queued(s) = Queued(r)
<1>1. Running(s) = Running(r)
  BY DEF Running, SameLists
<1>2. Queued(s) = Queued(r) /\ Printed(s) = Printed(r)
  BY <1>1 DEF Queued, Printed, SameLists
<1> QED
  BY <1>1, <1>2 DEF InTurn, SameLists

OneMore(r, s) ==
  /\ s.prev = r.prev /\ s.cur = r.cur
  /\ s.next = Append(r.next, Len(r.win) + 1)
  /\ Len(s.win) = Len(r.win) + 1

LEMMA ListsMore ==
  ASSUME NEW r \in DocumentType, NEW s, InTurn(r), OneMore(r, s)
  PROVE  /\ InTurn(s) /\ Printed(s) = Printed(r) /\ Queued(s) = Queued(r) + 1
         /\ s.next # <<>>
<1> DEFINE n == Len(r.next)
           N == Len(r.win)
<1>1. /\ r.next \in Seq(Nat) /\ n \in Nat /\ N \in Nat /\ Len(r.prev) \in Nat
  BY DocumentFields
<1>2. N + 1 \in Nat
  BY <1>1
<1>3. /\ Len(s.next) = n + 1
      /\ \A i \in 1 .. n : s.next[i] = r.next[i]
      /\ s.next[n + 1] = N + 1
  BY <1>1, <1>2, AppendProperties DEF OneMore
<1>4. s.prev = r.prev /\ s.cur = r.cur /\ Len(s.win) = N + 1
  BY DEF OneMore
<1>5. Running(s) = Running(r) /\ Running(r) \in {0, 1}
  BY <1>4 DEF Running
<1> HIDE DEF n, N
<1>6. /\ Queued(r) = Len(r.prev) + Running(r) + n /\ Printed(r) = N - Queued(r)
      /\ Queued(s) = Len(r.prev) + Running(r) + (n + 1) /\ Printed(s) = (N + 1) - Queued(s)
  BY <1>3, <1>4, <1>5 DEF Queued, Printed, n, N
<1>7. /\ Queued(s) = Queued(r) + 1 /\ Printed(s) = Printed(r)
      /\ Printed(r) + Len(r.prev) + Running(r) + (n + 1) = N + 1
  <2> DEFINE c == Running(r)
             p == Len(r.prev)
             q == Queued(r)
             u == Queued(s)
  <2>1. c \in Nat /\ p \in Nat /\ n \in Nat /\ N \in Nat
    BY <1>1, <1>5
  <2>2. q = p + c + n /\ Printed(r) = N - q /\ u = p + c + (n + 1)
        /\ Printed(s) = (N + 1) - u
    BY <1>6
  <2> HIDE DEF c, p, q, u
  <2>3. u = q + 1 /\ Printed(s) = Printed(r) /\ Printed(r) + p + c + (n + 1) = N + 1
    BY <2>1, <2>2
  <2> QED
    BY <2>3 DEF c, p, q, u
<1>8. ASSUME NEW i \in 1 .. n + 1
      PROVE  s.next[i] = Printed(r) + Len(r.prev) + Running(r) + i
  <2>1. CASE i = n + 1
    BY <1>3, <1>7, <2>1
  <2>2. CASE i # n + 1
    <3>1. i \in 1 .. n
      BY <1>1, <2>2
    <3>2. r.next[i] = Printed(r) + Len(r.prev) + Running(r) + i
      BY <3>1 DEF InTurn, n
    <3> QED
      BY <1>3, <3>1, <3>2
  <2> QED
    BY <2>1, <2>2
<1>9. InTurn(s)
  <2>1. /\ Printed(r) \in Nat
        /\ \A i \in 1 .. Len(r.prev) : r.prev[i] = Printed(r) + i
        /\ r.cur # NoWin => r.cur = Printed(r) + Len(r.prev) + 1
    BY DEF InTurn
  <2> QED
    BY <1>3, <1>4, <1>5, <1>7, <1>8, <2>1 DEF InTurn
<1>10. s.next # <<>>
  BY <1>1, <1>3, EmptySeq
<1> QED
  BY <1>7, <1>9, <1>10

Shuffles(r, s) ==
  /\ s.prev = IF r.cur = NoWin THEN r.prev ELSE Append(r.prev, r.cur)
  /\ s.cur = IF r.next = <<>> THEN NoWin ELSE Head(r.next)
  /\ s.next = IF r.next = <<>> THEN r.next ELSE Tail(r.next)
  /\ Len(s.win) = Len(r.win)

LEMMA ListsShuffled ==
  ASSUME NEW r \in DocumentType, NEW s, InTurn(r), Shuffles(r, s)
  PROVE  /\ InTurn(s) /\ Printed(s) = Printed(r) /\ Queued(s) = Queued(r)
         /\ r.next # <<>> => s.cur # NoWin /\ Len(s.next) = Len(r.next) - 1
         /\ r.next = <<>> => s.cur = NoWin /\ s.next = <<>>
         /\ Len(s.prev) = Len(r.prev) + Running(r)
         /\ s.prev \in Seq(Nat) /\ s.cur \in Nat /\ s.next \in Seq(Nat)
<1> DEFINE n == Len(r.next)
           p == Len(r.prev)
           c == Running(r)
           N == Len(r.win)
           z == Printed(r)
<1>1. /\ r.next \in Seq(Nat) /\ r.prev \in Seq(Nat) /\ r.cur \in Nat
      /\ n \in Nat /\ N \in Nat /\ p \in Nat
  BY DocumentFields
<1>2. c \in {0, 1} /\ (r.cur # NoWin <=> c = 1)
  BY DEF Running
<1>3. /\ z \in Nat /\ Queued(r) = p + c + n /\ z = N - Queued(r)
      /\ \A i \in 1 .. p : r.prev[i] = z + i
      /\ r.cur # NoWin => r.cur = z + p + 1
      /\ \A i \in 1 .. n : r.next[i] = z + p + c + i
  BY DEF InTurn, Queued, Printed
<1>4. s.prev \in Seq(Nat) /\ Len(s.prev) = p + c /\ \A i \in 1 .. p + c : s.prev[i] = z + i
  <2>1. CASE r.cur = NoWin
    <3>1. s.prev = r.prev /\ c = 0 /\ p + c = p
      BY <1>1, <1>2, <2>1 DEF Shuffles
    <3> QED
      BY <1>1, <1>3, <3>1
  <2>2. CASE r.cur # NoWin
    <3>1. /\ s.prev = Append(r.prev, r.cur) /\ c = 1
      BY <1>2, <2>2 DEF Shuffles
    <3>2. /\ s.prev \in Seq(Nat) /\ Len(s.prev) = p + 1
          /\ \A i \in 1 .. p : s.prev[i] = r.prev[i]
          /\ s.prev[p + 1] = r.cur
      BY <1>1, <3>1, AppendProperties
    <3> HIDE DEF p, c, z
    <3>3. ASSUME NEW i \in 1 .. p + 1
          PROVE  s.prev[i] = z + i
      <4>1. CASE i = p + 1
        BY <1>1, <1>3, <2>2, <3>2, <4>1
      <4>2. CASE i # p + 1
        <5>1. i \in 1 .. p
          BY <1>1, <4>2
        <5> QED
          BY <1>3, <3>2, <5>1
      <4> QED
        BY <4>1, <4>2
    <3> QED
      BY <3>1, <3>2, <3>3
  <2> QED
    BY <2>1, <2>2
<1>5. CASE r.next = <<>>
  <2>1. n = 0 /\ s.cur = NoWin /\ s.next = <<>> /\ s.next \in Seq(Nat) /\ Len(s.next) = 0
    BY <1>5, EmptySeq DEF Shuffles
  <2>2. Running(s) = 0 /\ Len(s.win) = N
    BY <2>1 DEF Running, Shuffles
  <2>3. Queued(s) = (p + c) + 0 + 0 /\ Printed(s) = N - Queued(s)
    BY <1>4, <2>1, <2>2 DEF Queued, Printed
  <2> HIDE DEF n, p, c, N, z
  <2>4. Queued(s) = Queued(r) /\ Printed(s) = z
    BY <1>1, <1>2, <1>3, <2>1, <2>3
  <2>5. InTurn(s)
    BY <1>3, <1>4, <2>1, <2>4 DEF InTurn
  <2>6. s.cur \in Nat
    BY <2>1 DEF NoWin
  <2> QED
    BY <1>4, <1>5, <2>1, <2>4, <2>5, <2>6 DEF n, p, c, z
<1>6. CASE r.next # <<>>
  <2>1. /\ n \in Nat \ {0} /\ s.cur = r.next[1] /\ s.next \in Seq(Nat) /\ s.cur \in Nat
        /\ Len(s.next) = n - 1
        /\ \A i \in 1 .. n - 1 : s.next[i] = r.next[i + 1]
    BY <1>1, <1>6, EmptySeq, HeadTailProperties DEF Shuffles
  <2>2. s.cur = z + p + c + 1
    BY <1>3, <2>1
  <2>3. s.cur # NoWin
    BY <1>1, <1>2, <1>3, <2>2 DEF NoWin
  <2>4. Running(s) = 1 /\ Len(s.win) = N
    BY <2>3 DEF Running, Shuffles
  <2>5. Queued(s) = (p + c) + 1 + (n - 1) /\ Printed(s) = N - Queued(s)
    BY <1>4, <2>1, <2>4 DEF Queued, Printed
  <2> HIDE DEF n, p, c, N, z
  <2>6. Queued(s) = Queued(r) /\ Printed(s) = z
    BY <1>1, <1>2, <1>3, <2>1, <2>5
  <2>7. ASSUME NEW i \in 1 .. n - 1
        PROVE  s.next[i] = z + (p + c) + 1 + i
    <3>1. i + 1 \in 1 .. n
      BY <2>1
    <3>2. s.next[i] = z + p + c + (i + 1)
      BY <1>3, <2>1, <3>1
    <3>3. i \in Nat
      OBVIOUS
    <3>4. c \in Nat /\ z \in Nat /\ p \in Nat
      BY <1>1, <1>2, <1>3
    <3> QED
      BY ONLY <3>2, <3>3, <3>4
  <2>8. s.cur = z + (p + c) + 1
    BY <1>1, <1>2, <1>3, <2>2
  <2>9. InTurn(s)
    BY <1>3, <1>4, <2>1, <2>4, <2>6, <2>7, <2>8 DEF InTurn
  <2> QED
    BY <1>4, <1>6, <2>1, <2>3, <2>6, <2>9 DEF n, p, c, z
<1> QED
  BY <1>5, <1>6

Prints(r, s, k) ==
  /\ s.prev = SubSeq(r.prev, k + 1, Len(r.prev)) /\ s.cur = r.cur /\ s.next = r.next
  /\ Len(s.win) = Len(r.win)

LEMMA ListsPrinted ==
  ASSUME NEW r \in DocumentType, NEW s, InTurn(r), NEW k \in 0 .. Len(r.prev),
         Prints(r, s, k)
  PROVE  /\ InTurn(s) /\ Printed(s) = Printed(r) + k /\ Queued(s) = Queued(r) - k
         /\ s.prev \in Seq(Nat) /\ Len(s.prev) = Len(r.prev) - k
<1> DEFINE p == Len(r.prev)
           n == Len(r.next)
           N == Len(r.win)
           c == Running(r)
           z == Printed(r)
<1>1. /\ r.prev \in Seq(Nat) /\ p \in Nat /\ n \in Nat /\ N \in Nat /\ c \in {0, 1}
  BY DocumentFields DEF Running
<1>2. /\ s.prev \in Seq(Nat) /\ Len(s.prev) = p - k
      /\ \A i \in 1 .. p - k : s.prev[i] = r.prev[k + i]
  <2> DEFINE t == SubSeq(r.prev, k + 1, p)
  <2>1. s.prev = t
    BY DEF Prints
  <2>2. k + 1 \in 1 .. p + 1 /\ p \in Nat
    BY <1>1
  <2>3. /\ t \in Seq(Nat) /\ Len(t) = p - k
        /\ \A i \in 1 .. p - k : t[i] = r.prev[k + i]
    BY <1>1, <2>2
  <2> HIDE DEF t
  <2> QED
    BY <2>1, <2>3
<1>3. Running(s) = c /\ s.cur = r.cur /\ s.next = r.next /\ Len(s.win) = N
  BY DEF Running, Prints
<1>4. /\ z \in Nat /\ Queued(r) = p + c + n /\ z = N - Queued(r)
      /\ \A i \in 1 .. p : r.prev[i] = z + i
      /\ r.cur # NoWin => r.cur = z + p + 1
      /\ \A i \in 1 .. n : r.next[i] = z + p + c + i
  BY DEF InTurn, Queued, Printed
<1>5. Queued(s) = (p - k) + c + n /\ Printed(s) = N - Queued(s)
  BY <1>2, <1>3 DEF Queued, Printed
<1>6. k \in 0 .. p
  OBVIOUS
<1>7. n = Len(s.next)
  BY <1>3
<1> HIDE DEF n, p, c, N, z
<1>8. Queued(s) = Queued(r) - k /\ Printed(s) = z + k /\ z + k \in Nat
  BY <1>1, <1>4, <1>5, <1>6
<1>9. ASSUME NEW i \in 1 .. p - k
      PROVE  s.prev[i] = (z + k) + i
  <2>1. k + i \in 1 .. p
    BY <1>1, <1>6
  <2>2. s.prev[i] = z + (k + i)
    BY <1>2, <1>4, <2>1
  <2> QED
    BY <1>4, <1>6, <2>2
<1>10. r.cur # NoWin => r.cur = (z + k) + (p - k) + 1
  BY <1>1, <1>4, <1>6
<1>11. ASSUME NEW i \in 1 .. n
       PROVE  r.next[i] = (z + k) + (p - k) + c + i
  <2>1. r.next[i] = z + p + c + i
    BY <1>4
  <2> QED
    BY <1>1, <1>4, <1>6, <2>1
<1>12. InTurn(s)
  BY <1>2, <1>3, <1>7, <1>8, <1>9, <1>10, <1>11 DEF InTurn
<1> QED
  BY <1>2, <1>8, <1>12 DEF p, z

-----------------------------------------------------------------------------
(* Documents that differ in one respect.                                     *)

LEMMA EmptyText == <<>> \in Text
  BY EmptySeq DEF Text

LEMMA TextThree ==
  ASSUME NEW s \in Text, NEW t \in Text, NEW u \in Text
  PROVE  /\ s \o (t \o u) = (s \o t) \o u
         /\ s \o t \in Text /\ (s \o t) \o u \in Text
<1>1. s \o t \in Text
  BY TextConcat
<1>2. (s \o t) \o u \in Text
  BY <1>1, TextConcat
<1> QED
  BY <1>1, <1>2, TextGroups

\* Only locals that say nothing of the windows differ.
SameBody(r, s) ==
  /\ s.prev = r.prev /\ s.cur = r.cur /\ s.next = r.next /\ s.win = r.win
  /\ s.out = r.out

\* One window holds something else.
WithWindow(r, w, x) == [r EXCEPT !.win = [r.win EXCEPT ![w] = x]]

LEMMA WindowReplaced ==
  ASSUME NEW r \in DocumentType, NEW w \in 1 .. Len(r.win), NEW x \in WindowType,
         NEW s, s = WithWindow(r, w, x)
  PROVE  /\ s \in DocumentType /\ SameLists(r, s) /\ s.out = r.out
         /\ s.win[w] = x /\ \A v \in 1 .. Len(r.win) : v # w => s.win[v] = r.win[v]
         /\ s.cSw = r.cSw /\ s.lSw = r.lSw /\ s.cCoh = r.cCoh /\ s.lCoh = r.lCoh
         /\ s.blank = r.blank
<1> DEFINE new == [r.win EXCEPT ![w] = x]
<1>1. /\ r.win \in Seq(WindowType) /\ Len(r.win) \in Nat
      /\ DOMAIN r.win = 1 .. Len(r.win)
  BY DocumentFields
<1>2. /\ new \in Seq(WindowType) /\ Len(new) = Len(r.win) /\ new[w] = x
      /\ \A v \in 1 .. Len(r.win) : v # w => new[v] = r.win[v]
  <2>1. new \in Seq(WindowType) /\ Len(new) = Len(r.win)
    BY <1>1, ExceptSeq
  <2>2. new[w] = x /\ \A v \in 1 .. Len(r.win) : v # w => new[v] = r.win[v]
    BY <1>1
  <2> QED
    BY <2>1, <2>2
<1> HIDE DEF new
<1>3. s = [r EXCEPT !.win = new]
  BY DEF WithWindow, new
<1>4. s \in DocumentType
  BY <1>2, <1>3 DEF DocumentType
<1>5. /\ s.win = new /\ s.prev = r.prev /\ s.cur = r.cur /\ s.next = r.next
      /\ s.out = r.out /\ s.cSw = r.cSw /\ s.lSw = r.lSw /\ s.cCoh = r.cCoh
      /\ s.lCoh = r.lCoh /\ s.blank = r.blank
  BY <1>3 DEF DocumentType
<1> QED
  BY <1>2, <1>4, <1>5 DEF SameLists

SameWindow(x, y) ==
  /\ Len(y.cohorts) = Len(x.cohorts) /\ y.text = x.text /\ y.flush = x.flush
  /\ \A k \in 1 .. Len(x.cohorts) :
       /\ y.cohorts[k].id = x.cohorts[k].id
       /\ y.cohorts[k].ids = x.cohorts[k].ids
       /\ y.cohorts[k].text = x.cohorts[k].text
       /\ y.cohorts[k].kinds = x.cohorts[k].kinds

LEMMA SameWindowItems ==
  ASSUME NEW x \in WindowType, NEW y \in WindowType, SameWindow(x, y)
  PROVE  Items(y) = Items(x)
<1>1. x.cohorts \in Seq(CohortType) /\ y.cohorts \in Seq(CohortType)
  BY DEF WindowType
<1>2. \A k \in 1 .. Len(x.cohorts) : Says(y.cohorts[k]) = Says(x.cohorts[k])
  BY DEF SameWindow, Says
<1>3. Len(x.cohorts) = Len(y.cohorts)
  BY DEF SameWindow
<1>4. Said(y.cohorts) = Said(x.cohorts)
  BY <1>1, <1>2, <1>3, SaidAlike
<1> QED
  BY <1>4 DEF Items, SameWindow

\* The windows in turn, with what they hold, are the same.
LEMMA WrittenSame ==
  ASSUME NEW r, NEW s, Documents(r, s), SameLists(r, s), s.out = r.out,
         \A w \in Printed(r) + 1 .. Len(r.win) : Items(s.win[w]) = Items(r.win[w])
  PROVE  Written(s) = Written(r)
<1> DEFINE p == Printed(r)
           n == Len(r.win)
           g == ItemsAll(r)
           h == ItemsAll(s)
<1>1. /\ p \in Nat /\ n \in Nat /\ p <= n
      /\ \A w \in 1 .. n : g[w] = Items(r.win[w])
  BY HeldText DEF Documents
<1>2. Printed(s) = p /\ Len(s.win) = n
  BY ListsSame DEF Documents, SameLists
<1>3. \A w \in 1 .. n : h[w] = Items(s.win[w])
  BY <1>2, HeldText DEF Documents
<1>4. \A w \in p + 1 .. n : g[w] = h[w]
  BY <1>1, <1>3
<1>5. Held(r) = Flat(g, p, n) /\ Held(s) = Flat(h, p, n)
  BY <1>2 DEF Held
<1> HIDE DEF p, n, g, h
<1>6. Flat(g, p, n) = Flat(h, p, n)
  BY <1>1, <1>4, RangeAgree
<1> QED
  BY <1>5, <1>6 DEF Written

\* Window w holds more, and the windows behind it hold nothing.
LEMMA WrittenMore ==
  ASSUME NEW r, NEW s, Documents(r, s), SameLists(r, s), s.out = r.out,
         NEW w \in Printed(r) + 1 .. Len(r.win), NEW t \in Text,
         Items(s.win[w]) = Items(r.win[w]) \o t,
         \A v \in Printed(r) + 1 .. w - 1 : Items(s.win[v]) = Items(r.win[v]),
         \A v \in w + 1 .. Len(r.win) :
           Items(r.win[v]) = <<>> /\ Items(s.win[v]) = <<>>
  PROVE  Written(s) = Written(r) \o t
<1> DEFINE p == Printed(r)
           n == Len(r.win)
           g == ItemsAll(r)
           h == ItemsAll(s)
           m == w - 1
<1>1. /\ p \in Nat /\ n \in Nat /\ p <= n /\ r.out \in Text
      /\ \A v \in 1 .. n : g[v] = Items(r.win[v]) /\ g[v] \in Text
  BY HeldText DEF Documents
<1>2. Printed(s) = p /\ Len(s.win) = n
  BY ListsSame DEF Documents, SameLists
<1>3. \A v \in 1 .. n : h[v] = Items(s.win[v]) /\ h[v] \in Text
  BY <1>2, HeldText DEF Documents
<1>4. /\ m \in Nat /\ w = m + 1 /\ p <= m /\ w <= n /\ w \in Nat /\ w \in 1 .. n
      /\ p <= w
      /\ \A v \in p + 1 .. m : v \in 1 .. n
      /\ \A v \in w + 1 .. n : v \in 1 .. n
      /\ \A v \in p + 1 .. n : v \in 1 .. n
  BY <1>1
<1>5. /\ \A v \in p + 1 .. m : g[v] = h[v] /\ g[v] \in Text
      /\ \A v \in w + 1 .. n : g[v] = <<>> /\ h[v] = <<>>
      /\ h[w] = g[w] \o t /\ g[w] \in Text /\ h[w] \in Text
      /\ \A v \in p + 1 .. n : g[v] \in Text /\ h[v] \in Text
  BY <1>1, <1>3, <1>4
<1>6. Held(r) = Flat(g, p, n) /\ Held(s) = Flat(h, p, n)
  BY <1>2 DEF Held
<1> HIDE DEF p, n, g, h, m
<1>7. Flat(g, p, m) = Flat(h, p, m) /\ Flat(g, p, m) \in Text
  BY <1>1, <1>4, <1>5, RangeAgree, RangeText
<1>8. Flat(g, p, w) = Flat(g, p, m) \o g[w] /\ Flat(h, p, w) = Flat(h, p, m) \o h[w]
  BY <1>1, <1>4, <1>5, RangeNext
<1>9. Flat(g, w, n) = <<>> /\ Flat(h, w, n) = <<>>
  BY <1>1, <1>4, <1>5, RangeNone
<1>10. /\ Flat(g, p, n) = Flat(g, p, w) \o Flat(g, w, n)
       /\ Flat(h, p, n) = Flat(h, p, w) \o Flat(h, w, n)
  <2>1. p \in Nat /\ w \in Nat /\ n \in Nat /\ p <= w /\ w <= n
    BY <1>1, <1>4
  <2>2. /\ \A v \in p + 1 .. n : g[v] \in Text
        /\ \A v \in p + 1 .. n : h[v] \in Text
    BY <1>5
  <2>3. Flat(g, p, n) = Flat(g, p, w) \o Flat(g, w, n)
    BY ONLY <2>1, <2>2, RangeCut
  <2>4. Flat(h, p, n) = Flat(h, p, w) \o Flat(h, w, n)
    BY ONLY <2>1, <2>2, RangeCut
  <2> QED
    BY <2>3, <2>4
<1> DEFINE f == Flat(g, p, m)
           i == g[w]
<1>11. /\ f \in Text /\ i \in Text /\ Flat(g, p, w) = f \o i
       /\ Flat(h, p, w) = f \o (i \o t)
  BY <1>5, <1>7, <1>8
<1> HIDE DEF f, i
<1>12. f \o (i \o t) = (f \o i) \o t /\ f \o i \in Text /\ (f \o i) \o t \in Text
  BY <1>11, TextThree
<1>13. Held(r) = f \o i /\ Held(s) = (f \o i) \o t
  BY <1>6, <1>9, <1>10, <1>11, <1>12, TextConcat
<1>14. r.out \o ((f \o i) \o t) = (r.out \o (f \o i)) \o t
  BY <1>1, <1>12, TextGroups
<1> QED
  BY <1>13, <1>14 DEF Written

\* A further window holds t.
LEMMA WrittenNext ==
  ASSUME NEW r, NEW s, Documents(r, s), OneMore(r, s), s.out = r.out,
         \A w \in Printed(r) + 1 .. Len(r.win) : Items(s.win[w]) = Items(r.win[w])
  PROVE  Written(s) = Written(r) \o Items(s.win[Len(r.win) + 1])
<1> DEFINE p == Printed(r)
           n == Len(r.win)
           g == ItemsAll(r)
           h == ItemsAll(s)
           t == Items(s.win[n + 1])
<1>1. /\ p \in Nat /\ n \in Nat /\ p <= n /\ r.out \in Text
      /\ \A v \in 1 .. n : g[v] = Items(r.win[v]) /\ g[v] \in Text
  BY HeldText DEF Documents
<1>2. Printed(s) = p /\ Len(s.win) = n + 1
  BY ListsMore DEF Documents, OneMore
<1>3. \A v \in 1 .. n + 1 : h[v] = Items(s.win[v]) /\ h[v] \in Text
  BY <1>2, HeldText DEF Documents
<1>4. /\ n + 1 \in 1 .. n + 1 /\ \A v \in p + 1 .. n : v \in 1 .. n /\ v \in 1 .. n + 1
  BY <1>1
<1>5. /\ \A v \in p + 1 .. n : g[v] = h[v] /\ g[v] \in Text
      /\ h[n + 1] = t /\ h[n + 1] \in Text
  BY <1>1, <1>3, <1>4
<1>6. Held(r) = Flat(g, p, n) /\ Held(s) = Flat(h, p, n + 1)
  BY <1>2 DEF Held
<1> HIDE DEF p, n, g, h, t
<1>7. Flat(g, p, n) = Flat(h, p, n) /\ Flat(g, p, n) \in Text
  BY <1>1, <1>5, RangeAgree, RangeText
<1>8. Flat(h, p, n + 1) = Flat(h, p, n) \o h[n + 1]
  BY <1>1, <1>5, RangeNext
<1>9. Held(s) = Held(r) \o t /\ Held(r) \in Text /\ t \in Text
  BY <1>5, <1>6, <1>7, <1>8
<1>10. r.out \o (Held(r) \o t) = (r.out \o Held(r)) \o t
  BY <1>1, <1>9, TextGroups
<1> QED
  BY <1>9, <1>10 DEF Written, t, n

-----------------------------------------------------------------------------
(* The operations that leave what the windows hold: the windows turn, run,   *)
(* and are printed; a cohort gets its <<<, a window its variables.           *)

SameLocals(r, s) ==
  /\ s.cSw = r.cSw /\ s.lSw = r.lSw /\ s.cCoh = r.cCoh /\ s.lCoh = r.lCoh
  /\ s.blank = r.blank

Alike(r, s) ==
  /\ Documents(r, s) /\ Len(s.win) = Len(r.win)
  /\ \A w \in 1 .. Len(r.win) : SameWindow(r.win[w], s.win[w])
  /\ Written(s) = Written(r)
  /\ Printed(r) <= Printed(s)
  /\ SameLocals(r, s)

LEMMA SameWindowItself ==
  ASSUME NEW x
  PROVE  SameWindow(x, x)
  BY DEF SameWindow

LEMMA AlikeTrans ==
  ASSUME NEW r, NEW s, NEW t, Alike(r, s), Alike(s, t)
  PROVE  Alike(r, t)
<1>1. Documents(r, t) /\ Len(t.win) = Len(r.win) /\ Written(t) = Written(r)
      /\ SameLocals(r, t)
  BY DEF Alike, Documents, SameLocals
<1>2. Printed(r) <= Printed(t)
  <2>1. Printed(r) \in Nat /\ Printed(s) \in Nat /\ Printed(t) \in Nat
    BY DEF Alike, Documents, InTurn
  <2>2. Printed(r) <= Printed(s) /\ Printed(s) <= Printed(t)
    BY DEF Alike
  <2> QED
    BY <2>1, <2>2
<1>3. \A w \in 1 .. Len(r.win) : SameWindow(r.win[w], t.win[w])
  <2>1. Len(s.win) = Len(r.win)
    BY DEF Alike
  <2> TAKE w \in 1 .. Len(r.win)
  <2>2. SameWindow(r.win[w], s.win[w]) /\ SameWindow(s.win[w], t.win[w])
    BY <2>1 DEF Alike
  <2> QED
    BY <2>2 DEF SameWindow
<1> QED
  BY <1>1, <1>2, <1>3 DEF Alike

\* The windows the same, the rest of the body too.
LEMMA AlikeWindows ==
  ASSUME NEW r, NEW s, Documents(r, s), SameLists(r, s), s.out = r.out,
         SameLocals(r, s),
         \A w \in 1 .. Len(r.win) : SameWindow(r.win[w], s.win[w])
  PROVE  Alike(r, s) /\ Printed(s) = Printed(r)
<1>1. Printed(s) = Printed(r) /\ Len(s.win) = Len(r.win) /\ Printed(r) \in Nat
  BY ListsSame DEF Documents, SameLists, InTurn
<1>2. Len(r.win) \in Nat
      /\ \A w \in 1 .. Len(r.win) : r.win[w] \in WindowType /\ s.win[w] \in WindowType
  BY <1>1, DocumentFields DEF Documents
<1>3. \A w \in Printed(r) + 1 .. Len(r.win) : Items(s.win[w]) = Items(r.win[w])
  <2> TAKE w \in Printed(r) + 1 .. Len(r.win)
  <2>1. w \in 1 .. Len(r.win)
    BY <1>1, <1>2
  <2> QED
    BY <1>2, <2>1, SameWindowItems
<1>4. Written(s) = Written(r)
  BY <1>3, WrittenSame
<1> QED
  BY <1>1, <1>4 DEF Alike

\* The oldest k windows are printed.
LEMMA WrittenPrinted ==
  ASSUME NEW r, NEW s, Documents(r, s), NEW k \in 0 .. Len(r.prev), Prints(r, s, k),
         s.win = r.win,
         s.out = r.out \o FlattenSeq([i \in 1 .. k |-> WindowItems(r, r.prev[i])])
  PROVE  Written(s) = Written(r)
<1> DEFINE p == Printed(r)
           n == Len(r.win)
           g == ItemsAll(r)
           m == p + k
<1>1. /\ p \in Nat /\ n \in Nat /\ p <= n /\ r.out \in Text
      /\ \A v \in 1 .. n : g[v] = Items(r.win[v]) /\ g[v] \in Text
  BY HeldText DEF Documents
<1>2. Printed(s) = m /\ Len(s.win) = n /\ ItemsAll(s) = g
  <2>1. Printed(s) = p + k
    BY ListsPrinted DEF Documents
  <2> QED
    BY <2>1 DEF ItemsAll
<1>3. k \in Nat /\ m \in Nat /\ p <= m /\ m <= n /\ m - p = k
  <2>1. Printed(s) <= Len(s.win)
    BY HeldText DEF Documents
  <2> QED
    BY <1>1, <1>2, <2>1
<1>4. ASSUME NEW i \in 1 .. k
      PROVE  WindowItems(r, r.prev[i]) = g[p + i]
  <2>1. i \in 1 .. Len(r.prev) /\ p + i \in 1 .. n
    BY <1>1, <1>3
  <2>2. r.prev[i] = p + i
    BY <2>1 DEF Documents, InTurn
  <2>3. WindowItems(r, p + i) = Items(r.win[p + i])
    BY DEF WindowItems, Items, Said
  <2> QED
    BY <1>1, <2>1, <2>2, <2>3
<1>5. FlattenSeq([i \in 1 .. k |-> WindowItems(r, r.prev[i])]) = Flat(g, p, m)
  <2>1. [i \in 1 .. k |-> WindowItems(r, r.prev[i])] = [i \in 1 .. m - p |-> g[p + i]]
    BY <1>3, <1>4
  <2> QED
    BY <2>1 DEF Flat
<1>6. Held(r) = Flat(g, p, n) /\ Held(s) = Flat(g, m, n)
  BY <1>2 DEF Held
<1>7. \A v \in p + 1 .. n : g[v] \in Text
  BY <1>1
<1> HIDE DEF p, n, g, m
<1>8. Flat(g, p, n) = Flat(g, p, m) \o Flat(g, m, n)
  BY ONLY <1>1, <1>3, <1>7, RangeCut
<1>9. Flat(g, p, m) \in Text /\ Flat(g, m, n) \in Text
  <2>1. /\ \A v \in p + 1 .. m : g[v] \in Text
        /\ \A v \in m + 1 .. n : g[v] \in Text
    BY <1>1, <1>3, <1>7
  <2> QED
    BY <1>1, <1>3, <2>1, RangeText
<1>10. (r.out \o Flat(g, p, m)) \o Flat(g, m, n) = r.out \o (Flat(g, p, m) \o Flat(g, m, n))
  BY <1>1, <1>9, TextGroups
<1> QED
  BY <1>5, <1>6, <1>8, <1>10 DEF Written

LEMMA PrintedDownToHolds ==
  ASSUME NEW r \in DocumentType, InTurn(r), NEW n \in Nat,
         NEW s, s = PrintedDownTo(r, n)
  PROVE  /\ Alike(r, s) /\ s.cur = r.cur /\ s.next = r.next /\ s.win = r.win
         /\ Len(s.prev) = IF Len(r.prev) > n THEN n ELSE Len(r.prev)
         /\ Len(r.prev) <= n => Printed(s) = Printed(r)
<1> DEFINE k == IF Len(r.prev) > n THEN Len(r.prev) - n ELSE 0
           t == FlattenSeq([i \in 1 .. k |-> WindowItems(r, r.prev[i])])
           q == SubSeq(r.prev, k + 1, Len(r.prev))
<1>1. k \in 0 .. Len(r.prev) /\ r.prev \in Seq(Nat) /\ r.out \in Text /\ Len(r.prev) \in Nat
  BY DocumentFields
<1>2. s = [r EXCEPT !.out = @ \o t, !.prev = q]
  BY DEF PrintedDownTo
<1>3. t \in Text
  <2>1. t = Flat(ItemsAll(r), Printed(r), Printed(r) + k) /\ t \in Text
    <3> DEFINE p == Printed(r)
               N == Len(r.win)
               m == p + k
               g == ItemsAll(r)
    <3>1. /\ p \in Nat /\ N \in Nat
          /\ \A v \in 1 .. N : g[v] = Items(r.win[v]) /\ g[v] \in Text
      BY HeldText
    <3>2. m \in Nat /\ p <= m /\ m <= N
      <4>1. N = p + Queued(r) /\ Queued(r) = Len(r.prev) + Running(r) + Len(r.next)
            /\ Running(r) \in {0, 1} /\ Len(r.next) \in Nat
        BY BufferedHolds, DocumentFields DEF Queued, Running
      <4>2. Queued(r) \in Nat /\ k <= Queued(r)
        BY <1>1, <4>1
      <4> HIDE DEF k
      <4> QED
        BY <1>1, <3>1, <4>1, <4>2
    <3>3. k \in Nat /\ m - p = k
      BY <1>1, <3>1
    <3>4. ASSUME NEW i \in 1 .. k
          PROVE  WindowItems(r, r.prev[i]) = g[p + i]
      <4>1. i \in 1 .. Len(r.prev) /\ p + i \in 1 .. N
        <5>1. k \in 0 .. Len(r.prev) /\ i \in 1 .. k /\ p + k <= N
          BY <1>1, <3>2
        <5> HIDE DEF k
        <5> QED
          BY <1>1, <3>1, <5>1
      <4>2. r.prev[i] = p + i
        BY <4>1 DEF InTurn
      <4>3. WindowItems(r, p + i) = Items(r.win[p + i])
        BY DEF WindowItems, Items, Said
      <4> QED
        BY <3>1, <4>1, <4>2, <4>3
    <3>5. [i \in 1 .. k |-> WindowItems(r, r.prev[i])] = [i \in 1 .. m - p |-> g[p + i]]
      BY <3>3, <3>4
    <3>6. t = Flat(g, p, m)
      BY <3>5 DEF Flat
    <3>7. \A v \in p + 1 .. m : g[v] \in Text
      BY <3>1, <3>2
    <3> HIDE DEF p, m, g, N, t, k
    <3>8. t \in Text
      BY <3>1, <3>2, <3>6, <3>7, RangeText
    <3> QED
      BY <3>6, <3>8 DEF p, m, g
  <2> QED
    BY <2>1
<1>4. r.out \o t \in Text
  BY <1>1, <1>3, TextConcat
<1>5. q \in Seq(Nat)
  <2>1. k + 1 \in Int /\ Len(r.prev) \in Int /\ \A i \in k + 1 .. Len(r.prev) : r.prev[i] \in Nat
    BY <1>1, ElementOfSeq
  <2> HIDE DEF k
  <2> QED
    BY <2>1, SubSeqProperties
<1>6. k = 0 \/ (Len(r.prev) > n /\ Len(r.prev) - k = n)
  BY <1>1
<1>7. k = 0 <=> Len(r.prev) <= n
  BY <1>1
<1> HIDE DEF k, t, q
<1>8. s \in DocumentType
  BY <1>2, <1>4, <1>5 DEF DocumentType
<1>9. /\ s.out = r.out \o t /\ s.prev = q /\ s.cur = r.cur /\ s.next = r.next
      /\ s.win = r.win /\ SameLocals(r, s)
  BY <1>2 DEF DocumentType, SameLocals
<1>10. Prints(r, s, k)
  BY <1>9 DEF Prints, q
<1>11. /\ InTurn(s) /\ Printed(s) = Printed(r) + k /\ Len(s.prev) = Len(r.prev) - k
       /\ Printed(r) \in Nat
  <2>1. Printed(r) \in Nat
    BY DEF InTurn
  <2>2. InTurn(s) /\ Printed(s) = Printed(r) + k /\ Len(s.prev) = Len(r.prev) - k
    BY <1>1, <1>10, ListsPrinted
  <2> QED
    BY <2>1, <2>2
<1>12. Written(s) = Written(r)
  <2>1. Documents(r, s)
    BY <1>8, <1>11 DEF Documents
  <2> QED
    BY <1>1, <1>9, <1>10, <2>1, WrittenPrinted DEF t
<1>13. \A w \in 1 .. Len(r.win) : SameWindow(r.win[w], s.win[w])
  BY <1>9, SameWindowItself
<1>14. Printed(r) <= Printed(s) /\ (Len(r.prev) <= n => Printed(s) = Printed(r))
       /\ Len(s.prev) = IF Len(r.prev) > n THEN n ELSE Len(r.prev)
  BY <1>1, <1>6, <1>7, <1>11
<1> QED
  BY <1>8, <1>9, <1>11, <1>12, <1>13, <1>14 DEF Alike, Documents

LEMMA AlikeBody ==
  ASSUME NEW r \in DocumentType, NEW s \in DocumentType, InTurn(r), SameBody(r, s)
  PROVE  /\ Documents(r, s) /\ Printed(s) = Printed(r) /\ Written(s) = Written(r)
         /\ SameLocals(r, s) => Alike(r, s)
<1>1. SameLists(r, s) /\ s.out = r.out
  BY DEF SameBody, SameLists
<1>2. Documents(r, s) /\ Printed(s) = Printed(r)
  BY <1>1, ListsSame DEF Documents
<1>3. /\ \A w \in 1 .. Len(r.win) : SameWindow(r.win[w], s.win[w])
      /\ \A w \in Printed(r) + 1 .. Len(r.win) : Items(s.win[w]) = Items(r.win[w])
  BY SameWindowItself DEF SameBody
<1>4. Written(s) = Written(r)
  BY <1>1, <1>2, <1>3, WrittenSame
<1>5. SameLocals(r, s) => Alike(r, s)
  BY <1>1, <1>2, <1>3, AlikeWindows
<1> QED
  BY <1>2, <1>4, <1>5

LEMMA RetiredHolds ==
  ASSUME NEW r \in DocumentType, InTurn(r), NEW s, s = Retired(r)
  PROVE  /\ Alike(r, s) /\ s.cur = r.cur /\ s.next = r.next /\ s.win = r.win
         /\ Len(s.prev) = IF Len(r.prev) > NumWindows THEN NumWindows ELSE Len(r.prev)
         /\ Len(r.prev) <= NumWindows => Printed(s) = Printed(r)
         /\ s.globals \in Nat
<1> DEFINE q == PrintedDownTo(r, NumWindows)
           gone == {r.prev[i] : i \in 1..(Len(r.prev) - NumWindows)}
           new == IF r.passes THEN q.cgPrinted ELSE q.cgPrinted \cup gone
<1>1. NumWindows \in Nat
  BY LimitsAssumption
<1>2. /\ Alike(r, q) /\ q.cur = r.cur /\ q.next = r.next /\ q.win = r.win
      /\ Len(q.prev) = IF Len(r.prev) > NumWindows THEN NumWindows ELSE Len(r.prev)
      /\ Len(r.prev) <= NumWindows => Printed(q) = Printed(r)
  BY <1>1, PrintedDownToHolds
<1>3. gone \subseteq Nat
  <2>1. r.prev \in Seq(Nat) /\ Len(r.prev) \in Nat
    BY DocumentFields
  <2>2. \A i \in 1 .. Len(r.prev) : r.prev[i] \in Nat
    BY <2>1, ElementOfSeq
  <2>3. \A i \in 1..(Len(r.prev) - NumWindows) : i \in 1 .. Len(r.prev)
    BY <1>1, <2>1
  <2> QED
    BY <2>2, <2>3
<1>4. s = [q EXCEPT !.cgPrinted = new]
  BY DEF Retired
<1>5. q \in DocumentType /\ InTurn(q)
  BY <1>2 DEF Alike, Documents
<1>6. new \subseteq Nat
  BY <1>3, <1>5 DEF DocumentType
<1> HIDE DEF q, gone, new
<1>7. s \in DocumentType
  BY <1>4, <1>5, <1>6 DEF DocumentType
<1>8. SameBody(q, s) /\ SameLocals(q, s)
  BY <1>4, <1>5 DEF SameBody, SameLocals, DocumentType
<1>9. Alike(q, s) /\ Printed(s) = Printed(q)
  BY <1>5, <1>7, <1>8, AlikeBody
<1>10. Alike(r, s)
  BY <1>2, <1>9, AlikeTrans
<1>11. s.globals \in Nat
  BY <1>7 DEF DocumentType
<1> QED
  BY <1>2, <1>8, <1>9, <1>10, <1>11 DEF SameBody

LEMMA ShuffledDownHolds ==
  ASSUME NEW r \in DocumentType, InTurn(r), NEW s, s = ShuffledDown(r)
  PROVE  /\ Alike(r, s) /\ Printed(s) = Printed(r) /\ s.win = r.win
         /\ r.next # <<>> => s.cur # NoWin /\ Len(s.next) = Len(r.next) - 1
         /\ r.next = <<>> => s.cur = NoWin /\ s.next = <<>>
         /\ Len(s.prev) = Len(r.prev) + Running(r)
<1> DEFINE p == IF r.cur = NoWin THEN r.prev ELSE Append(r.prev, r.cur)
           c == IF r.next = <<>> THEN NoWin ELSE Head(r.next)
           n == IF r.next = <<>> THEN r.next ELSE Tail(r.next)
<1>1. s = [r EXCEPT !.prev = p, !.cur = c, !.next = n]
  BY DEF ShuffledDown
<1> HIDE DEF p, c, n
<1>2. /\ s.prev = p /\ s.cur = c /\ s.next = n /\ s.win = r.win /\ s.out = r.out
      /\ SameLocals(r, s)
  BY <1>1 DEF DocumentType, SameLocals
<1>3. Shuffles(r, s)
  BY <1>2 DEF Shuffles, p, c, n
<1>4. /\ InTurn(s) /\ Printed(s) = Printed(r) /\ Queued(s) = Queued(r)
      /\ r.next # <<>> => s.cur # NoWin /\ Len(s.next) = Len(r.next) - 1
      /\ r.next = <<>> => s.cur = NoWin /\ s.next = <<>>
      /\ Len(s.prev) = Len(r.prev) + Running(r)
      /\ s.prev \in Seq(Nat) /\ s.cur \in Nat /\ s.next \in Seq(Nat)
  BY <1>3, ListsShuffled
<1>5. s \in DocumentType
  BY <1>1, <1>2, <1>4 DEF DocumentType
<1>6. Documents(r, s)
  BY <1>4, <1>5 DEF Documents
<1>7. Held(s) = Held(r)
  BY <1>2, <1>4 DEF Held, ItemsAll
<1>8. \A w \in 1 .. Len(r.win) : SameWindow(r.win[w], s.win[w])
  BY <1>2, SameWindowItself
<1>9. Printed(r) <= Printed(s)
  BY <1>4 DEF InTurn
<1> QED
  BY <1>2, <1>4, <1>6, <1>7, <1>8, <1>9 DEF Alike, Written

LEMMA RunCurrentHolds ==
  ASSUME NEW r \in DocumentType, InTurn(r), r.cur # NoWin, NEW s, s = RunCurrent(r)
  PROVE  /\ Alike(r, s) /\ s.cur = r.cur /\ s.next = r.next
         /\ Len(s.prev) = IF Len(r.prev) > NumWindows THEN NumWindows ELSE Len(r.prev)
         /\ Len(r.prev) <= NumWindows => Printed(s) = Printed(r)
<1> DEFINE w == r.win[r.cur]
           q == Retired(r)
           now == IF w.rem THEN NoVar ELSE IF w.set # NoVar THEN w.set ELSE r.globals
           x == [w EXCEPT !.runs = @ + 1, !.ranWith = Len(w.cohorts), !.saw = now]
<1>1. r.cur \in 1 .. Len(r.win)
  <2>1. /\ Printed(r) \in Nat /\ r.cur = Printed(r) + Len(r.prev) + 1
        /\ Len(r.win) = Printed(r) + Queued(r)
    BY BufferedHolds DEF InTurn
  <2>2. Queued(r) = Len(r.prev) + 1 + Len(r.next)
    BY DEF Queued, Running
  <2>3. Len(r.prev) \in Nat /\ Len(r.next) \in Nat
    BY DocumentFields
  <2> DEFINE z == Printed(r)
             a == Len(r.prev)
             b == Len(r.next)
             c == r.cur
             m == Len(r.win)
  <2>4. z \in Nat /\ a \in Nat /\ b \in Nat /\ c = z + a + 1 /\ m = z + (a + 1 + b)
    BY <2>1, <2>2, <2>3
  <2> HIDE DEF z, a, b, c, m
  <2>5. c \in 1 .. m
    BY <2>4
  <2> QED
    BY <2>5 DEF c, m
<1>2. w \in WindowType
  BY <1>1, DocumentFields
<1>3. /\ Alike(r, q) /\ q.cur = r.cur /\ q.next = r.next /\ q.win = r.win
      /\ Len(q.prev) = IF Len(r.prev) > NumWindows THEN NumWindows ELSE Len(r.prev)
      /\ Len(r.prev) <= NumWindows => Printed(q) = Printed(r)
  BY RetiredHolds
<1>4. q \in DocumentType /\ InTurn(q) /\ Len(q.win) = Len(r.win)
  BY <1>3 DEF Alike, Documents
<1>5. now \in Nat
  BY <1>2 DEF WindowType, DocumentType, NoVar
<1> DEFINE new == [q.win EXCEPT ![r.cur] = x]
<1>6. s = [q EXCEPT !.globals = now, !.win = new]
  BY <1>3 DEF RunCurrent
<1>7. Len(w.cohorts) \in Nat
  BY <1>2, LenProperties DEF WindowType
<1>8. x \in WindowType /\ x.cohorts = w.cohorts /\ x.text = w.text /\ x.flush = w.flush
  <2> DEFINE m == Len(w.cohorts)
             n == w.runs + 1
  <2>1. m \in Nat /\ now \in Nat /\ w \in WindowType
    BY <1>2, <1>5, <1>7
  <2>2. n \in Nat
    BY <2>1 DEF WindowType
  <2> HIDE DEF w, now, m, n
  <2>3. x = [w EXCEPT !.runs = n, !.ranWith = m, !.saw = now]
    BY DEF m, n
  <2> HIDE DEF x
  <2>4. x \in WindowType
    BY <2>1, <2>2, <2>3 DEF WindowType
  <2>5. x.cohorts = w.cohorts /\ x.text = w.text /\ x.flush = w.flush
    BY <2>1, <2>3 DEF WindowType
  <2> QED
    BY <2>4, <2>5
<1> HIDE DEF q, now, x
<1>10. WithWindow(q, r.cur, x) = [q EXCEPT !.win = new]
  BY DEF WithWindow
<1> DEFINE e == WithWindow(q, r.cur, x)
<1>11. /\ e \in DocumentType /\ SameLists(q, e) /\ e.out = q.out
       /\ e.win[r.cur] = x /\ \A v \in 1 .. Len(q.win) : v # r.cur => e.win[v] = q.win[v]
       /\ SameLocals(q, e)
  <2>1. r.cur \in 1 .. Len(q.win) /\ q \in DocumentType /\ x \in WindowType
        /\ e = WithWindow(q, r.cur, x)
    BY <1>1, <1>4, <1>8
  <2> HIDE DEF e, new
  <2>2. /\ e \in DocumentType /\ SameLists(q, e) /\ e.out = q.out
        /\ e.win[r.cur] = x /\ \A v \in 1 .. Len(q.win) : v # r.cur => e.win[v] = q.win[v]
        /\ e.cSw = q.cSw /\ e.lSw = q.lSw /\ e.cCoh = q.cCoh /\ e.lCoh = q.lCoh
        /\ e.blank = q.blank
    BY ONLY <2>1, WindowReplaced
  <2> QED
    BY <2>2 DEF SameLocals
<1>12. InTurn(e)
  BY <1>4, <1>11, ListsSame
<1>13. Documents(q, e)
  BY <1>4, <1>11, <1>12 DEF Documents
<1>14. SameWindow(w, x)
  BY <1>8 DEF SameWindow
<1>15. \A v \in 1 .. Len(q.win) : SameWindow(q.win[v], e.win[v])
  BY <1>3, <1>11, <1>14, SameWindowItself
<1>16. Alike(q, e) /\ Printed(e) = Printed(q)
  BY <1>11, <1>13, <1>15, AlikeWindows
<1> HIDE DEF x, new, w
<1>17. s = [e EXCEPT !.globals = now]
  <2> HIDE DEF e
  <2>1. e = [q EXCEPT !.win = new]
    BY <1>10 DEF e
  <2> QED
    BY <1>4, <1>6, <2>1 DEF DocumentType
<1> HIDE DEF e
<1>18. s \in DocumentType /\ SameBody(e, s) /\ SameLocals(e, s)
  BY <1>5, <1>11, <1>17 DEF DocumentType, SameBody, SameLocals
<1>19. Alike(e, s) /\ Printed(s) = Printed(e)
  BY <1>11, <1>12, <1>18, AlikeBody
<1>20. Alike(r, s)
  BY <1>3, <1>16, <1>19, AlikeTrans
<1> QED
  BY <1>3, <1>11, <1>16, <1>18, <1>19, <1>20 DEF SameBody, SameLists

\* The next window that waits becomes current and runs.
RunsNext(r, s) ==
  /\ Alike(r, s) /\ Len(s.next) = Len(r.next) - 1
  /\ Printed(s) = Printed(r) \/ Printed(s) + 2 <= Len(s.win)

LEMMA RunNextHolds ==
  ASSUME NEW r \in DocumentType, InTurn(r), r.next # <<>>,
         NEW s, s = RunCurrent(ShuffledDown(r))
  PROVE  RunsNext(r, s)
<1> DEFINE x == ShuffledDown(r)
<1>1. s = RunCurrent(x)
  OBVIOUS
<1>2. NumWindows \in Nat /\ NumWindows # 0 /\ Len(r.next) \in Nat
  BY LimitsAssumption, DocumentFields
<1>3. /\ Alike(r, x) /\ Printed(x) = Printed(r)
      /\ x.cur # NoWin /\ Len(x.next) = Len(r.next) - 1
  BY ShuffledDownHolds
<1> HIDE DEF x
<1>4. x \in DocumentType /\ InTurn(x)
  BY <1>3 DEF Alike, Documents
<1>5. /\ Alike(x, s) /\ s.cur = x.cur /\ s.next = x.next
      /\ Len(s.prev) = IF Len(x.prev) > NumWindows THEN NumWindows ELSE Len(x.prev)
      /\ Len(x.prev) <= NumWindows => Printed(s) = Printed(x)
  BY <1>1, <1>3, <1>4, RunCurrentHolds
<1>6. Alike(r, s)
  BY <1>3, <1>5, AlikeTrans
<1>7. Printed(s) = Printed(r) \/ Printed(s) + 2 <= Len(s.win)
  <2>1. CASE Len(x.prev) <= NumWindows
    BY <1>3, <1>5, <2>1
  <2>2. CASE ~ (Len(x.prev) <= NumWindows)
    <3>1. Len(x.prev) \in Nat /\ Len(s.next) \in Nat
      BY <1>4, <1>6, DocumentFields DEF Alike, Documents
    <3>2. Len(s.prev) = NumWindows
      BY <1>2, <1>5, <2>2, <3>1
    <3>3. Running(s) = 1
      BY <1>3, <1>5 DEF Running
    <3>4. /\ Printed(s) \in Nat /\ Len(s.win) = Printed(s) + Queued(s)
          /\ Queued(s) = NumWindows + 1 + Len(s.next)
      BY <1>6, <3>2, <3>3, BufferedHolds DEF Alike, Documents, Queued
    <3> DEFINE z == Printed(s)
               n == Len(s.next)
               m == Len(s.win)
    <3>5. z \in Nat /\ n \in Nat /\ m = z + (NumWindows + 1 + n)
      BY <3>1, <3>4
    <3> HIDE DEF z, n, m
    <3>6. z + 2 <= m
      BY <1>2, <3>5
    <3> QED
      BY <3>6 DEF z, m
  <2> QED
    BY <2>1, <2>2
<1> QED
  BY <1>3, <1>5, <1>6, <1>7 DEF RunsNext

LEMMA DrainedHolds ==
  ASSUME NEW r \in DocumentType, InTurn(r), NEW s, s = Drained(r)
  PROVE  /\ Alike(r, s) /\ (r.next # <<>> => s.next # <<>>)
         /\ Printed(s) = Printed(r) \/ Printed(s) + 2 <= Len(s.win)
<1>1. CASE ~ (Len(r.next) > NumWindows)
  <2>1. s = r
    BY <1>1 DEF Drained
  <2>2. SameBody(r, r) /\ SameLocals(r, r)
    BY DEF SameBody, SameLocals
  <2> QED
    BY <2>1, <2>2, AlikeBody
<1>2. CASE Len(r.next) > NumWindows
  <2>1. s = RunCurrent(ShuffledDown(r))
    BY <1>2 DEF Drained
  <2>2. NumWindows \in Nat /\ NumWindows # 0 /\ Len(r.next) \in Nat
    BY LimitsAssumption, DocumentFields
  <2>3. r.next # <<>>
    BY <1>2, <2>2, EmptySeq
  <2>4. RunsNext(r, s)
    BY <2>1, <2>3, RunNextHolds
  <2>5. s.next # <<>>
    <3>1. Len(s.next) >= 1
      BY <1>2, <2>2, <2>4 DEF RunsNext
    <3> QED
      BY <3>1, EmptySeq
  <2> QED
    BY <2>4, <2>5 DEF RunsNext
<1> QED
  BY <1>1, <1>2

\* The windows that wait, run one after another.
RanUpTo(f, r, m) ==
  f = [i \in 0 .. m |-> IF i = 0 THEN r ELSE RunCurrent(ShuffledDown(f[i - 1]))]

RunsInTurn(f, r, m) ==
  \A i \in 0 .. m : f[i] = IF i = 0 THEN r ELSE RunCurrent(ShuffledDown(f[i - 1]))

LEMMA RanSteps ==
  ASSUME NEW r, NEW m \in Nat, NEW f, RanUpTo(f, r, m)
  PROVE  RunsInTurn(f, r, m)
<1> DEFINE At(i) == IF i = 0 THEN r ELSE RunCurrent(ShuffledDown(f[i - 1]))
<1>1. f = [i \in 0 .. m |-> At(i)]
  BY DEF RanUpTo
<1>2. \A i \in 0 .. m : f[i] = At(i)
  BY <1>1
<1> QED
  BY <1>2 DEF RunsInTurn

LEMMA RanExists ==
  ASSUME NEW r, NEW m \in Nat
  PROVE  \E f : RanUpTo(f, r, m)
<1> DEFINE T == {n \in Nat : ~ \E f : RanUpTo(f, r, n)}
<1> SUFFICES ASSUME T # {}
             PROVE  FALSE
  OBVIOUS
<1>1. PICK n \in T : \A k \in T : n <= k
  BY LeastNatural
<1>2. n # 0
  <2> DEFINE g == [i \in 0 .. 0 |-> r]
             At(i) == IF i = 0 THEN r ELSE RunCurrent(ShuffledDown(g[i - 1]))
  <2>1. \A i \in 0 .. 0 : i = 0
    OBVIOUS
  <2>2. g = [i \in 0 .. 0 |-> At(i)]
    BY <2>1
  <2>3. RanUpTo(g, r, 0)
    BY <2>2 DEF RanUpTo
  <2> QED
    BY <1>1, <2>3
<1>3. n - 1 \in Nat /\ n - 1 \notin T
  BY <1>1, <1>2
<1>4. PICK f : RanUpTo(f, r, n - 1)
  BY <1>3
<1>5. RunsInTurn(f, r, n - 1)
  BY <1>3, <1>4, RanSteps
<1> DEFINE g == [i \in 0 .. n |-> IF i = n THEN RunCurrent(ShuffledDown(f[n - 1])) ELSE f[i]]
           At(i) == IF i = 0 THEN r ELSE RunCurrent(ShuffledDown(g[i - 1]))
<1>6. ASSUME NEW i \in 0 .. n
      PROVE  g[i] = At(i)
  <2>1. CASE i = n
    <3>1. n - 1 \in 0 .. n /\ n - 1 # n /\ n \in 0 .. n
      BY <1>2
    <3>2. g[n - 1] = f[n - 1] /\ g[n] = RunCurrent(ShuffledDown(f[n - 1]))
      BY <3>1
    <3> HIDE DEF g
    <3> QED
      BY <1>2, <2>1, <3>2
  <2>2. CASE i # n
    <3>1. i \in 0 .. n - 1 /\ (i # 0 => i - 1 \in 0 .. n /\ i - 1 # n)
      BY <2>2
    <3>2. g[i] = f[i] /\ (i # 0 => g[i - 1] = f[i - 1])
      BY <2>2, <3>1
    <3> HIDE DEF g
    <3> QED
      BY <1>5, <3>1, <3>2 DEF RunsInTurn
  <2> QED
    BY <2>1, <2>2
<1>7. g = [i \in 0 .. n |-> At(i)]
  BY <1>6
<1>8. RanUpTo(g, r, n)
  BY <1>7 DEF RanUpTo
<1> QED
  BY <1>1, <1>8

LEMMA RanAllHolds ==
  ASSUME NEW r \in DocumentType, InTurn(r), NEW s, s = RanAll(r)
  PROVE  Alike(r, s) /\ s.next = <<>>
<1> DEFINE n == Len(r.next)
           f == CHOOSE f : RanUpTo(f, r, n)
<1>1. n \in Nat
  BY DocumentFields
<1>2. RanUpTo(f, r, n)
  BY <1>1, RanExists
<1>3. s = f[n]
  BY DEF RanAll, RanUpTo
<1> HIDE DEF f
<1>4. RunsInTurn(f, r, n)
  BY <1>1, <1>2, RanSteps
<1> DEFINE Turned(i) == Alike(r, f[i]) /\ Len(f[i].next) = n - i
           T == {i \in 0 .. n : ~ Turned(i)}
<1>5. \A i \in 0 .. n : Turned(i)
  <2> SUFFICES ASSUME T # {}
               PROVE  FALSE
    OBVIOUS
  <2>1. T \subseteq Nat
    BY <1>1
  <2>2. PICK i \in T : \A k \in T : i <= k
    BY <2>1, LeastNatural
  <2>3. i \in 0 .. n /\ ~ Turned(i)
    OBVIOUS
  <2>4. i # 0
    <3>1. Alike(r, r)
      <4>1. SameBody(r, r) /\ SameLocals(r, r)
        BY DEF SameBody, SameLocals
      <4> QED
        BY <4>1, AlikeBody
    <3>2. f[0] = r
      BY <1>1, <1>4 DEF RunsInTurn
    <3>3. n - 0 = n
      BY <1>1
    <3>4. Turned(0)
      BY <3>1, <3>2, <3>3
    <3> QED
      BY <2>3, <3>4
  <2>5. PICK j \in 0 .. n : i = j + 1 /\ j \notin T
    <3>1. i - 1 \in 0 .. n /\ i = (i - 1) + 1 /\ ~ (i <= i - 1)
      BY <1>1, <2>3, <2>4
    <3> QED
      BY <2>2, <3>1
  <2>6. Turned(j)
    BY <2>5
  <2> DEFINE y == f[j]
             x == ShuffledDown(y)
  <2>7. f[i] = RunCurrent(x)
    <3>1. i - 1 = j
      BY <2>5
    <3> QED
      BY <1>4, <2>3, <2>4, <3>1 DEF RunsInTurn
  <2>8. /\ Alike(r, y) /\ Len(y.next) = n - j /\ y \in DocumentType /\ InTurn(y)
    BY <2>6 DEF Alike, Documents
  <2>9. n - j # 0 /\ (n - j) - 1 = n - i
    BY <1>1, <2>3, <2>5
  <2>10. y.next # <<>>
    BY <2>8, <2>9, EmptySeq
  <2>11. Alike(y, x) /\ x.cur # NoWin /\ Len(x.next) = n - i
    BY <2>8, <2>9, <2>10, ShuffledDownHolds
  <2> HIDE DEF x, y
  <2>12. x \in DocumentType /\ InTurn(x)
    BY <2>11 DEF Alike, Documents
  <2>13. Alike(x, f[i]) /\ f[i].next = x.next
    BY <2>7, <2>11, <2>12, RunCurrentHolds
  <2>14. Alike(r, f[i])
    BY <2>8, <2>11, <2>13, AlikeTrans
  <2> QED
    BY <2>3, <2>11, <2>13, <2>14
<1>6. n \in 0 .. n /\ n - n = 0
  BY <1>1
<1>7. Alike(r, s) /\ Len(s.next) = 0
  BY <1>3, <1>5, <1>6
<1>8. s.next \in Seq(Nat)
  BY <1>7, DocumentFields DEF Alike, Documents
<1> QED
  BY <1>7, <1>8, EmptySeq

LEMMA PrintedAllHolds ==
  ASSUME NEW r \in DocumentType, InTurn(r), NEW s, s = PrintedAll(r)
  PROVE  /\ Alike(r, s)
         /\ r.next = <<>> =>
              /\ s.prev = <<>> /\ s.cur = NoWin /\ s.next = <<>>
              /\ s.out = Written(r) /\ Held(s) = <<>> /\ Printed(s) = Len(s.win)
<1> DEFINE x == ShuffledDown(r)
<1>1. s = PrintedDownTo(x, 0)
  BY DEF PrintedAll
<1>2. Alike(r, x) /\ (r.next = <<>> => x.cur = NoWin /\ x.next = <<>>)
  BY ShuffledDownHolds
<1> HIDE DEF x
<1>3. x \in DocumentType /\ InTurn(x)
  BY <1>2 DEF Alike, Documents
<1>4. Len(x.prev) \in Nat
  BY <1>3, DocumentFields
<1>5. /\ Alike(x, s) /\ s.cur = x.cur /\ s.next = x.next
      /\ Len(s.prev) = IF Len(x.prev) > 0 THEN 0 ELSE Len(x.prev)
  BY <1>1, <1>3, PrintedDownToHolds
<1>6. Alike(r, s) /\ s \in DocumentType /\ InTurn(s)
  BY <1>2, <1>5, AlikeTrans DEF Alike, Documents
<1>7. Len(s.prev) = 0 /\ s.prev \in Seq(Nat)
  BY <1>4, <1>5, <1>6, DocumentFields
<1>8. s.prev = <<>>
  BY <1>7, EmptySeq
<1>9. ASSUME r.next = <<>>
      PROVE  /\ s.cur = NoWin /\ s.next = <<>>
             /\ s.out = Written(r) /\ Held(s) = <<>> /\ Printed(s) = Len(s.win)
  <2>1. s.cur = NoWin /\ s.next = <<>>
    BY <1>2, <1>5, <1>9
  <2>2. Queued(s) = 0
    BY <1>7, <2>1, EmptySeq DEF Queued, Running
  <2>3. Len(s.win) \in Nat
    BY <1>6, DocumentFields
  <2>4. Printed(s) = Len(s.win)
    BY <2>2, <2>3 DEF Printed
  <2>5. Held(s) = <<>>
    BY <2>3, <2>4, FlatEmpty DEF Held
  <2>6. Written(s) = s.out
    BY <1>6, <2>5, HeldText, TextConcat DEF Written
  <2> QED
    BY <1>6, <2>1, <2>4, <2>5, <2>6 DEF Alike
<1> QED
  BY <1>6, <1>8, <1>9

-----------------------------------------------------------------------------
(* The shape of a document: every window starts with its >>> cohort, which   *)
(* is no delimiter, the cohorts behind it have ids up to b, a live window    *)
(* was not flushed, and the window being filled is the last one.             *)

Headed(x, w, b) ==
  /\ x.cohorts # <<>> /\ x.cohorts[1].id = -w /\ x.cohorts[1].kinds = {}
  /\ \A k \in 2 .. Len(x.cohorts) : x.cohorts[k].id \in 1 .. b

Filling(r) ==
  /\ r.cSw # NoWin => r.next # <<>> /\ r.cSw = Len(r.win)
  /\ r.lSw \in 0 .. Len(r.win)

Windows(r, b) == \A w \in 1 .. Len(r.win) : Headed(r.win[w], w, b)

Unflushed(r) == \A w \in Printed(r) + 1 .. Len(r.win) : r.win[w].flush = <<>>

Sound(r, b) ==
  /\ r \in DocumentType /\ InTurn(r)
  /\ Windows(r, b) /\ Unflushed(r) /\ Filling(r)

\* The cohort with this id is the last one of a live window, no other live
\* cohort has the id, and at most one window follows, which says nothing.
Unique(r, w, id) ==
  /\ r.win[w].cohorts[Len(r.win[w].cohorts)].id = id
  /\ \A v \in Printed(r) + 1 .. Len(r.win) : \A k \in 1 .. Len(r.win[v].cohorts) :
       r.win[v].cohorts[k].id = id => v = w /\ k = Len(r.win[w].cohorts)

Silent(r, w) ==
  \A v \in w + 1 .. Len(r.win) :
    Items(r.win[v]) = <<>> /\ Len(r.win[v].cohorts) = 1

Anchor(r, w, id) ==
  /\ w \in Printed(r) + 1 .. Len(r.win) /\ Len(r.win) <= w + 1
  /\ Unique(r, w, id) /\ Silent(r, w)

Anchored(r, id) == \E w : Anchor(r, w, id)

LEMMA HeadedMore ==
  ASSUME NEW x, NEW w, NEW b \in Nat, NEW c \in Nat, b <= c, Headed(x, w, b)
  PROVE  Headed(x, w, c)
<1>1. \A i \in 1 .. b : i \in 1 .. c
  OBVIOUS
<1> QED
  BY <1>1 DEF Headed

LEMMA SoundMore ==
  ASSUME NEW r, NEW b \in Nat, NEW c \in Nat, b <= c, Sound(r, b)
  PROVE  Sound(r, c)
<1>1. Windows(r, c)
  BY HeadedMore DEF Sound, Windows
<1> QED
  BY <1>1 DEF Sound

LEMMA SoundFacts ==
  ASSUME NEW r, NEW b, Sound(r, b)
  PROVE  /\ r \in DocumentType /\ InTurn(r) /\ Len(r.win) \in Nat /\ Printed(r) \in Nat
         /\ Printed(r) <= Len(r.win) /\ Written(r) \in Text /\ r.out \in Text
         /\ r.cCoh \in CohortType /\ r.blank \in Text
         /\ r.next \in Seq(Nat) /\ Len(r.next) \in Nat
         /\ r.cSw # NoWin => r.next # <<>> /\ r.cSw = Len(r.win)
         /\ r.lSw \in 0 .. Len(r.win)
         /\ \A w \in 1 .. Len(r.win) :
              /\ r.win[w] \in WindowType /\ Headed(r.win[w], w, b)
              /\ r.win[w].cohorts \in Seq(CohortType)
              /\ Len(r.win[w].cohorts) \in Nat /\ Len(r.win[w].cohorts) >= 1
<1>1. /\ r \in DocumentType /\ InTurn(r) /\ Windows(r, b) /\ Filling(r)
  BY DEF Sound
<1>2. /\ Len(r.win) \in Nat /\ r.cCoh \in CohortType /\ r.blank \in Text
      /\ r.next \in Seq(Nat) /\ Len(r.next) \in Nat
      /\ \A w \in 1 .. Len(r.win) : r.win[w] \in WindowType
  BY <1>1, DocumentFields
<1>3. Printed(r) \in Nat /\ Printed(r) <= Len(r.win) /\ Written(r) \in Text /\ r.out \in Text
  BY <1>1, HeldText
<1>4. ASSUME NEW w \in 1 .. Len(r.win)
      PROVE  /\ r.win[w].cohorts \in Seq(CohortType) /\ Headed(r.win[w], w, b)
             /\ Len(r.win[w].cohorts) \in Nat /\ Len(r.win[w].cohorts) >= 1
  <2>1. r.win[w].cohorts \in Seq(CohortType) /\ Headed(r.win[w], w, b)
    BY <1>1, <1>2 DEF WindowType, Windows
  <2>2. Len(r.win[w].cohorts) \in Nat /\ r.win[w].cohorts # <<>>
    BY <2>1, LenProperties DEF Headed
  <2>3. Len(r.win[w].cohorts) # 0
    BY <2>1, <2>2, EmptySeq
  <2> QED
    BY <2>1, <2>2, <2>3
<1> QED
  BY <1>1, <1>2, <1>3, <1>4 DEF Filling

\* Changing the locals only.
LEMMA SoundLocals ==
  ASSUME NEW r, NEW b, Sound(r, b), NEW s \in DocumentType, SameBody(r, s),
         s.cSw \in {NoWin, r.cSw}, s.lSw \in 0 .. Len(r.win)
  PROVE  /\ Sound(s, b) /\ Written(s) = Written(r)
         /\ \A id : Anchored(r, id) => Anchored(s, id)
<1>1. r \in DocumentType /\ InTurn(r)
  BY DEF Sound
<1>2. Documents(r, s) /\ Printed(s) = Printed(r) /\ Written(s) = Written(r)
  BY <1>1, AlikeBody
<1>3. Windows(s, b) /\ Unflushed(s) /\ Filling(s)
  BY <1>2 DEF Sound, SameBody, Windows, Unflushed, Filling
<1>4. \A id, w : Anchor(r, w, id) => Anchor(s, w, id)
  BY <1>2 DEF Anchor, Unique, Silent, SameBody
<1> QED
  BY <1>2, <1>3, <1>4 DEF Sound, Documents, Anchored

LEMMA SameWindowShape ==
  ASSUME NEW x, NEW y, SameWindow(x, y),
         x.cohorts \in Seq(CohortType), y.cohorts \in Seq(CohortType)
  PROVE  /\ \A w, b : Headed(x, w, b) => Headed(y, w, b)
         /\ Len(y.cohorts) = Len(x.cohorts) /\ y.flush = x.flush
         /\ \A k \in 1 .. Len(x.cohorts) : y.cohorts[k].id = x.cohorts[k].id
<1>1. /\ Len(y.cohorts) = Len(x.cohorts) /\ y.flush = x.flush
      /\ \A k \in 1 .. Len(x.cohorts) :
           y.cohorts[k].id = x.cohorts[k].id /\ y.cohorts[k].kinds = x.cohorts[k].kinds
  BY DEF SameWindow
<1>2. ASSUME NEW w, NEW b, Headed(x, w, b)
      PROVE  Headed(y, w, b)
  <2>1. Len(x.cohorts) \in Nat /\ Len(x.cohorts) # 0
    BY <1>2, LenProperties, EmptySeq DEF Headed
  <2>2. y.cohorts # <<>>
    BY <1>1, <2>1, EmptySeq
  <2>3. 1 \in 1 .. Len(x.cohorts) /\ \A k \in 2 .. Len(x.cohorts) : k \in 1 .. Len(x.cohorts)
    BY <2>1
  <2> QED
    BY <1>1, <1>2, <2>2, <2>3 DEF Headed
<1> QED
  BY <1>1, <1>2

\* The operations of the section before keep the shape.
LEMMA AlikeSound ==
  ASSUME NEW r, NEW b, Sound(r, b), NEW s, Alike(r, s),
         r.cSw # NoWin => s.next # <<>>
  PROVE  /\ Sound(s, b)
         /\ \A id : /\ Anchored(r, id)
                    /\ Printed(s) = Printed(r) \/ Printed(s) + 2 <= Len(s.win)
                    => Anchored(s, id)
<1>1. /\ s \in DocumentType /\ InTurn(s) /\ Len(s.win) = Len(r.win)
      /\ SameLocals(r, s) /\ Printed(r) <= Printed(s)
      /\ \A w \in 1 .. Len(r.win) : SameWindow(r.win[w], s.win[w])
  BY DEF Alike, Documents
<1>2. /\ r \in DocumentType /\ InTurn(r) /\ Len(r.win) \in Nat /\ Printed(r) \in Nat
      /\ \A w \in 1 .. Len(r.win) :
           /\ r.win[w] \in WindowType /\ Headed(r.win[w], w, b)
           /\ r.win[w].cohorts \in Seq(CohortType)
  BY SoundFacts
<1>3. /\ Printed(s) \in Nat /\ Printed(s) <= Len(r.win)
      /\ \A w \in 1 .. Len(r.win) : s.win[w] \in WindowType
  BY <1>1, HeldText, DocumentFields
<1>4. \A w \in 1 .. Len(r.win) : s.win[w].cohorts \in Seq(CohortType)
  BY <1>3 DEF WindowType
<1>5. ASSUME NEW w \in 1 .. Len(r.win)
      PROVE  /\ Headed(s.win[w], w, b)
             /\ Len(s.win[w].cohorts) = Len(r.win[w].cohorts)
             /\ s.win[w].flush = r.win[w].flush /\ Items(s.win[w]) = Items(r.win[w])
             /\ \A k \in 1 .. Len(r.win[w].cohorts) :
                  s.win[w].cohorts[k].id = r.win[w].cohorts[k].id
  BY <1>1, <1>2, <1>3, <1>4, SameWindowShape, SameWindowItems
<1>6. \A w \in Printed(s) + 1 .. Len(r.win) :
        w \in Printed(r) + 1 .. Len(r.win) /\ w \in 1 .. Len(r.win)
  BY <1>1, <1>2, <1>3
<1>7. Windows(s, b) /\ Unflushed(s) /\ Filling(s)
  <2>1. Windows(s, b)
    BY <1>1, <1>5 DEF Windows
  <2>2. Unflushed(s)
    BY <1>1, <1>5, <1>6 DEF Unflushed, Sound
  <2>3. Filling(s)
    BY <1>1 DEF Filling, Sound, SameLocals
  <2> QED
    BY <2>1, <2>2, <2>3
<1>8. ASSUME NEW id, NEW w, Anchor(r, w, id),
             Printed(s) = Printed(r) \/ Printed(s) + 2 <= Len(s.win)
      PROVE  Anchor(s, w, id)
  <2>1. /\ w \in Printed(r) + 1 .. Len(r.win) /\ Len(r.win) <= w + 1
        /\ Unique(r, w, id) /\ Silent(r, w)
    BY <1>8 DEF Anchor
  <2>2. w \in Printed(s) + 1 .. Len(s.win) /\ w \in 1 .. Len(r.win)
    BY <1>1, <1>2, <1>3, <1>8, <2>1
  <2>3. Len(s.win[w].cohorts) \in 1 .. Len(s.win[w].cohorts)
    <3>1. s.win[w].cohorts # <<>> /\ Len(s.win[w].cohorts) \in Nat
      BY <1>4, <1>5, <2>2, LenProperties DEF Headed
    <3>2. Len(s.win[w].cohorts) # 0
      BY <1>4, <2>2, <3>1, EmptySeq
    <3> QED
      BY <3>1, <3>2
  <2>4. Unique(s, w, id)
    <3>1. s.win[w].cohorts[Len(s.win[w].cohorts)].id = id
      BY <1>5, <2>1, <2>2, <2>3 DEF Unique
    <3>2. ASSUME NEW v \in Printed(s) + 1 .. Len(s.win), NEW k \in 1 .. Len(s.win[v].cohorts),
                 s.win[v].cohorts[k].id = id
          PROVE  v = w /\ k = Len(s.win[w].cohorts)
      <4>1. v \in Printed(r) + 1 .. Len(r.win) /\ v \in 1 .. Len(r.win)
        BY <1>1, <1>6
      <4>2. k \in 1 .. Len(r.win[v].cohorts) /\ r.win[v].cohorts[k].id = id
        BY <1>5, <3>2, <4>1
      <4> QED
        BY <1>5, <2>1, <2>2, <4>1, <4>2 DEF Unique
    <3> QED
      BY <3>1, <3>2 DEF Unique
  <2>5. Silent(s, w)
    <3>1. \A v \in w + 1 .. Len(r.win) : v \in 1 .. Len(r.win)
      BY <1>2, <2>2
    <3> QED
      BY <1>1, <1>5, <2>1, <3>1 DEF Silent
  <2> QED
    BY <1>1, <2>1, <2>2, <2>4, <2>5 DEF Anchor
<1> QED
  BY <1>1, <1>7, <1>8 DEF Sound, Anchored

-----------------------------------------------------------------------------
(* The operations that add to the windows.                                   *)

LEMMA NoCohortIs ==
  /\ NoCohort \in CohortType /\ NoCohort.id = 0 /\ NoCohort.ids = <<>>
  /\ NoCohort.text = <<>> /\ NoCohort.kinds = {} /\ Says(NoCohort) = <<>>
<1>1. NoCohort \in CohortType
  BY EmptyText DEF NoCohort, CohortType
<1>2. /\ NoCohort.id = 0 /\ NoCohort.ids = <<>> /\ NoCohort.text = <<>>
      /\ NoCohort.kinds = {}
  BY DEF NoCohort
<1>3. <<>> \o <<>> = <<>>
  BY EmptyText, TextConcat
<1> QED
  BY <1>1, <1>2, <1>3 DEF Says

\* One cohort of a window is another one.
WithCohort(r, w, k, c) ==
  WithWindow(r, w, [r.win[w] EXCEPT !.cohorts = [r.win[w].cohorts EXCEPT ![k] = c]])

\* The document s that this makes of r.
ReplacedIn(r, s, w, k, c) ==
  /\ s \in DocumentType /\ SameLists(r, s) /\ s.out = r.out /\ SameLocals(r, s)
  /\ \A v \in 1 .. Len(r.win) : v # w => s.win[v] = r.win[v]
  /\ s.win[w].text = r.win[w].text /\ s.win[w].flush = r.win[w].flush
  /\ s.win[w] \in WindowType /\ s.win[w].cohorts \in Seq(CohortType)
  /\ Len(s.win[w].cohorts) = Len(r.win[w].cohorts)
  /\ s.win[w].cohorts[k] = c
  /\ \A j \in 1 .. Len(r.win[w].cohorts) :
       j # k => s.win[w].cohorts[j] = r.win[w].cohorts[j]

LEMMA CohortReplaced ==
  ASSUME NEW r \in DocumentType, NEW w \in 1 .. Len(r.win),
         NEW k \in 1 .. Len(r.win[w].cohorts), NEW c \in CohortType,
         NEW s, s = WithCohort(r, w, k, c)
  PROVE  ReplacedIn(r, s, w, k, c)
<1> DEFINE y == r.win[w]
           new == [y.cohorts EXCEPT ![k] = c]
           x == [y EXCEPT !.cohorts = new]
<1>1. y \in WindowType /\ y.cohorts \in Seq(CohortType)
  BY DocumentFields DEF WindowType
<1>2. /\ new \in Seq(CohortType) /\ Len(new) = Len(y.cohorts) /\ new[k] = c
      /\ \A j \in 1 .. Len(y.cohorts) : j # k => new[j] = y.cohorts[j]
  <2>1. new \in Seq(CohortType) /\ Len(new) = Len(y.cohorts)
    BY <1>1, ExceptSeq
  <2>2. DOMAIN y.cohorts = 1 .. Len(y.cohorts)
    BY <1>1, LenProperties
  <2> QED
    BY <2>1, <2>2
<1>3. s = WithWindow(r, w, x)
  BY DEF WithCohort
<1> HIDE DEF y, new
<1>4. x \in WindowType /\ x.cohorts = new /\ x.text = y.text /\ x.flush = y.flush
  BY <1>1, <1>2 DEF WindowType
<1> HIDE DEF x
<1>5. /\ s \in DocumentType /\ SameLists(r, s) /\ s.out = r.out
      /\ s.win[w] = x /\ \A v \in 1 .. Len(r.win) : v # w => s.win[v] = r.win[v]
      /\ s.cSw = r.cSw /\ s.lSw = r.lSw /\ s.cCoh = r.cCoh /\ s.lCoh = r.lCoh
      /\ s.blank = r.blank
  BY <1>3, <1>4, WindowReplaced
<1> QED
  BY <1>2, <1>4, <1>5 DEF y, SameLocals, ReplacedIn

LEMMA EndedLastAlike ==
  ASSUME NEW r \in DocumentType, InTurn(r), NEW w \in 1 .. Len(r.win),
         r.win[w].cohorts # <<>>, NEW s, s = EndedLast(r, w)
  PROVE  Alike(r, s) /\ SameLists(r, s) /\ s.out = r.out /\ Printed(s) = Printed(r)
<1> DEFINE k == Len(r.win[w].cohorts)
           o == r.win[w].cohorts[k]
           c == [o EXCEPT !.ended = TRUE]
<1>1. r.win[w].cohorts \in Seq(CohortType) /\ k \in 1 .. k
  <2>1. r.win[w].cohorts \in Seq(CohortType)
    BY DocumentFields DEF WindowType
  <2>2. k \in Nat /\ k # 0
    BY <2>1, LenProperties, EmptySeq
  <2> HIDE DEF k
  <2>3. k \in 1 .. k
    BY <2>2
  <2> QED
    BY <2>1, <2>3
<1>2. o \in CohortType
  BY <1>1, ElementOfSeq
<1>3. s = WithCohort(r, w, k, c)
  BY DEF EndedLast, WithCohort, WithWindow, Count
<1> HIDE DEF o
<1>4. /\ c \in CohortType /\ c.id = o.id /\ c.ids = o.ids /\ c.text = o.text
      /\ c.kinds = o.kinds
  BY <1>2 DEF CohortType
<1> HIDE DEF c, k
<1>5. ReplacedIn(r, s, w, k, c)
  <2>1. k \in 1 .. Len(r.win[w].cohorts)
    BY <1>1 DEF k
  <2> QED
    BY <1>3, <1>4, <2>1, CohortReplaced
<1>6. Documents(r, s)
  BY <1>5, ListsSame DEF Documents, ReplacedIn
<1>7. SameWindow(r.win[w], s.win[w])
  BY <1>4, <1>5 DEF SameWindow, o, ReplacedIn
<1>8. \A v \in 1 .. Len(r.win) : SameWindow(r.win[v], s.win[v])
  BY <1>5, <1>7, SameWindowItself DEF ReplacedIn
<1>9. Alike(r, s) /\ Printed(s) = Printed(r)
  BY <1>5, <1>6, <1>8, AlikeWindows DEF ReplacedIn
<1> QED
  BY <1>5, <1>9 DEF ReplacedIn

LEMMA EndedLastHolds ==
  ASSUME NEW r, NEW b, Sound(r, b), NEW w \in 1 .. Len(r.win),
         NEW s, s = EndedLast(r, w)
  PROVE  /\ Alike(r, s) /\ Sound(s, b) /\ SameLists(r, s) /\ s.out = r.out
         /\ Printed(s) = Printed(r)
         /\ \A id : Anchored(r, id) => Anchored(s, id)
<1>1. /\ r \in DocumentType /\ InTurn(r) /\ r.win[w].cohorts # <<>>
      /\ r.cSw # NoWin => r.next # <<>>
  BY SoundFacts DEF Headed
<1>2. Alike(r, s) /\ SameLists(r, s) /\ s.out = r.out /\ Printed(s) = Printed(r)
  BY <1>1, EndedLastAlike
<1>3. r.cSw # NoWin => s.next # <<>>
  BY <1>1, <1>2 DEF SameLists
<1>4. Sound(s, b) /\ \A id : Anchored(r, id) => Anchored(s, id)
  BY <1>2, <1>3, AlikeSound
<1> QED
  BY <1>2, <1>4

LEMMA LastWaits ==
  ASSUME NEW r \in DocumentType, InTurn(r), r.next # <<>>
  PROVE  /\ Printed(r) + 1 <= Len(r.win) /\ Len(r.win) \in Printed(r) + 1 .. Len(r.win)
         /\ Len(r.next) \in Nat \ {0} /\ r.next[Len(r.next)] = Len(r.win)
         /\ \A i \in 1 .. Len(r.next) : r.next[i] = Len(r.win) => i = Len(r.next)
<1> DEFINE z == Printed(r)
           a == Len(r.prev)
           n == Len(r.next)
           c == Running(r)
           m == Len(r.win)
<1>1. z \in Nat /\ a \in Nat /\ n \in Nat /\ c \in {0, 1} /\ m \in Nat
  BY DocumentFields DEF InTurn, Running
<1>2. n # 0
  BY DocumentFields, EmptySeq
<1>3. m = z + (a + c + n)
  BY BufferedHolds DEF Queued
<1>4. \A i \in 1 .. n : r.next[i] = z + a + c + i
  BY DEF InTurn
<1>5. c \in Nat
  BY <1>1
<1> HIDE DEF z, a, n, c, m
<1>6. /\ z + 1 <= m /\ n \in 1 .. n /\ z + a + c + n = m
      /\ \A i \in 1 .. n : z + a + c + i = m => i = n
  BY <1>1, <1>2, <1>3, <1>5
<1>7. m \in z + 1 .. m /\ n \in Nat \ {0}
  BY <1>1, <1>2, <1>6
<1>8. r.next[n] = m /\ \A i \in 1 .. n : r.next[i] = m => i = n
  BY <1>4, <1>6
<1> QED
  BY <1>6, <1>7, <1>8 DEF z, n, m

LEMMA OpenedHolds ==
  ASSUME NEW r, NEW b, Sound(r, b), NEW s, s = Opened(r)
  PROVE  /\ Sound(s, b) /\ Written(s) = Written(r) /\ Printed(s) = Printed(r)
         /\ Len(s.win) = Len(r.win) + 1 /\ s.cSw = Len(s.win) /\ s.lSw = Len(s.win)
         /\ s.cSw # NoWin /\ s.out = r.out
         /\ s.cCoh = r.cCoh /\ s.lCoh = r.lCoh /\ s.blank = r.blank
         /\ \A w \in 1 .. Len(r.win) : s.win[w] = r.win[w]
         /\ s.win[s.cSw].text = <<>> /\ Items(s.win[s.cSw]) = <<>>
         /\ Len(s.win[s.cSw].cohorts) = 1
         /\ Anchored(s, -s.cSw)
<1> DEFINE n == Len(r.win)
           w == n + 1
           c == [NoCohort EXCEPT !.id = -w]
           cs == <<c>>
           x == [cohorts |-> cs, text |-> <<>>, flush |-> <<>>, set |-> NoVar,
                 rem |-> FALSE, runs |-> 0, ranWith |-> 0, saw |-> NoVar]
<1>1. /\ r \in DocumentType /\ InTurn(r) /\ n \in Nat /\ r.win \in Seq(WindowType)
      /\ r.next \in Seq(Nat) /\ Printed(r) \in Nat /\ Printed(r) <= n
      /\ \A v \in 1 .. n : r.win[v] \in WindowType /\ Headed(r.win[v], v, b)
      /\ r.lSw \in 0 .. n
  BY SoundFacts, DocumentFields
<1>2. w \in Nat /\ w # 0 /\ -w \in Int /\ w - 1 = n
  BY <1>1
<1>3. s = [r EXCEPT !.win = Append(@, x), !.next = Append(@, w), !.cSw = w, !.lSw = w]
  BY DEF Opened
<1>4. c \in CohortType /\ c.id = -w /\ Says(c) = <<>> /\ c.kinds = {}
  <2>1. /\ c \in CohortType /\ c.id = -w /\ c.ids = NoCohort.ids /\ c.text = NoCohort.text
        /\ c.kinds = NoCohort.kinds
    BY <1>2, NoCohortIs DEF CohortType
  <2> QED
    BY <2>1, NoCohortIs DEF Says
<1> HIDE DEF c
<1>5. cs \in Seq(CohortType) /\ Len(cs) = 1 /\ cs[1] = c /\ cs = Append(<<>>, c)
  BY <1>4
<1>6. Said(cs) = <<>>
  <2>1. <<>> \in Seq(CohortType)
    BY EmptySeq
  <2>2. Said(Append(<<>>, c)) = Said(<<>>) \o Says(c)
    BY <1>4, <2>1, SaidAppend
  <2>3. Said(<<>>) = <<>>
    <3>1. Len(<<>>) = 0
      BY EmptySeq
    <3> QED
      BY <2>1, <3>1, SaidFlat, FlatEmpty
  <2> QED
    BY <1>4, <1>5, <2>2, <2>3, EmptyText, TextConcat
<1> HIDE DEF cs
<1>7. /\ x \in WindowType /\ x.cohorts = cs /\ x.text = <<>> /\ x.flush = <<>>
  BY <1>5, EmptyText DEF WindowType, NoVar
<1>8. Items(x) = <<>>
  BY <1>6, <1>7, EmptyText, TextConcat DEF Items
<1>9. Headed(x, w, b)
  <2>1. cs # <<>>
    BY <1>5, EmptySeq
  <2>2. \A k \in 2 .. Len(cs) : FALSE
    BY <1>5
  <2> QED
    BY <1>4, <1>5, <1>7, <2>1, <2>2 DEF Headed
<1> HIDE DEF x
<1>10. /\ Append(r.win, x) \in Seq(WindowType) /\ Len(Append(r.win, x)) = w
       /\ Append(r.win, x)[w] = x /\ \A v \in 1 .. n : Append(r.win, x)[v] = r.win[v]
       /\ Append(r.next, w) \in Seq(Nat)
  BY <1>1, <1>2, <1>7, AppendProperties
<1> HIDE DEF w
<1>11. /\ s \in DocumentType /\ s.win = Append(r.win, x) /\ s.next = Append(r.next, w)
       /\ s.cSw = w /\ s.lSw = w /\ s.out = r.out /\ s.prev = r.prev /\ s.cur = r.cur
       /\ s.cCoh = r.cCoh /\ s.lCoh = r.lCoh /\ s.blank = r.blank
  BY <1>1, <1>2, <1>3, <1>10 DEF DocumentType
<1>12. Len(s.win) = n + 1 /\ w = n + 1 /\ s.win[w] = x /\ \A v \in 1 .. n : s.win[v] = r.win[v]
  BY <1>10, <1>11 DEF w
<1>13. OneMore(r, s)
  BY <1>11, <1>12 DEF OneMore
<1>14. InTurn(s) /\ Printed(s) = Printed(r) /\ s.next # <<>>
  BY <1>1, <1>13, ListsMore
<1>15. Documents(r, s)
  BY <1>1, <1>11, <1>14 DEF Documents
<1>16. \A v \in Printed(r) + 1 .. n : v \in 1 .. n
  BY <1>1
<1>17. Written(s) = Written(r)
  <2>1. \A v \in Printed(r) + 1 .. n : Items(s.win[v]) = Items(r.win[v])
    BY <1>12, <1>16
  <2>2. Written(s) = Written(r) \o Items(s.win[n + 1])
    BY <1>11, <1>13, <1>15, <2>1, WrittenNext
  <2>3. Written(r) \in Text
    BY SoundFacts
  <2> QED
    BY <1>8, <1>12, <2>2, <2>3, TextConcat
<1>18. \A v \in 1 .. n + 1 : v = n + 1 \/ v \in 1 .. n
  BY <1>1
<1>19. Sound(s, b)
  <2>1. Windows(s, b)
    BY <1>1, <1>9, <1>12, <1>18 DEF Windows
  <2>2. Unflushed(s)
    <3> DEFINE z == Printed(r)
    <3>0. z \in Nat /\ n \in Nat
      BY <1>1
    <3>1. \A v \in z + 1 .. n + 1 : v = n + 1 \/ v \in z + 1 .. n
      <4> HIDE DEF z, n
      <4> QED
        BY <3>0
    <3> QED
      BY <1>7, <1>12, <1>14, <1>16, <3>1 DEF Unflushed, Sound
  <2>3. Filling(s)
    BY <1>1, <1>2, <1>11, <1>12, <1>14 DEF Filling
  <2> QED
    BY <1>11, <1>14, <2>1, <2>2, <2>3 DEF Sound
<1>20. Anchor(s, w, -w)
  <2>1. w \in Printed(s) + 1 .. Len(s.win) /\ Len(s.win) <= w + 1
        /\ \A v \in w + 1 .. Len(s.win) : FALSE
    BY <1>1, <1>2, <1>12, <1>14
  <2>2. Len(s.win[w].cohorts) = 1 /\ s.win[w].cohorts[1].id = -w
    BY <1>4, <1>5, <1>7, <1>12
  <2>3. ASSUME NEW v \in Printed(s) + 1 .. Len(s.win), NEW k \in 1 .. Len(s.win[v].cohorts),
               s.win[v].cohorts[k].id = -w
        PROVE  v = w /\ k = 1
    <3>1. v \in 1 .. n + 1 /\ v \in Nat
      BY <1>1, <1>12, <1>14
    <3>2. Headed(s.win[v], v, b)
      BY <1>12, <1>19, <3>1 DEF Sound, Windows
    <3>3. s.win[v].cohorts \in Seq(CohortType) /\ Len(s.win[v].cohorts) \in Nat
      BY <1>12, <1>19, <3>1, SoundFacts
    <3>4. k = 1
      <4>1. SUFFICES ASSUME k # 1
                     PROVE  FALSE
        OBVIOUS
      <4>2. k \in 2 .. Len(s.win[v].cohorts)
        BY <3>3, <4>1
      <4>3. s.win[v].cohorts[k].id \in 1 .. b
        BY <3>2, <4>2 DEF Headed
      <4> QED
        BY <1>2, <2>3, <4>3
    <3>5. -v = -w
      BY <2>3, <3>2, <3>4 DEF Headed
    <3> QED
      BY <1>2, <3>1, <3>4, <3>5
  <2>4. Unique(s, w, -w)
    BY <2>2, <2>3 DEF Unique
  <2>5. Silent(s, w)
    BY <2>1 DEF Silent
  <2> QED
    BY <2>1, <2>4, <2>5 DEF Anchor
<1>21. Len(s.win[w].cohorts) = 1 /\ s.win[w].text = <<>>
  BY <1>5, <1>7, <1>12
<1> QED
  BY <1>2, <1>8, <1>11, <1>12, <1>14, <1>17, <1>19, <1>20, <1>21 DEF Anchored, NoWin

LEMMA ItemsMore ==
  ASSUME NEW x \in WindowType, NEW y \in WindowType, NEW t \in Text,
         y.text = x.text, x.flush = <<>>, y.flush = <<>>,
         Said(y.cohorts) = Said(x.cohorts) \o t
  PROVE  Items(y) = Items(x) \o t
<1> DEFINE a == x.text
           b == Said(x.cohorts)
<1>1. a \in Text /\ b \in Text
  BY ItemsText
<1>2. Items(x) = (a \o b) \o <<>> /\ Items(y) = (a \o (b \o t)) \o <<>>
  BY DEF Items
<1> HIDE DEF a, b
<1>3. a \o (b \o t) = (a \o b) \o t /\ a \o b \in Text /\ (a \o b) \o t \in Text
  BY <1>1, TextThree
<1>4. Items(x) = a \o b /\ Items(y) = (a \o b) \o t
  BY <1>2, <1>3, TextConcat
<1> QED
  BY <1>4

\* The window being filled is the last one, and live.
LEMMA FillingLast ==
  ASSUME NEW r, NEW b, Sound(r, b), r.cSw # NoWin
  PROVE  /\ r.cSw = Len(r.win) /\ r.cSw \in 1 .. Len(r.win)
         /\ r.cSw \in Printed(r) + 1 .. Len(r.win) /\ r.next # <<>>
         /\ r.win[r.cSw].flush = <<>>
<1>1. r \in DocumentType /\ InTurn(r) /\ r.next # <<>> /\ r.cSw = Len(r.win)
      /\ Printed(r) \in Nat /\ Len(r.win) \in Nat
  BY SoundFacts
<1>2. Len(r.win) \in Printed(r) + 1 .. Len(r.win) /\ Printed(r) + 1 <= Len(r.win)
  BY <1>1, LastWaits
<1>3. Len(r.win) \in 1 .. Len(r.win)
  <2> DEFINE z == Printed(r)
             n == Len(r.win)
  <2>1. z \in Nat /\ n \in Nat /\ z + 1 <= n
    BY <1>1, <1>2
  <2> HIDE DEF z, n
  <2>2. n \in 1 .. n
    BY <2>1
  <2> QED
    BY <2>2 DEF n
<1> QED
  BY <1>1, <1>2, <1>3 DEF Sound, Unflushed

Appends(r, s, c, b, e) ==
  /\ Sound(s, e) /\ Written(s) = Written(r) \o Says(c) /\ s.out = r.out
  /\ SameLists(r, s) /\ SameLocals(r, s) /\ Printed(s) = Printed(r)
  /\ (\A i \in 1 .. b : i # c.id) => Anchored(s, c.id)

LEMMA AppendedHolds ==
  ASSUME NEW r, NEW b \in Nat, Sound(r, b), r.cSw # NoWin, NEW e \in Nat, b <= e,
         NEW c \in CohortType, c.id \in 1 .. e, NEW s, s = Appended(r, r.cSw, c)
  PROVE  Appends(r, s, c, b, e)
<1> DEFINE w == r.cSw
           y == r.win[w]
           cs == y.cohorts
           ds == Append(cs, c)
           x == [y EXCEPT !.cohorts = ds]
           m == Len(cs)
<1>1. /\ w = Len(r.win) /\ w \in 1 .. Len(r.win)
      /\ w \in Printed(r) + 1 .. Len(r.win) /\ y.flush = <<>> /\ r.next # <<>>
  BY FillingLast
<1>2. /\ r \in DocumentType /\ InTurn(r) /\ y \in WindowType /\ cs \in Seq(CohortType)
      /\ m \in Nat /\ m >= 1 /\ Headed(y, w, b) /\ Written(r) \in Text
      /\ Printed(r) \in Nat /\ Len(r.win) \in Nat
  BY <1>1, SoundFacts
<1>3. s = WithWindow(r, w, x)
  BY DEF Appended, WithWindow
<1>4. /\ ds \in Seq(CohortType) /\ Said(ds) = Said(cs) \o Says(c)
      /\ Len(ds) = m + 1 /\ ds[m + 1] = c /\ \A i \in 1 .. m : ds[i] = cs[i]
  <2> HIDE DEF cs
  <2>1. Append(cs, c) \in Seq(CohortType) /\ Said(Append(cs, c)) = Said(cs) \o Says(c)
    BY <1>2, SaidAppend
  <2>2. /\ Len(Append(cs, c)) = Len(cs) + 1 /\ Append(cs, c)[Len(cs) + 1] = c
        /\ \A i \in 1 .. Len(cs) : Append(cs, c)[i] = cs[i]
    BY <1>2, AppendProperties
  <2> QED
    BY <2>1, <2>2
<1> HIDE DEF y, ds
<1>5. x \in WindowType /\ x.cohorts = ds /\ x.text = y.text /\ x.flush = y.flush
  BY <1>2, <1>4 DEF WindowType
<1> HIDE DEF x
<1>6. Says(c) \in Text
  BY SaysText
<1>7. Items(x) = Items(y) \o Says(c)
  BY <1>1, <1>2, <1>4, <1>5, <1>6, ItemsMore
<1>8. /\ s \in DocumentType /\ SameLists(r, s) /\ s.out = r.out /\ SameLocals(r, s)
      /\ s.win[w] = x /\ \A v \in 1 .. Len(r.win) : v # w => s.win[v] = r.win[v]
  <2>1. /\ s \in DocumentType /\ SameLists(r, s) /\ s.out = r.out
        /\ s.win[w] = x /\ \A v \in 1 .. Len(r.win) : v # w => s.win[v] = r.win[v]
        /\ s.cSw = r.cSw /\ s.lSw = r.lSw /\ s.cCoh = r.cCoh /\ s.lCoh = r.lCoh
        /\ s.blank = r.blank
    <3>1. /\ r \in DocumentType /\ w \in 1 .. Len(r.win) /\ x \in WindowType
          /\ s = WithWindow(r, w, x)
      BY <1>1, <1>2, <1>3, <1>5
    <3> HIDE DEF w
    <3> QED
      BY ONLY <3>1, WindowReplaced
  <2> QED
    BY <2>1 DEF SameLocals
<1>9. InTurn(s) /\ Printed(s) = Printed(r) /\ Documents(r, s)
  BY <1>2, <1>8, ListsSame DEF Documents
<1>10. Written(s) = Written(r) \o Says(c)
  <2>1. \A v \in Printed(r) + 1 .. w - 1 : v \in 1 .. Len(r.win) /\ v # w
    BY <1>1, <1>2
  <2>2. \A v \in Printed(r) + 1 .. w - 1 : Items(s.win[v]) = Items(r.win[v])
    BY <1>8, <2>1
  <2>3. \A v \in w + 1 .. Len(r.win) : Items(r.win[v]) = <<>> /\ Items(s.win[v]) = <<>>
    BY <1>1, <1>2
  <2>4. Items(s.win[w]) = Items(r.win[w]) \o Says(c)
    BY <1>7, <1>8 DEF y
  <2> HIDE DEF w
  <2> QED
    BY ONLY <1>1, <1>6, <1>8, <1>9, <2>2, <2>3, <2>4, WrittenMore
<1>11. Headed(x, w, e)
  <2>1. x.cohorts # <<>> /\ 1 \in 1 .. m
    BY <1>2, <1>4, <1>5, EmptySeq
  <2>2. x.cohorts[1].id = -w /\ x.cohorts[1].kinds = {}
    BY <1>2, <1>4, <1>5, <2>1 DEF Headed
  <2>3. ASSUME NEW k \in 2 .. Len(x.cohorts)
        PROVE  x.cohorts[k].id \in 1 .. e
    <3>1. CASE k = m + 1
      BY <1>4, <1>5, <3>1
    <3>2. CASE k # m + 1
      <4> HIDE DEF m, cs
      <4>1. k \in 2 .. m /\ k \in 1 .. m
        BY <1>2, <1>4, <1>5, <3>2
      <4>2. ds[k].id \in 1 .. b
        BY <1>2, <1>4, <4>1 DEF Headed, cs, m
      <4>3. x.cohorts[k].id \in 1 .. b
        BY <1>5, <4>2
      <4> QED
        BY <4>3
    <3> QED
      BY <3>1, <3>2
  <2> QED
    BY <2>1, <2>2, <2>3 DEF Headed
<1>12. Sound(s, e)
  <2>1. ASSUME NEW v \in 1 .. Len(r.win)
        PROVE  Headed(s.win[v], v, e)
    <3>1. CASE v = w
      BY <1>8, <1>11, <3>1
    <3>2. CASE v # w
      <4>1. Headed(r.win[v], v, b)
        BY SoundFacts
      <4> QED
        BY <1>8, <3>2, <4>1, HeadedMore
    <3> QED
      BY <3>1, <3>2
  <2>2. Windows(s, e)
    BY <1>8, <2>1 DEF Windows, SameLists
  <2>3. Unflushed(s)
    <3>1. \A v \in Printed(r) + 1 .. Len(r.win) : v \in 1 .. Len(r.win)
      BY <1>2
    <3>2. ASSUME NEW v \in Printed(r) + 1 .. Len(r.win)
          PROVE  s.win[v].flush = <<>>
      <4>1. r.win[v].flush = <<>>
        BY DEF Sound, Unflushed
      <4> QED
        BY <1>1, <1>5, <1>8, <3>1, <4>1
    <3> QED
      BY <1>8, <1>9, <3>2 DEF Unflushed, SameLists
  <2>4. Filling(s)
    BY <1>8 DEF Filling, Sound, SameLocals, SameLists
  <2> QED
    BY <1>8, <1>9, <2>2, <2>3, <2>4 DEF Sound
<1>13. ASSUME \A i \in 1 .. b : i # c.id
       PROVE  Anchor(s, w, c.id)
  <2>1. w \in Printed(s) + 1 .. Len(s.win) /\ Len(s.win) <= w + 1 /\ Len(s.win) = Len(r.win)
        /\ \A v \in w + 1 .. Len(s.win) : FALSE
    BY <1>1, <1>2, <1>8, <1>9 DEF SameLists
  <2>2. Len(s.win[w].cohorts) = m + 1 /\ s.win[w].cohorts[m + 1].id = c.id
    BY <1>4, <1>5, <1>8
  <2>3. ASSUME NEW v \in Printed(s) + 1 .. Len(s.win), NEW k \in 1 .. Len(s.win[v].cohorts),
               s.win[v].cohorts[k].id = c.id
        PROVE  v = w /\ k = m + 1
    <3>1. v \in 1 .. Len(r.win) /\ v \in Nat
      BY <1>2, <1>9, <2>1
    <3>2. c.id \in Nat /\ c.id >= 1
      OBVIOUS
    <3>3. Headed(r.win[v], v, b) /\ Len(r.win[v].cohorts) \in Nat
      BY <3>1, SoundFacts
    <3>4. ASSUME NEW j \in 1 .. Len(r.win[v].cohorts)
          PROVE  r.win[v].cohorts[j].id # c.id
      <4>1. CASE j = 1
        <5>1. r.win[v].cohorts[j].id = -v
          BY <3>3, <4>1 DEF Headed
        <5> QED
          BY <3>1, <3>2, <5>1
      <4>2. CASE j # 1
        <5>1. j \in 2 .. Len(r.win[v].cohorts)
          BY <3>3, <4>2
        <5>2. r.win[v].cohorts[j].id \in 1 .. b
          BY <3>3, <5>1 DEF Headed
        <5> QED
          BY <1>13, <5>2
      <4> QED
        BY <4>1, <4>2
    <3>5. v = w
      <4>1. SUFFICES ASSUME v # w
                     PROVE  FALSE
        OBVIOUS
      <4>2. s.win[v] = r.win[v]
        BY <1>8, <3>1, <4>1
      <4> QED
        BY <2>3, <3>4, <4>2
    <3>6. k = m + 1
      <4>1. SUFFICES ASSUME k # m + 1
                     PROVE  FALSE
        OBVIOUS
      <4>2. k \in 1 .. m
        <5> HIDE DEF m
        <5> QED
          BY <1>2, <2>2, <3>5, <4>1
      <4>3. s.win[v].cohorts[k] = r.win[v].cohorts[k]
        BY <1>4, <1>5, <1>8, <3>5, <4>2 DEF y
      <4>4. k \in 1 .. Len(r.win[v].cohorts)
        BY <3>5, <4>2 DEF y
      <4> QED
        BY <2>3, <3>4, <4>3, <4>4
    <3> QED
      BY <3>5, <3>6
  <2>4. Unique(s, w, c.id)
    BY <2>2, <2>3 DEF Unique
  <2>5. Silent(s, w)
    BY <2>1 DEF Silent
  <2> QED
    BY <2>1, <2>4, <2>5 DEF Anchor
<1> QED
  BY <1>8, <1>9, <1>10, <1>12, <1>13 DEF Appends, Anchored

LEMMA Largest ==
  ASSUME NEW m \in Nat, NEW T, T \subseteq 1 .. m, T # {}
  PROVE  \E x \in T : \A y \in T : y <= x
<1> DEFINE U == {m - x : x \in T}
<1>1. PICK e : e \in T
  OBVIOUS
<1>2. U \subseteq Nat
  OBVIOUS
<1>3. m - e \in U
  BY <1>1
<1>4. \A y \in T : m - y \in U
  OBVIOUS
<1>5. \A u \in U : \E x \in T : u = m - x
  OBVIOUS
<1> HIDE DEF U
<1>6. PICK u \in U : \A y \in U : u <= y
  BY <1>2, <1>3, LeastNatural
<1>7. PICK x \in T : u = m - x
  BY <1>5
<1>8. ASSUME NEW y \in T
      PROVE  y <= x
  <2>1. m - x <= m - y
    BY <1>4, <1>6, <1>7
  <2> QED
    BY <2>1
<1> QED
  BY <1>8

\* The last window is cut in two.
LEMMA WrittenCut ==
  ASSUME NEW r, NEW s, Documents(r, s), OneMore(r, s), s.out = r.out,
         r.next # <<>>,
         \A w \in Printed(r) + 1 .. Len(r.win) - 1 : Items(s.win[w]) = Items(r.win[w]),
         Items(r.win[Len(r.win)]) =
           Items(s.win[Len(r.win)]) \o Items(s.win[Len(r.win) + 1])
  PROVE  Written(s) = Written(r)
<1> DEFINE p == Printed(r)
           n == Len(r.win)
           m == n - 1
           e == n + 1
           g == ItemsAll(r)
           h == ItemsAll(s)
<1>1. /\ p \in Nat /\ n \in Nat /\ p <= n
      /\ \A v \in 1 .. n : g[v] = Items(r.win[v]) /\ g[v] \in Text
  BY HeldText DEF Documents
<1>2. Printed(s) = p /\ Len(s.win) = e
  BY ListsMore DEF Documents, OneMore
<1>3. \A v \in 1 .. e : h[v] = Items(s.win[v]) /\ h[v] \in Text
  BY <1>2, HeldText DEF Documents
<1>4. p + 1 <= n
  BY LastWaits DEF Documents
<1>5. /\ m \in Nat /\ e \in Nat /\ n = m + 1 /\ e = n + 1 /\ p <= m /\ p <= n
      /\ n \in 1 .. n /\ n \in 1 .. e /\ e \in 1 .. e
      /\ \A v \in p + 1 .. m : v \in 1 .. n /\ v \in 1 .. e
  BY <1>1, <1>4
<1>6. /\ \A v \in p + 1 .. m : g[v] = h[v] /\ g[v] \in Text
      /\ h[n] \in Text /\ h[e] \in Text /\ g[n] \in Text /\ g[n] = h[n] \o h[e]
  BY <1>1, <1>3, <1>5
<1>7. Held(r) = Flat(g, p, n) /\ Held(s) = Flat(h, p, e)
  BY <1>2 DEF Held
<1> HIDE DEF p, n, g, h, m, e
<1>8. Flat(g, p, m) = Flat(h, p, m) /\ Flat(g, p, m) \in Text
  BY <1>1, <1>5, <1>6, RangeAgree, RangeText
<1>9. Flat(g, p, n) = Flat(g, p, m) \o g[n] /\ Flat(h, p, n) = Flat(h, p, m) \o h[n]
  BY <1>1, <1>5, <1>6, RangeNext
<1>10. Flat(h, p, e) = Flat(h, p, n) \o h[e]
  BY <1>1, <1>5, <1>6, RangeNext
<1>11. (Flat(g, p, m) \o h[n]) \o h[e] = Flat(g, p, m) \o (h[n] \o h[e])
  BY <1>6, <1>8, TextGroups
<1> QED
  BY <1>6, <1>7, <1>8, <1>9, <1>10, <1>11 DEF Written

\* What the cohorts of the two parts are.
Parts(cs, ps, qs, k, c) ==
  /\ ps \in Seq(CohortType) /\ Len(ps) = k
  /\ \A i \in 1 .. k : /\ ps[i].id = cs[i].id /\ ps[i].kinds = cs[i].kinds
                       /\ Says(ps[i]) = Says(cs[i])
  /\ qs \in Seq(CohortType) /\ Len(qs) = 1 + (Len(cs) - k) /\ qs[1] = c
  /\ \A i \in 1 .. Len(cs) - k : qs[1 + i] = cs[k + i]

LEMMA PartsOf ==
  ASSUME NEW cs \in Seq(CohortType), NEW k \in 1 .. Len(cs), NEW c \in CohortType,
         NEW ps, ps = [SubSeq(cs, 1, k) EXCEPT ![k].ended = TRUE],
         NEW qs, qs = <<c>> \o SubSeq(cs, k + 1, Len(cs))
  PROVE  Parts(cs, ps, qs, k, c)
<1> DEFINE m == Len(cs)
           a == SubSeq(cs, 1, k)
           e == SubSeq(cs, k + 1, m)
           o == <<c>>
<1>1. m \in Nat /\ \A i \in 1 .. m : cs[i] \in CohortType
  BY LenProperties, ElementOfSeq
<1>2. a \in Seq(CohortType) /\ Len(a) = k /\ \A i \in 1 .. k : a[i] = cs[i]
  <2>1. 1 \in Int /\ k \in Int /\ \A i \in 1 .. k : cs[i] \in CohortType
    BY <1>1
  <2>2. /\ a \in Seq(CohortType) /\ Len(a) = IF 1 <= k THEN k - 1 + 1 ELSE 0
        /\ \A i \in 1 .. k - 1 + 1 : a[i] = cs[1 + i - 1]
    BY ONLY <2>1, SubSeqProperties
  <2>3. k - 1 + 1 = k /\ 1 <= k /\ \A i \in 1 .. k : 1 + i - 1 = i
    BY <1>1
  <2> HIDE DEF a
  <2> QED
    BY <2>2, <2>3
<1>3. e \in Seq(CohortType) /\ Len(e) = m - k /\ \A i \in 1 .. m - k : e[i] = cs[k + i]
  <2>1. k + 1 \in Int /\ m \in Int /\ \A i \in k + 1 .. m : cs[i] \in CohortType
    BY <1>1
  <2>2. /\ e \in Seq(CohortType) /\ Len(e) = IF k + 1 <= m THEN m - (k + 1) + 1 ELSE 0
        /\ \A i \in 1 .. m - (k + 1) + 1 : e[i] = cs[(k + 1) + i - 1]
    BY <2>1, SubSeqProperties
  <2> HIDE DEF e, m
  <2>3. m - (k + 1) + 1 = m - k /\ (~ (k + 1 <= m) => m - k = 0)
        /\ \A i \in 1 .. m - k : (k + 1) + i - 1 = k + i
    <3>1. k \in 1 .. m /\ m \in Nat /\ k \in Nat
      <4>1. m \in Nat /\ k \in 1 .. m
        BY <1>1 DEF m
      <4> QED
        BY <4>1
    <3>2. m - (k + 1) + 1 = m - k /\ (~ (k + 1 <= m) => m - k = 0)
      BY <3>1
    <3>3. \A i \in 1 .. m - k : (k + 1) + i - 1 = k + i
      BY <3>1
    <3> QED
      BY <3>2, <3>3
  <2> QED
    BY <2>2, <2>3
<1>4. o \in Seq(CohortType) /\ Len(o) = 1 /\ o[1] = c
  OBVIOUS
<1>5. qs = o \o e
  OBVIOUS
<1>6. ps = [a EXCEPT ![k].ended = TRUE]
  OBVIOUS
<1>7. k \in 1 .. k
  BY <1>1
<1> HIDE DEF a, e, o
<1>8. /\ qs \in Seq(CohortType) /\ Len(qs) = 1 + (m - k)
      /\ \A i \in 1 .. 1 + (m - k) : qs[i] = IF i <= 1 THEN o[i] ELSE e[i - 1]
  <2>1. /\ o \o e \in Seq(CohortType) /\ Len(o \o e) = Len(o) + Len(e)
        /\ \A i \in 1 .. Len(o) + Len(e) : (o \o e)[i] = IF i <= Len(o) THEN o[i] ELSE e[i - Len(o)]
    BY <1>3, <1>4, ConcatProperties
  <2> QED
    BY <1>3, <1>4, <1>5, <2>1
<1>9. qs[1] = c /\ \A i \in 1 .. m - k : qs[1 + i] = cs[k + i]
  <2>1. m - k \in Nat
    BY <1>1
  <2> DEFINE j == m - k
  <2>2. 1 \in 1 .. 1 + j /\ \A i \in 1 .. j : 1 + i \in 1 .. 1 + j /\ ~ (1 + i <= 1) /\ (1 + i) - 1 = i
    <3> HIDE DEF j
    <3>1. j \in Nat
      BY <2>1 DEF j
    <3> QED
      BY <3>1
  <2>3. qs[1] = c
    BY <1>4, <1>8, <2>2
  <2>4. ASSUME NEW i \in 1 .. j
        PROVE  qs[1 + i] = cs[k + i]
    <3>1. qs[1 + i] = e[(1 + i) - 1]
      BY <1>8, <2>2
    <3>2. (1 + i) - 1 = i
      BY <2>2
    <3> QED
      BY <1>3, <3>1, <3>2
  <2> QED
    BY <2>3, <2>4
<1> DEFINE f == [a[k] EXCEPT !.ended = TRUE]
<1>10. /\ f \in CohortType /\ f.id = a[k].id /\ f.kinds = a[k].kinds
       /\ Says(f) = Says(a[k])
  <2> DEFINE y == a[k]
  <2>1. y \in CohortType
    BY <1>1, <1>2, <1>7
  <2> HIDE DEF y
  <2>2. f = [y EXCEPT !.ended = TRUE]
    BY DEF y
  <2> HIDE DEF f
  <2>3. /\ f \in CohortType /\ f.id = y.id /\ f.ids = y.ids /\ f.text = y.text
        /\ f.kinds = y.kinds
    BY <2>1, <2>2 DEF CohortType
  <2> QED
    BY <2>3 DEF Says, y
<1>11. ps = [a EXCEPT ![k] = f]
  BY <1>6
<1> HIDE DEF f
<1>12. /\ ps \in Seq(CohortType) /\ Len(ps) = k /\ ps[k] = f
       /\ \A i \in 1 .. k : i # k => ps[i] = a[i]
  <2>1. ps \in Seq(CohortType) /\ Len(ps) = Len(a)
    <3>1. a \in Seq(CohortType) /\ k \in 1 .. Len(a) /\ f \in CohortType
      BY <1>2, <1>7, <1>10
    <3>2. [a EXCEPT ![k] = f] \in Seq(CohortType) /\ Len([a EXCEPT ![k] = f]) = Len(a)
      BY ONLY <3>1, ExceptSeq
    <3> QED
      BY <1>11, <3>2
  <2>2. DOMAIN a = 1 .. k
    BY <1>2, LenProperties
  <2> QED
    BY <1>2, <1>7, <1>11, <2>1, <2>2
<1>13. \A i \in 1 .. k : /\ ps[i].id = cs[i].id /\ ps[i].kinds = cs[i].kinds
                         /\ Says(ps[i]) = Says(cs[i])
  BY <1>2, <1>10, <1>12
<1> QED
  BY <1>8, <1>9, <1>12, <1>13 DEF Parts, m

LEMMA InsertedLast ==
  ASSUME NEW s \in Seq(Nat), NEW e \in Nat
  PROVE  InsertAt(s, Len(s) + 1, e) = Append(s, e)
<1> DEFINE n == Len(s)
<1>1. n \in Nat /\ (n + 1) - 1 = n
  BY LenProperties
<1>2. SubSeq(s, 1, n) = s
  BY SubSeqFull
<1>3. SubSeq(s, n + 1, n) = <<>>
  BY <1>1, SubSeqEmpty
<1>4. Append(s, e) = s \o <<e>> /\ Append(s, e) \in Seq(Nat)
  BY AppendIsConcat, AppendProperties
<1>5. Append(s, e) \o <<>> = Append(s, e)
  BY <1>4, ConcatEmptySeq
<1> QED
  BY <1>1, <1>2, <1>3, <1>4, <1>5 DEF InsertAt

LooksBack(r, s, b) ==
  /\ Sound(s, b) /\ Written(s) = Written(r) /\ s.out = r.out
  /\ s.cCoh = r.cCoh /\ s.lCoh = r.lCoh /\ s.blank = r.blank
  /\ s.cSw = NoWin <=> r.cSw = NoWin
  /\ s.lSw = r.lSw
  /\ \A id : Anchored(r, id) => Anchored(s, id)

LEMMA DelimitedAtHolds ==
  ASSUME NEW r, NEW b \in Nat, Sound(r, b), r.cSw # NoWin,
         NEW k \in 1 .. Len(r.win[r.cSw].cohorts), Len(r.win[r.cSw].cohorts) > 1,
         NEW s, s = DelimitedAt(r, r.cSw, k)
  PROVE  LooksBack(r, s, b)
<1> DEFINE w == r.cSw
           n == Len(r.win)
           t == n + 1
           y == r.win[w]
           cs == y.cohorts
           m == Len(cs)
           c == [NoCohort EXCEPT !.id = -t]
           ps == [SubSeq(cs, 1, k) EXCEPT ![k].ended = TRUE]
           qs == <<c>> \o SubSeq(cs, k + 1, Len(cs))
           x == [y EXCEPT !.cohorts = ps, !.flush = <<>>]
           z == [y EXCEPT !.cohorts = qs, !.text = <<>>, !.set = NoVar, !.rem = FALSE]
           at == CHOOSE i \in DOMAIN r.next : r.next[i] = w
           part == [r.win EXCEPT ![w] = x]
<1>1. /\ w = n /\ w \in 1 .. n /\ w \in Printed(r) + 1 .. n
      /\ r.next # <<>> /\ y.flush = <<>>
  BY FillingLast
<1>2. /\ r \in DocumentType /\ InTurn(r) /\ y \in WindowType /\ cs \in Seq(CohortType)
      /\ m \in Nat /\ Headed(y, w, b) /\ n \in Nat /\ Printed(r) \in Nat
      /\ r.next \in Seq(Nat) /\ r.win \in Seq(WindowType) /\ r.lSw \in 0 .. n
      /\ DOMAIN r.next = 1 .. Len(r.next) /\ DOMAIN r.win = 1 .. n
  BY <1>1, SoundFacts, DocumentFields
<1>3. k \in 1 .. m /\ m > 1
  OBVIOUS
<1>4. at = Len(r.next)
  <2>1. /\ Len(r.next) \in 1 .. Len(r.next) /\ r.next[Len(r.next)] = w
        /\ \A i \in 1 .. Len(r.next) : r.next[i] = w => i = Len(r.next)
    BY <1>1, <1>2, LastWaits
  <2> QED
    BY <1>2, <2>1
<1>5. t \in Nat /\ t # 0 /\ -t \in Int /\ t # w /\ Len(r.next) + 1 = at + 1
  <2>1. n \in Nat /\ t = n + 1 /\ w = n
    BY <1>1, <1>2
  <2> HIDE DEF n, t
  <2>2. t \in Nat /\ t # 0 /\ -t \in Int /\ t # n
    BY <2>1
  <2> QED
    BY <1>4, <2>1, <2>2
<1>6. s = [r EXCEPT !.win = Append(part, z), !.next = InsertAt(r.next, at + 1, t),
                    !.cSw = t, !.lookback = FALSE]
  BY DEF DelimitedAt
<1>7. InsertAt(r.next, at + 1, t) = Append(r.next, t)
  <2> HIDE DEF t, at
  <2> QED
    BY <1>2, <1>5, InsertedLast
<1>8. c \in CohortType /\ c.id = -t /\ Says(c) = <<>> /\ c.kinds = {}
  <2>1. /\ c \in CohortType /\ c.id = -t /\ c.ids = NoCohort.ids /\ c.text = NoCohort.text
        /\ c.kinds = NoCohort.kinds
    BY <1>5, NoCohortIs DEF CohortType
  <2> QED
    BY <2>1, NoCohortIs DEF Says
<1> HIDE DEF c, at
<1>9. Parts(cs, ps, qs, k, c)
  <2> HIDE DEF cs
  <2>1. /\ cs \in Seq(CohortType) /\ k \in 1 .. Len(cs) /\ c \in CohortType
        /\ ps = [SubSeq(cs, 1, k) EXCEPT ![k].ended = TRUE]
        /\ qs = <<c>> \o SubSeq(cs, k + 1, Len(cs))
    BY <1>2, <1>3, <1>8
  <2> HIDE DEF ps, qs
  <2> QED
    BY ONLY <2>1, PartsOf
<1> HIDE DEF ps, qs, y
<1>10. /\ x \in WindowType /\ x.cohorts = ps /\ x.text = y.text /\ x.flush = <<>>
  BY <1>2, <1>9, EmptyText DEF WindowType, Parts
<1>11. /\ z \in WindowType /\ z.cohorts = qs /\ z.text = <<>> /\ z.flush = <<>>
  BY <1>1, <1>2, <1>9, EmptyText DEF WindowType, Parts, NoVar
<1> HIDE DEF x, z
<1>12. Said(cs) = Said(ps) \o Said(qs) /\ Said(ps) \in Text /\ Said(qs) \in Text
  <2> DEFINE e == m - k
  <2>1. k \in Nat /\ e \in Nat /\ Len(cs) = k + e /\ Len(ps) = k /\ Len(qs) = 1 + e
    BY <1>2, <1>3, <1>9 DEF Parts
  <2>2. /\ ps \in Seq(CohortType) /\ qs \in Seq(CohortType) /\ Says(qs[1]) = <<>>
        /\ \A i \in 1 .. k : Says(ps[i]) = Says(cs[i])
        /\ \A i \in 1 .. e : qs[1 + i] = cs[k + i]
    BY <1>8, <1>9 DEF Parts
  <2>3. cs \in Seq(CohortType)
    BY <1>2
  <2> HIDE DEF e, cs, m
  <2>4. CutInto(cs, ps, qs, k, e)
    BY <2>1, <2>2 DEF CutInto
  <2>5. Said(cs) = Said(ps) \o Said(qs)
    BY <2>1, <2>2, <2>3, <2>4, SaidCut
  <2> QED
    BY <2>2, <2>5, SaidFlat
<1>13. Items(y) = Items(x) \o Items(z)
  <2> DEFINE f == y.text
             g == Said(ps)
             h == Said(qs)
  <2>1. f \in Text /\ g \in Text /\ h \in Text
    BY <1>2, <1>12, ItemsText
  <2>2. Items(y) = (f \o (g \o h)) \o <<>> /\ Items(x) = (f \o g) \o <<>>
        /\ Items(z) = (<<>> \o h) \o <<>>
    BY <1>1, <1>10, <1>11, <1>12 DEF Items, y
  <2> HIDE DEF f, g, h
  <2>3. f \o (g \o h) = (f \o g) \o h /\ f \o g \in Text /\ (f \o g) \o h \in Text
    BY <2>1, TextThree
  <2>4. Items(x) = f \o g /\ Items(z) = h /\ Items(y) = (f \o g) \o h
    BY <2>1, <2>2, <2>3, TextConcat
  <2> QED
    BY <2>4
<1>14. /\ part \in Seq(WindowType) /\ Len(part) = n /\ part[w] = x
       /\ \A v \in 1 .. n : v # w => part[v] = r.win[v]
  <2>1. [r.win EXCEPT ![w] = x] \in Seq(WindowType) /\ Len([r.win EXCEPT ![w] = x]) = Len(r.win)
    BY <1>1, <1>2, <1>10, ExceptSeq
  <2> QED
    BY <1>1, <1>2, <2>1
<1> HIDE DEF part
<1>15. /\ Append(part, z) \in Seq(WindowType) /\ Len(Append(part, z)) = n + 1
       /\ Append(part, z)[n + 1] = z /\ \A v \in 1 .. n : Append(part, z)[v] = part[v]
       /\ Append(r.next, t) \in Seq(Nat)
  <2>1. /\ Append(part, z) \in Seq(WindowType) /\ Len(Append(part, z)) = Len(part) + 1
        /\ Append(part, z)[Len(part) + 1] = z
        /\ \A v \in 1 .. Len(part) : Append(part, z)[v] = part[v]
    BY <1>11, <1>14, AppendProperties
  <2>2. Append(r.next, t) \in Seq(Nat)
    BY <1>2, <1>5, AppendProperties
  <2> QED
    BY <1>14, <2>1, <2>2
<1> HIDE DEF t
<1>16. /\ s \in DocumentType /\ s.win = Append(part, z) /\ s.next = Append(r.next, t)
       /\ s.cSw = t /\ s.lSw = r.lSw /\ s.out = r.out /\ s.prev = r.prev /\ s.cur = r.cur
       /\ s.cCoh = r.cCoh /\ s.lCoh = r.lCoh /\ s.blank = r.blank
  <2> DEFINE new == Append(part, z)
             line == Append(r.next, t)
  <2>1. s = [r EXCEPT !.win = new, !.next = line, !.cSw = t, !.lookback = FALSE]
    BY <1>6, <1>7
  <2>2. new \in Seq(WindowType) /\ line \in Seq(Nat) /\ t \in Nat
    BY <1>5, <1>15
  <2> HIDE DEF new, line
  <2>3. /\ s \in DocumentType /\ s.win = new /\ s.next = line
        /\ s.cSw = t /\ s.lSw = r.lSw /\ s.out = r.out /\ s.prev = r.prev /\ s.cur = r.cur
        /\ s.cCoh = r.cCoh /\ s.lCoh = r.lCoh /\ s.blank = r.blank
    BY <1>2, <2>1, <2>2 DEF DocumentType
  <2> QED
    BY <2>3 DEF new, line
<1>17. /\ Len(s.win) = n + 1 /\ t = n + 1 /\ s.win[t] = z /\ s.win[w] = x
       /\ \A v \in 1 .. n : v # w => s.win[v] = r.win[v]
  BY <1>1, <1>14, <1>15, <1>16 DEF t
<1>18. OneMore(r, s)
  BY <1>16, <1>17 DEF OneMore
<1>19. InTurn(s) /\ Printed(s) = Printed(r) /\ s.next # <<>>
  BY <1>2, <1>18, ListsMore
<1>20. Documents(r, s)
  BY <1>2, <1>16, <1>19 DEF Documents
<1>21. Written(s) = Written(r)
  <2>1. \A v \in Printed(r) + 1 .. n - 1 : v \in 1 .. n /\ v # w
    BY <1>1, <1>2
  <2>2. \A v \in Printed(r) + 1 .. n - 1 : Items(s.win[v]) = Items(r.win[v])
    BY <1>17, <2>1
  <2>3. Items(r.win[n]) = Items(s.win[n]) \o Items(s.win[n + 1])
    BY <1>1, <1>13, <1>17 DEF y
  <2> QED
    BY <1>1, <1>16, <1>18, <1>20, <2>2, <2>3, WrittenCut
<1>22. Headed(x, w, b)
  <2>1. /\ Len(ps) = k /\ ps \in Seq(CohortType)
        /\ \A i \in 1 .. k : ps[i].id = cs[i].id /\ ps[i].kinds = cs[i].kinds
    BY <1>9 DEF Parts
  <2>2. cs[1].id = -w /\ cs[1].kinds = {} /\ \A i \in 2 .. m : cs[i].id \in 1 .. b
    BY <1>2 DEF Headed
  <2>3. k # 0 /\ 1 \in 1 .. k /\ \A i \in 2 .. k : i \in 2 .. m /\ i \in 1 .. k
    <3> HIDE DEF m
    <3> QED
      BY <1>2, <1>3
  <2>4. ps # <<>>
    BY <2>1, <2>3, EmptySeq
  <2> QED
    BY <1>10, <2>1, <2>2, <2>3, <2>4 DEF Headed
<1>23. Headed(z, t, b)
  <2>1. /\ Len(qs) = 1 + (m - k) /\ qs \in Seq(CohortType) /\ qs[1] = c
        /\ \A i \in 1 .. m - k : qs[1 + i] = cs[k + i]
    BY <1>9 DEF Parts
  <2>2. \A i \in 2 .. m : cs[i].id \in 1 .. b
    BY <1>2 DEF Headed
  <2>3. qs # <<>>
    <3>1. Len(qs) # 0
      <4> HIDE DEF m
      <4> QED
        BY <1>2, <1>3, <2>1
    <3> QED
      BY <2>1, <3>1, EmptySeq
  <2>4. ASSUME NEW i \in 2 .. Len(qs)
        PROVE  qs[i].id \in 1 .. b
    <3> DEFINE j == i - 1
    <3>1. j \in 1 .. m - k /\ 1 + j = i /\ k + j \in 2 .. m
      <4> HIDE DEF m
      <4> QED
        BY <1>2, <1>3, <2>1
    <3> HIDE DEF j
    <3>2. qs[1 + j] = cs[k + j]
      BY <2>1, <3>1
    <3> QED
      BY <2>2, <3>1, <3>2
  <2> QED
    BY <1>8, <1>11, <2>1, <2>3, <2>4 DEF Headed
<1>24. \A v \in 1 .. n + 1 : v = t \/ v = w \/ (v \in 1 .. n /\ v # w)
  BY <1>2, <1>17
<1>25. Sound(s, b)
  <2>1. \A v \in 1 .. n : Headed(r.win[v], v, b)
    BY SoundFacts
  <2>2. Windows(s, b)
    BY <1>17, <1>22, <1>23, <1>24, <2>1 DEF Windows
  <2>3. Unflushed(s)
    <3>1. ASSUME NEW v \in Printed(s) + 1 .. Len(s.win)
          PROVE  s.win[v].flush = <<>>
      <4>1. v \in 1 .. n + 1 /\ (v # t => v \in Printed(r) + 1 .. n)
        <5> DEFINE p == Printed(r)
        <5>1. p \in Nat /\ n \in Nat /\ v \in p + 1 .. n + 1 /\ t = n + 1
          BY <1>2, <1>17, <1>19
        <5> HIDE DEF p, n
        <5>2. v \in 1 .. n + 1 /\ (v # t => v \in p + 1 .. n)
          BY <5>1
        <5> QED
          BY <5>2 DEF p
      <4>2. v # t => r.win[v].flush = <<>>
        BY <4>1 DEF Sound, Unflushed
      <4> QED
        BY <1>10, <1>11, <1>17, <1>24, <4>1, <4>2
    <3> QED
      BY <3>1 DEF Unflushed
  <2>4. Filling(s)
    <3>1. r.lSw \in 0 .. n + 1
      BY <1>2
    <3> QED
      BY <1>16, <1>17, <1>19, <3>1 DEF Filling
  <2> QED
    BY <1>16, <1>19, <2>2, <2>3, <2>4 DEF Sound
<1>26. ASSUME NEW id, NEW a, Anchor(r, a, id)
       PROVE  \E v : Anchor(s, v, id)
  <2>1. /\ a \in Printed(r) + 1 .. n /\ n <= a + 1 /\ Unique(r, a, id) /\ Silent(r, a)
    BY <1>26 DEF Anchor
  <2>2. a = w
    <3>1. SUFFICES ASSUME a # w
                   PROVE  FALSE
      OBVIOUS
    <3>2. w \in a + 1 .. n
      <4> HIDE DEF n
      <4> QED
        BY <1>1, <1>2, <2>1, <3>1
    <3>3. m = 1
      BY <2>1, <3>2 DEF Silent, y
    <3> QED
      BY <1>3, <3>3
  <2>3. /\ cs[m].id = id
        /\ \A v \in Printed(r) + 1 .. n : \A i \in 1 .. Len(r.win[v].cohorts) :
             r.win[v].cohorts[i].id = id => v = w /\ i = m
    BY <2>1, <2>2 DEF Unique, y
  <2>4. id \in 1 .. b
    <3>1. m \in 2 .. m
      <4> HIDE DEF m
      <4> QED
        BY <1>2, <1>3
    <3> QED
      BY <1>2, <2>3, <3>1 DEF Headed
  <2>5. ASSUME NEW i \in 1 .. k, ps[i].id = id
        PROVE  i = m
    <3>1. i \in 1 .. m
      <4> HIDE DEF m
      <4> QED
        BY <1>2, <1>3
    <3>2. cs[i].id = id
      BY <1>9, <2>5 DEF Parts
    <3> QED
      BY <1>1, <2>3, <3>1, <3>2 DEF y
  <2>6. ASSUME NEW i \in 1 .. Len(qs), qs[i].id = id
        PROVE  i = 1 + (m - k) /\ k # m
    <3>1. i # 1
      <4>1. SUFFICES ASSUME i = 1
                     PROVE  FALSE
        OBVIOUS
      <4>2. id = -t
        BY <1>8, <1>9, <2>6, <4>1 DEF Parts
      <4> QED
        BY <1>5, <2>4, <4>2
    <3>2. Len(qs) = 1 + (m - k)
      BY <1>9 DEF Parts
    <3> DEFINE j == i - 1
    <3>3. j \in 1 .. m - k /\ 1 + j = i /\ k + j \in 1 .. m
      <4>1. /\ m \in Nat /\ k \in 1 .. m /\ i \in 1 .. 1 + (m - k) /\ i # 1
            /\ j = i - 1
        BY <1>2, <1>3, <3>1, <3>2
      <4> HIDE DEF m, j
      <4>2. j \in 1 .. m - k /\ 1 + j = i
        BY ONLY <4>1
      <4>3. k + j \in 1 .. m
        BY ONLY <4>1, <4>2
      <4> QED
        BY <4>2, <4>3
    <3> HIDE DEF j
    <3>4. qs[1 + j] = cs[k + j]
      BY <1>9, <3>3 DEF Parts
    <3>5. k + j = m
      BY <1>1, <2>3, <2>6, <3>3, <3>4 DEF y
    <3> HIDE DEF m
    <3> QED
      BY <1>2, <1>3, <3>3, <3>5
  <2>7. /\ Len(s.win[w].cohorts) = k /\ Len(s.win[t].cohorts) = 1 + (m - k)
        /\ s.win[w].cohorts = ps /\ s.win[t].cohorts = qs
    BY <1>9, <1>10, <1>11, <1>17 DEF Parts
  <2>8. ASSUME NEW v \in Printed(s) + 1 .. Len(s.win), NEW i \in 1 .. Len(s.win[v].cohorts),
               s.win[v].cohorts[i].id = id
        PROVE  \/ v = w /\ i = k /\ k = m
               \/ v = t /\ i = 1 + (m - k) /\ k # m
    <3>1. v \in 1 .. n + 1
      BY <1>2, <1>17, <1>19
    <3>2. CASE v = t
      BY <2>6, <2>7, <2>8, <3>2
    <3>3. CASE v = w
      <4>1. i \in 1 .. k /\ i = m
        BY <2>5, <2>7, <2>8, <3>3
      <4> HIDE DEF m
      <4>2. i = k /\ k = m
        BY <1>2, <1>3, <4>1
      <4> QED
        BY <3>3, <4>2
    <3>4. CASE v \in 1 .. n /\ v # w
      <4>1. s.win[v] = r.win[v]
        BY <1>17, <3>4
      <4>2. v \in Printed(r) + 1 .. n
        BY <1>2, <1>17, <1>19, <3>4
      <4> QED
        BY <2>3, <2>8, <3>4, <4>1, <4>2
    <3> QED
      BY <1>24, <3>1, <3>2, <3>3, <3>4
  <2>9. CASE k = m
    <3>1. w \in Printed(s) + 1 .. Len(s.win) /\ Len(s.win) <= w + 1
      BY <1>1, <1>2, <1>17, <1>19
    <3>2. Unique(s, w, id)
      <4>1. s.win[w].cohorts[Len(s.win[w].cohorts)].id = id
        <5>1. k \in 1 .. k
          <6> HIDE DEF m
          <6> QED
            BY <1>2, <1>3
        <5>2. ps[k].id = cs[k].id
          BY <1>9, <5>1 DEF Parts
        <5> QED
          BY <2>3, <2>7, <2>9, <5>2
      <4> QED
        BY <2>7, <2>8, <2>9, <4>1 DEF Unique
    <3>3. Silent(s, w)
      <4>1. Len(qs) = 1 /\ Says(qs[1]) = <<>>
        <5>1. Len(qs) = 1 + (m - k) /\ qs[1] = c
          BY <1>9 DEF Parts
        <5> HIDE DEF m
        <5> QED
          BY <1>2, <1>8, <2>9, <5>1
      <4>2. Items(z) = <<>>
        <5>1. Said(qs) = <<>>
          <6> DEFINE h == SaysAll(qs)
                     o == 0
          <6>1. /\ Said(qs) = Flat(h, o, o + 1) /\ h[o + 1] = <<>> /\ o \in Nat
            <7>1. qs \in Seq(CohortType)
              BY <1>9 DEF Parts
            <7>2. /\ Said(qs) = Flat(SaysAll(qs), 0, Len(qs))
                  /\ \A i \in 1 .. Len(qs) : SaysAll(qs)[i] = Says(qs[i])
              BY ONLY <7>1, SaidFlat
            <7>3. 1 \in 1 .. 1 /\ o + 1 = 1 /\ o \in Nat
              OBVIOUS
            <7>4. h[1] = <<>>
              BY ONLY <4>1, <7>2, <7>3
            <7> QED
              BY ONLY <4>1, <7>2, <7>3, <7>4
          <6> HIDE DEF h
          <6>2. Flat(h, o, o + 1) = Flat(h, o, o) \o h[o + 1]
            BY <6>1, EmptyText, FirstNext
          <6>3. Flat(h, o, o) = <<>>
            BY FlatEmpty
          <6> QED
            BY <6>1, <6>2, <6>3, EmptyText, TextConcat
        <5> QED
          BY <1>11, <5>1, EmptyText, TextConcat DEF Items
      <4>3. \A v \in w + 1 .. Len(s.win) : v = t
        BY <1>1, <1>2, <1>17
      <4> QED
        BY <1>17, <2>7, <4>1, <4>2, <4>3 DEF Silent
    <3>4. Anchor(s, w, id)
      BY <3>1, <3>2, <3>3 DEF Anchor
    <3> QED
      BY <3>4
  <2>10. CASE k # m
    <3>1. t \in Printed(s) + 1 .. Len(s.win) /\ Len(s.win) <= t + 1
          /\ \A v \in t + 1 .. Len(s.win) : FALSE
      <4> DEFINE p == Printed(r)
      <4>1. p \in Nat /\ n \in Nat /\ t = n + 1 /\ Len(s.win) = n + 1 /\ Printed(s) = p
            /\ p + 1 <= n
        BY <1>1, <1>2, <1>17, <1>19
      <4> HIDE DEF p, n
      <4> QED
        BY <4>1
    <3>2. Unique(s, t, id)
      <4>1. s.win[t].cohorts[Len(s.win[t].cohorts)].id = id
        <5> DEFINE j == m - k
        <5>1. j \in 1 .. m - k /\ k + j = m
          <6> HIDE DEF m
          <6> QED
            BY <1>2, <1>3, <2>10
        <5> HIDE DEF j
        <5>2. qs[1 + j] = cs[k + j]
          BY <1>9, <5>1 DEF Parts
        <5>3. qs[1 + (m - k)].id = id
          BY <2>3, <5>1, <5>2 DEF j
        <5> QED
          BY <2>7, <5>3
      <4> QED
        BY <2>7, <2>8, <2>10, <4>1 DEF Unique
    <3>3. Silent(s, t)
      BY <3>1 DEF Silent
    <3>4. Anchor(s, t, id)
      BY <3>1, <3>2, <3>3 DEF Anchor
    <3> QED
      BY <3>4
  <2> QED
    BY <2>9, <2>10
<1> QED
  BY <1>5, <1>16, <1>21, <1>25, <1>26 DEF LooksBack, Anchored, NoWin

LEMMA LookedBackHolds ==
  ASSUME NEW r, NEW b \in Nat, Sound(r, b), NEW s, s = LookedBack(r)
  PROVE  LooksBack(r, s, b)
<1> DEFINE w == r.cSw
           cs == r.win[w].cohorts
           softs == {k \in DOMAIN cs : "soft" \in cs[k].kinds}
           last == CHOOSE k \in softs : \A j \in softs : j <= k
           few == r.lookback \/ Count(r, w) < SoftLimit
<1>1. LooksBack(r, r, b)
  BY DEF LooksBack
<1>2. CASE w = NoWin
  BY <1>1, <1>2 DEF LookedBack
<1>3. CASE w # NoWin /\ few
  BY <1>1, <1>3 DEF LookedBack
<1>4. CASE w # NoWin /\ ~ few
  <2>1. s = IF softs = {} THEN [r EXCEPT !.lookback = TRUE] ELSE DelimitedAt(r, w, last)
    BY <1>4 DEF LookedBack
  <2>2. CASE softs = {}
    <3>1. s = [r EXCEPT !.lookback = TRUE]
      BY <2>1, <2>2
    <3>2. r \in DocumentType /\ r.lSw \in 0 .. Len(r.win)
      BY SoundFacts
    <3> HIDE DEF few, softs, last, cs, w
    <3>3. /\ s \in DocumentType /\ SameBody(r, s) /\ s.cSw = r.cSw /\ s.lSw = r.lSw
          /\ s.cCoh = r.cCoh /\ s.lCoh = r.lCoh /\ s.blank = r.blank
      BY <3>1, <3>2 DEF DocumentType, SameBody
    <3>4. /\ Sound(s, b) /\ Written(s) = Written(r)
          /\ \A id : Anchored(r, id) => Anchored(s, id)
      BY <3>2, <3>3, SoundLocals
    <3> QED
      BY <3>3, <3>4 DEF LooksBack, SameBody
  <2>3. CASE softs # {}
    <3>1. s = DelimitedAt(r, w, last)
      BY <2>1, <2>3
    <3>2. /\ w \in 1 .. Len(r.win) /\ cs \in Seq(CohortType) /\ Len(cs) \in Nat
          /\ DOMAIN cs = 1 .. Len(cs)
      BY <1>4, FillingLast, SoundFacts, LenProperties
    <3>3. last \in softs
      <4>1. softs \subseteq 1 .. Len(cs)
        BY <3>2
      <4>2. \E x \in softs : \A y \in softs : y <= x
        <5> HIDE DEF softs
        <5> QED
          BY <2>3, <3>2, <4>1, Largest
      <4> HIDE DEF softs
      <4> QED
        BY <4>2
    <3>4. last \in 1 .. Len(cs)
      BY <3>2, <3>3
    <3>5. Len(cs) > 1
      <4>1. cs[1].kinds = {}
        BY <1>4, FillingLast, SoundFacts DEF Headed
      <4>2. last # 1
        BY <3>3, <4>1
      <4> HIDE DEF last
      <4> QED
        BY <3>2, <3>4, <4>2
    <3> HIDE DEF last
    <3> QED
      BY <1>4, <3>1, <3>4, <3>5, DelimitedAtHolds
  <2> QED
    BY <2>2, <2>3
<1> QED
  BY <1>2, <1>3, <1>4

LEMMA LiveAre ==
  ASSUME NEW r \in DocumentType, InTurn(r)
  PROVE  LiveWindows(r) = Printed(r) + 1 .. Len(r.win)
<1> DEFINE p == Printed(r)
           q == Queued(r)
           n == Len(r.win)
<1>1. /\ p \in Nat /\ q \in Nat /\ n = p + q /\ DOMAIN Buffered(r) = 1 .. q
      /\ \A i \in 1 .. q : Buffered(r)[i] = p + i
  BY BufferedHolds
<1>2. LiveWindows(r) = {p + i : i \in 1 .. q}
  BY <1>1 DEF LiveWindows
<1> HIDE DEF p, q, n
<1>3. {p + i : i \in 1 .. q} = p + 1 .. n
  <2>1. \A i \in 1 .. q : p + i \in p + 1 .. n
    BY <1>1
  <2>2. ASSUME NEW v \in p + 1 .. n
        PROVE  \E i \in 1 .. q : v = p + i
    <3>1. v - p \in 1 .. q /\ v = p + (v - p)
      BY <1>1
    <3> QED
      BY <3>1
  <2> QED
    BY <2>1, <2>2
<1> QED
  BY <1>2, <1>3 DEF p, n

\* The cohort with more text behind it.
Longer(c, t) == [c EXCEPT !.text = c.text \o t]

\* Where the text after cohort id goes when that cohort is in a window.
LEMMA TextAfterIs ==
  ASSUME NEW r \in DocumentType, InTurn(r), NEW id, NEW t, r.cCoh.id # id,
         NEW w \in Printed(r) + 1 .. Len(r.win), Unique(r, w, id),
         NEW k, k = Len(r.win[w].cohorts), k # 0
  PROVE  /\ TextAfter(r, id, t)
             = WithCohort(r, w, k, Longer(r.win[w].cohorts[k], t))
         /\ k \in 1 .. Len(r.win[w].cohorts) /\ w \in 1 .. Len(r.win)
<1> DEFINE Has(v) == \E j \in DOMAIN r.win[v].cohorts : r.win[v].cohorts[j].id = id
           holders == {v \in LiveWindows(r) : Has(v)}
           x == CHOOSE v \in holders : TRUE
           K(v) == CHOOSE j \in DOMAIN r.win[v].cohorts : r.win[v].cohorts[j].id = id
<1>1. /\ Printed(r) \in Nat /\ Len(r.win) \in Nat /\ LiveWindows(r) = Printed(r) + 1 .. Len(r.win)
  BY LiveAre, DocumentFields DEF InTurn
<1>2. \A v \in LiveWindows(r) : v \in 1 .. Len(r.win)
  BY <1>1
<1>3. ASSUME NEW v \in LiveWindows(r)
      PROVE  DOMAIN r.win[v].cohorts = 1 .. Len(r.win[v].cohorts)
             /\ Len(r.win[v].cohorts) \in Nat
  <2>1. r.win[v].cohorts \in Seq(CohortType)
    BY <1>2, DocumentFields DEF WindowType
  <2> QED
    BY <2>1, LenProperties
<1>4. w \in LiveWindows(r)
  BY <1>1
<1>5. k \in 1 .. Len(r.win[w].cohorts) /\ k \in DOMAIN r.win[w].cohorts
      /\ r.win[w].cohorts[k].id = id
  <2>1. k \in Nat /\ DOMAIN r.win[w].cohorts = 1 .. k
    BY <1>3, <1>4
  <2>2. k \in 1 .. k
    BY <2>1
  <2> QED
    BY <2>1, <2>2 DEF Unique
<1>6. Has(w)
  BY <1>5
<1>7. \A v \in LiveWindows(r) : Has(v) => v = w
  BY <1>1, <1>3 DEF Unique
<1>8. holders = {w}
  BY <1>4, <1>6, <1>7
<1>9. x = w
  BY <1>8
<1>10. K(w) = k
  <2>1. \A j \in DOMAIN r.win[w].cohorts : r.win[w].cohorts[j].id = id => j = k
    BY <1>1, <1>3, <1>4 DEF Unique
  <2> QED
    BY <1>5, <2>1
<1>11. TextAfter(r, id, t) = [r EXCEPT !.win[x].cohorts[K(x)].text = @ \o t]
  <2>1. holders # {}
    BY <1>8
  <2> QED
    BY <2>1 DEF TextAfter
<1> HIDE DEF x, K, holders, Has
<1>12. TextAfter(r, id, t) = [r EXCEPT !.win[w].cohorts[k].text = @ \o t]
  BY <1>9, <1>10, <1>11
<1> QED
  BY <1>2, <1>4, <1>5, <1>12 DEF WithCohort, WithWindow, Longer
=============================================================================
