------------------------------ MODULE EchoProofs ------------------------------
(* StreamDriver implements EchoStream, for every value of its constants under *)
(* which no text delimiters are read and text is written: what was read comes *)
(* out once, in input order, and all of it at a FLUSH and at the end.         *)
EXTENDS StreamDriverProofs, ListProofs

-----------------------------------------------------------------------------
(* Items in a run: the numbers after a up to b.                               *)

Run(a, b) == [k \in 1 .. b - a |-> a + k]

\* The items of a cohort: its own and those of the text that follows it.
CohortEnd(c) == c.id + Len(c.text)
CohortRuns(c, a) == c.id = a + 1 /\ c.text = Run(c.id, CohortEnd(c))

\* Where the i-th cohort of a list starts, when the first starts after a.
CohortAfter(cs, a, i) == IF i = 1 THEN a ELSE CohortEnd(cs[i - 1])
CohortsRun(cs, a) == \A i \in 1 .. Len(cs) : CohortRuns(cs[i], CohortAfter(cs, a, i))
CohortsEnd(cs, a) == CohortAfter(cs, a, Len(cs) + 1)

\* The items of a window: its cohorts and a FLUSH, and no text of its own.
WindowRuns(rec, a, b) ==
  /\ rec.text = <<>> /\ rec.text_post = <<>>
  /\ CohortsRun(rec.cohorts, a)
  /\ IF rec.flush_after = 0 THEN b = CohortsEnd(rec.cohorts, a)
     ELSE rec.flush_after = b /\ b = CohortsEnd(rec.cohorts, a) + 1

LEMMA RunSeq ==
  ASSUME NEW a \in Nat, NEW b \in Nat, a <= b
  PROVE  Run(a, b) \in Seq(Nat) /\ Len(Run(a, b)) = b - a
<1> DEFINE n == b - a
<1>1. n \in Nat /\ \A k \in 1 .. n : a + k \in Nat
  OBVIOUS
<1> HIDE DEF n
<1>2. [k \in 1 .. n |-> a + k] \in Seq(Nat) /\ Len([k \in 1 .. n |-> a + k]) = n
  BY <1>1
<1> QED
  BY <1>2 DEF Run, n

\* One run after another is a run.
LEMMA RunConcat ==
  ASSUME NEW a \in Nat, NEW b \in Nat, NEW c \in Nat, a <= b, b <= c
  PROVE  Run(a, b) \o Run(b, c) = Run(a, c)
<1> DEFINE p == Run(a, b)
           q == Run(b, c)
           r == Run(a, c)
           m == b - a
           n == c - b
<1>1. p \in Seq(Nat) /\ Len(p) = m
  BY RunSeq
<1>2. q \in Seq(Nat) /\ Len(q) = n
  BY RunSeq
<1>3. r \in Seq(Nat) /\ Len(r) = m + n
  <2>1. a <= c /\ c - a = m + n
    OBVIOUS
  <2> QED
    BY <2>1, RunSeq
<1>4. /\ m \in Nat /\ n \in Nat
      /\ \A i \in 1 .. m : p[i] = a + i
      /\ \A i \in 1 .. n : q[i] = b + i
      /\ \A i \in 1 .. m + n : r[i] = a + i
  BY DEF Run
<1>5. b = a + m
  OBVIOUS
<1> HIDE DEF p, q, r, m, n
<1>6. /\ p \o q \in Seq(Nat) /\ Len(p \o q) = m + n
      /\ \A i \in 1 .. m + n : (p \o q)[i] = IF i <= m THEN p[i] ELSE q[i - m]
  BY <1>1, <1>2, ConcatProperties
<1>7. ASSUME NEW i \in 1 .. m + n
      PROVE  (p \o q)[i] = r[i]
  <2>1. CASE i <= m
    BY <1>4, <1>6, <2>1
  <2>2. CASE ~(i <= m)
    <3>1. i - m \in 1 .. n /\ b + (i - m) = a + i
      BY <1>4, <1>5, <2>2
    <3> QED
      BY <1>4, <1>6, <2>2, <3>1
  <2> QED
    BY <2>1, <2>2
<1>8. p \o q = r
  BY <1>3, <1>6, <1>7, SeqEqual
<1> QED
  BY <1>8 DEF p, q, r

\* An item is a run of one.
LEMMA RunOne ==
  ASSUME NEW a \in Nat
  PROVE  Run(a, a + 1) = <<a + 1>> /\ Run(a, a) = <<>>
<1>1. (a + 1) - a = 1 /\ a - a = 0
  OBVIOUS
<1>2. Run(a, a + 1) = [k \in 1 .. 1 |-> a + k]
  BY <1>1 DEF Run
<1>3. [k \in 1 .. 1 |-> a + k] = <<a + 1>>
  OBVIOUS
<1>4. Run(a, a) = <<>>
  BY <1>1, RunSeq, EmptySeq
<1> QED
  BY <1>2, <1>3, <1>4

LEMMA CohortOutputRun ==
  ASSUME NEW c \in Cohort, received \in Nat, NEW a \in Nat, CohortRuns(c, a)
  PROVE  <<c.id>> \o c.text = Run(a, CohortEnd(c)) /\ CohortEnd(c) \in Nat /\ a < CohortEnd(c)
<1>1. c.id = a + 1 /\ Len(c.text) \in Nat /\ c.text = Run(c.id, CohortEnd(c))
  BY DEF CohortRuns, Cohort
<1>2. CohortEnd(c) \in Nat /\ a < CohortEnd(c) /\ a + 1 <= CohortEnd(c)
  <2>1. CohortEnd(c) = (a + 1) + Len(c.text)
    BY <1>1 DEF CohortEnd
  <2> QED
    BY <1>1, <2>1
<1> HIDE DEF CohortEnd
<1>3. <<c.id>> = Run(a, a + 1)
  BY <1>1, RunOne
<1>4. <<c.id>> \o c.text = Run(a, a + 1) \o Run(a + 1, CohortEnd(c))
  BY <1>1, <1>3
<1>5. Run(a, a + 1) \o Run(a + 1, CohortEnd(c)) = Run(a, CohortEnd(c))
  <2>1. a + 1 \in Nat /\ a <= a + 1
    OBVIOUS
  <2> QED
    BY <1>2, <2>1, RunConcat
<1> QED
  BY <1>2, <1>4, <1>5

\* Runs that follow one another, laid end to end, are a run.
LEMMA FlattenRuns ==
  ASSUME NEW n \in Nat, n # 0, NEW s, Len(s) = n, NEW b,
         \A i \in 1 .. n + 1 : b[i] \in Nat,
         \A i \in 1 .. n : b[i] <= b[i + 1] /\ s[i] = Run(b[i], b[i + 1])
  PROVE  FlattenSeq(s) = Run(b[1], b[n + 1]) /\ b[1] <= b[n + 1]
<1> DEFINE F(f) == [i \in 1 .. n |-> IF i = 1 THEN s[i] ELSE f[i - 1] \o s[i]]
           f0 == [i \in 1 .. n |-> Run(b[1], b[i + 1])]
           fl == CHOOSE f : f = F(f)
<1>1. ASSUME NEW i \in 1 .. n + 1
      PROVE  b[i] \in Nat /\ b[1] <= b[i]
  <2>1. n + 1 \in Nat /\ 1 \in 1 .. i /\ (n + 1) - 1 = n
    OBVIOUS
  <2> DEFINE m == n + 1
  <2>2. /\ m \in Nat /\ i \in 1 .. m /\ m - 1 = n
        /\ \A k \in 1 .. m : b[k] \in Nat
        /\ \A k \in 1 .. m - 1 : b[k] <= b[k + 1]
    BY <2>1
  <2> HIDE DEF m
  <2>3. b[1] <= b[i]
    BY <2>1, <2>2, Rising
  <2> QED
    BY <2>3
<1>2. ASSUME NEW i \in 1 .. n, i # 1
      PROVE  Run(b[1], b[i]) \o s[i] = Run(b[1], b[i + 1])
  <2>1. i \in 1 .. n + 1 /\ i + 1 \in 1 .. n + 1 /\ 1 \in 1 .. n + 1
    OBVIOUS
  <2>2. /\ b[1] \in Nat /\ b[i] \in Nat /\ b[i + 1] \in Nat
        /\ b[1] <= b[i] /\ b[i] <= b[i + 1] /\ s[i] = Run(b[i], b[i + 1])
    BY <1>1, <2>1
  <2> DEFINE x == b[1]
             y == b[i]
             z == b[i + 1]
  <2>3. /\ x \in Nat /\ y \in Nat /\ z \in Nat /\ x <= y /\ y <= z
        /\ s[i] = Run(y, z)
    BY <2>2
  <2> HIDE DEF x, y, z
  <2>4. Run(x, y) \o Run(y, z) = Run(x, z)
    BY <2>3, RunConcat
  <2>5. Run(x, y) \o s[i] = Run(x, z)
    BY <2>3, <2>4
  <2> QED
    BY <2>5 DEF x, y, z
<1>3. f0 = F(f0)
  <2>1. ASSUME NEW i \in 1 .. n
        PROVE  f0[i] = IF i = 1 THEN s[i] ELSE f0[i - 1] \o s[i]
    <3>1. CASE i = 1
      BY <3>1
    <3>2. CASE i # 1
      <4>1. i - 1 \in 1 .. n /\ (i - 1) + 1 = i
        BY <3>2
      <4>2. f0[i - 1] = Run(b[1], b[i])
        BY <4>1
      <4> QED
        BY <1>2, <3>2, <4>2
    <3> QED
      BY <3>1, <3>2
  <2> HIDE DEF f0
  <2>2. F(f0) = [i \in 1 .. n |-> f0[i]]
    BY <2>1
  <2>3. f0 = [i \in 1 .. n |-> f0[i]]
    BY DEF f0
  <2> QED
    BY <2>2, <2>3
<1> HIDE DEF f0
<1>4. fl = F(fl)
  BY <1>3
<1>5. FlattenSeq(s) = fl[n]
  BY DEF FlattenSeq
<1> HIDE DEF fl
<1>6. ASSUME NEW i \in 1 .. n
      PROVE  fl[i] = Run(b[1], b[i + 1])
  <2> DEFINE T == {m \in 1 .. n : fl[m] # Run(b[1], b[m + 1])}
  <2> SUFFICES ASSUME i \in T
               PROVE  FALSE
    OBVIOUS
  <2>1. T \subseteq 1 .. n /\ 1 .. n \subseteq Nat /\ T # {}
    OBVIOUS
  <2>2. PICK m \in T : \A y \in T : m <= y
    BY <2>1, LeastNatural
  <2>3. m \in 1 .. n /\ fl[m] # Run(b[1], b[m + 1])
    OBVIOUS
  <2>4. fl[m] = IF m = 1 THEN s[m] ELSE fl[m - 1] \o s[m]
    BY <1>4, <2>3
  <2>5. m # 1
    BY <2>3, <2>4
  <2>6. m - 1 \in 1 .. n /\ (m - 1) + 1 = m
    BY <2>3, <2>5
  <2>7. m - 1 \notin T
    BY <2>1, <2>2, <2>6
  <2>8. fl[m - 1] = Run(b[1], b[m])
    BY <2>6, <2>7
  <2> QED
    BY <1>2, <2>3, <2>4, <2>5, <2>8
<1>7. n \in 1 .. n /\ n + 1 \in 1 .. n + 1
  OBVIOUS
<1> QED
  BY <1>1, <1>5, <1>6, <1>7

\* A cohort starts where the one before it ends.
LEMMA CohortAfterNext ==
  ASSUME NEW cs, NEW a, NEW i \in 1 .. Len(cs), Len(cs) \in Nat
  PROVE  CohortAfter(cs, a, i + 1) = CohortEnd(cs[i]) /\ CohortAfter(cs, a, 1) = a
<1>1. i + 1 # 1 /\ (i + 1) - 1 = i
  OBVIOUS
<1> QED
  BY <1>1 DEF CohortAfter

\* The cohorts of a window are written as the run they are.
LEMMA CohortsOutputRun ==
  ASSUME received \in Nat, NEW cs \in Seq(Cohort), NEW a \in Nat, CohortsRun(cs, a)
  PROVE  /\ CohortOutput(cs) = Run(a, CohortsEnd(cs, a))
         /\ CohortsEnd(cs, a) \in Nat /\ a <= CohortsEnd(cs, a)
<1> DEFINE n == Len(cs)
           b == [i \in 1 .. n + 1 |-> CohortAfter(cs, a, i)]
           s == [i \in DOMAIN cs |-> <<cs[i].id>> \o cs[i].text]
<1>1. n \in Nat /\ DOMAIN cs = 1 .. n
  OBVIOUS
<1>2. CASE n = 0
  <2>1. CohortOutput(cs) = <<>>
    <3>1. s = <<>> /\ Len(s) = 0
      BY <1>1, <1>2
    <3> QED
      BY <3>1 DEF CohortOutput, FlattenSeq
  <2>2. CohortsEnd(cs, a) = a
    BY <1>2 DEF CohortsEnd, CohortAfter
  <2> QED
    BY <2>1, <2>2, RunOne
<1>3. CASE n # 0
  <2>1. ASSUME NEW i \in 1 .. n
        PROVE  /\ CohortAfter(cs, a, i) \in Nat
               /\ CohortAfter(cs, a, i + 1) \in Nat
               /\ CohortAfter(cs, a, i) <= CohortAfter(cs, a, i + 1)
               /\ s[i] = Run(CohortAfter(cs, a, i), CohortAfter(cs, a, i + 1))
    <3>1. cs[i] \in Cohort /\ CohortRuns(cs[i], CohortAfter(cs, a, i))
      BY <1>1 DEF CohortsRun
    <3>2. CohortAfter(cs, a, i) \in Nat
      <4>1. CASE i = 1
        BY <4>1 DEF CohortAfter
      <4>2. CASE i # 1
        <5>1. i - 1 \in 1 .. n
          BY <1>1, <4>2
        <5>2. cs[i - 1] \in Cohort
          BY <1>1, <5>1
        <5>3. cs[i - 1].id \in Nat /\ Len(cs[i - 1].text) \in Nat
          <6>1. cs[i - 1].id \in Items /\ cs[i - 1].text \in Seq(Items)
            BY <5>2 DEF Cohort
          <6>2. Len(cs[i - 1].text) \in Nat
            BY <6>1, LenProperties
          <6>3. Items \subseteq Nat
            BY DEF Items
          <6> QED
            BY <6>1, <6>2, <6>3
        <5>4. CohortAfter(cs, a, i) = cs[i - 1].id + Len(cs[i - 1].text)
          BY <4>2 DEF CohortAfter, CohortEnd
        <5> QED
          BY <5>3, <5>4
      <4> QED
        BY <4>1, <4>2
    <3>3. CohortAfter(cs, a, i + 1) = CohortEnd(cs[i])
      BY <1>1, CohortAfterNext
    <3> DEFINE x == CohortAfter(cs, a, i)
               c == cs[i]
    <3>4. x \in Nat /\ c \in Cohort /\ CohortRuns(c, x)
      BY <3>1, <3>2
    <3> HIDE DEF x, c
    <3>5. <<c.id>> \o c.text = Run(x, CohortEnd(c)) /\ CohortEnd(c) \in Nat /\ x < CohortEnd(c)
      BY <3>4, CohortOutputRun
    <3>6. x <= CohortEnd(c)
      BY <3>4, <3>5
    <3>7. s[i] = <<c.id>> \o c.text
      BY <1>1 DEF c
    <3> QED
      BY <3>3, <3>4, <3>5, <3>6, <3>7 DEF x, c
  <2>2. \A i \in 1 .. n + 1 : b[i] \in Nat
    <3> SUFFICES ASSUME NEW i \in 1 .. n + 1
                 PROVE  b[i] \in Nat
      OBVIOUS
    <3>1. CASE i = 1
      BY <3>1 DEF CohortAfter
    <3>2. CASE i # 1
      <4>1. i - 1 \in 1 .. n /\ (i - 1) + 1 = i
        BY <1>1, <3>2
      <4> QED
        BY <2>1, <4>1
    <3> QED
      BY <3>1, <3>2
  <2>3. \A i \in 1 .. n : b[i] <= b[i + 1] /\ s[i] = Run(b[i], b[i + 1])
    <3> SUFFICES ASSUME NEW i \in 1 .. n
                 PROVE  b[i] <= b[i + 1] /\ s[i] = Run(b[i], b[i + 1])
      OBVIOUS
    <3>1. b[i] = CohortAfter(cs, a, i) /\ b[i + 1] = CohortAfter(cs, a, i + 1)
      BY <1>1
    <3> HIDE DEF b, s
    <3> QED
      BY <2>1, <3>1
  <2>4. Len(s) = n /\ CohortOutput(cs) = FlattenSeq(s)
    BY <1>1 DEF CohortOutput
  <2>5. b[1] = a /\ b[n + 1] = CohortsEnd(cs, a) /\ n + 1 \in 1 .. n + 1
    BY <1>1 DEF CohortsEnd, CohortAfter
  <2> HIDE DEF n, b, s
  <2>6. FlattenSeq(s) = Run(b[1], b[n + 1]) /\ b[1] <= b[n + 1]
    BY <1>1, <1>3, <2>2, <2>3, <2>4, FlattenRuns
  <2> QED
    BY <2>2, <2>4, <2>5, <2>6
<1> QED
  BY <1>2, <1>3

\* So is a window.
LEMMA WindowOutputRun ==
  ASSUME received \in Nat, NEW rec \in Window, NEW a \in Nat, NEW b,
         WindowRuns(rec, a, b)
  PROVE  WindowOutput(rec) = Run(a, b) /\ b \in Nat /\ a <= b
<1> DEFINE m == CohortsEnd(rec.cohorts, a)
           last == IF rec.flush_after = 0 THEN <<>> ELSE <<rec.flush_after>>
<1>1. /\ rec.cohorts \in Seq(Cohort) /\ CohortsRun(rec.cohorts, a)
      /\ rec.text = <<>> /\ rec.text_post = <<>>
  BY DEF Window, WindowRuns
<1>2. CohortOutput(rec.cohorts) = Run(a, m) /\ m \in Nat /\ a <= m
  BY <1>1, CohortsOutputRun
<1>3. IF rec.flush_after = 0 THEN b = m ELSE rec.flush_after = b /\ b = m + 1
  BY DEF WindowRuns
<1> HIDE DEF m
<1>4. b \in Nat /\ m <= b /\ a <= b /\ last = Run(m, b)
  <2>1. CASE rec.flush_after = 0
    BY <1>2, <1>3, <2>1, RunOne
  <2>2. CASE rec.flush_after # 0
    <3>1. last = <<b>> /\ b = m + 1
      BY <1>3, <2>2
    <3>2. Run(m, m + 1) = <<m + 1>>
      BY <1>2, RunOne
    <3>3. m + 1 \in Nat /\ m <= m + 1 /\ a <= m + 1
      BY <1>2
    <3> HIDE DEF last
    <3> QED
      BY <3>1, <3>2, <3>3
  <2> QED
    BY <2>1, <2>2
<1> HIDE DEF last
<1>5. Run(a, m) \in Seq(Nat)
  BY <1>2, RunSeq
<1>6. <<>> \o Run(a, m) = Run(a, m) /\ Run(a, m) \o <<>> = Run(a, m)
  BY <1>5, ConcatEmptySeq
<1>7. WindowOutput(rec) = Run(a, m) \o last
  BY <1>1, <1>2, <1>6 DEF WindowOutput, last
<1>8. Run(a, m) \o Run(m, b) = Run(a, b)
  BY <1>2, <1>4, RunConcat
<1> QED
  BY <1>4, <1>7, <1>8

\* One more cohort, whose items follow.
LEMMA CohortsRunAppend ==
  ASSUME NEW S, NEW cs \in Seq(S), NEW c \in S, NEW a,
         CohortsRun(cs, a), CohortRuns(c, CohortsEnd(cs, a))
  PROVE  CohortsRun(Append(cs, c), a) /\ CohortsEnd(Append(cs, c), a) = CohortEnd(c)
<1> DEFINE e == Append(cs, c)
           n == Len(cs)
<1>1. /\ n \in Nat /\ e \in Seq(S) /\ Len(e) = n + 1
      /\ \A i \in 1 .. n : e[i] = cs[i]
      /\ e[n + 1] = c
  BY AppendProperties
<1> HIDE DEF e, n
<1>2. ASSUME NEW i \in 1 .. n + 1
      PROVE  CohortAfter(e, a, i) = CohortAfter(cs, a, i)
  <2>1. i # 1 => i - 1 \in 1 .. n
    BY <1>1
  <2> QED
    BY <1>1, <2>1 DEF CohortAfter
<1>3. ASSUME NEW i \in 1 .. n + 1
      PROVE  CohortRuns(e[i], CohortAfter(e, a, i))
  <2>1. CASE i \in 1 .. n
    BY <1>1, <1>2, <2>1 DEF CohortsRun, n
  <2>2. CASE i = n + 1
    BY <1>1, <1>2, <2>2 DEF CohortsEnd, n
  <2> QED
    BY <1>1, <2>1, <2>2
<1>4. CohortsRun(e, a)
  BY <1>1, <1>3 DEF CohortsRun
<1>5. CohortsEnd(e, a) = CohortEnd(c)
  <2>1. Len(e) \in 1 .. Len(e) /\ Len(e) \in Nat /\ e[Len(e)] = c
    BY <1>1
  <2> QED
    BY <2>1, CohortAfterNext DEF CohortsEnd
<1> QED
  BY <1>4, <1>5 DEF e

\* A list of cohorts cut in two: the second half starts where the first ends.
LEMMA CohortsRunCut ==
  ASSUME NEW S, NEW cs \in Seq(S), NEW k \in 1 .. Len(cs), NEW a, CohortsRun(cs, a)
  PROVE  LET p == SubSeq(cs, 1, k)
             q == SubSeq(cs, k + 1, Len(cs))
         IN  /\ CohortsRun(p, a) /\ CohortsEnd(p, a) = CohortEnd(cs[k])
             /\ CohortsRun(q, CohortsEnd(p, a))
             /\ CohortsEnd(q, CohortsEnd(p, a)) = CohortsEnd(cs, a)
<1> DEFINE p == SubSeq(cs, 1, k)
           q == SubSeq(cs, k + 1, Len(cs))
           n == Len(cs)
           m == n - k
           b == CohortEnd(cs[k])
<1>1. n \in Nat /\ k \in Nat /\ m \in Nat /\ k <= n /\ k + m = n /\ 1 <= k
  OBVIOUS
<1>2. Len(p) = k /\ \A i \in 1 .. k : p[i] = cs[i]
  OBVIOUS
<1>3. Len(q) = m /\ \A i \in 1 .. m : q[i] = cs[k + i]
  <2>1. k + 1 \in Int /\ n \in Int /\ \A i \in k + 1 .. n : cs[i] \in S
    BY <1>1
  <2>2. /\ Len(q) = IF k + 1 <= n THEN n - (k + 1) + 1 ELSE 0
        /\ \A i \in 1 .. n - (k + 1) + 1 : q[i] = cs[k + 1 + i - 1]
    BY <2>1, SubSeqProperties
  <2>3. n - (k + 1) + 1 = m
    BY <1>1
  <2>5. \A i \in 1 .. m : k + 1 + i - 1 = k + i
    BY <1>1
  <2> HIDE DEF q, n, m
  <2>4. k + 1 <= n \/ m = 0
    BY <1>1
  <2>6. Len(q) = m
    BY <2>2, <2>3, <2>4
  <2> QED
    BY <2>2, <2>3, <2>5, <2>6
<1>4. \A i \in 1 .. n : CohortRuns(cs[i], CohortAfter(cs, a, i))
  BY DEF CohortsRun
<1> HIDE DEF p, q, m
<1>5. CohortsRun(p, a) /\ CohortsEnd(p, a) = b
  <2>1. ASSUME NEW i \in 1 .. k
        PROVE  CohortRuns(p[i], CohortAfter(p, a, i))
    <3>1. i \in 1 .. n /\ (i # 1 => i - 1 \in 1 .. k)
      BY <1>1
    <3>2. CohortAfter(p, a, i) = CohortAfter(cs, a, i)
      BY <1>2, <3>1 DEF CohortAfter
    <3> QED
      BY <1>2, <1>4, <3>1, <3>2
  <2>2. k \in 1 .. Len(p) /\ Len(p) \in Nat /\ p[k] = cs[k]
    BY <1>1, <1>2
  <2>3. CohortAfter(p, a, k + 1) = CohortEnd(p[k])
    BY <2>2, CohortAfterNext
  <2> QED
    BY <1>2, <2>1, <2>2, <2>3 DEF CohortsRun, CohortsEnd
<1>6. ASSUME NEW i \in 1 .. m + 1
      PROVE  CohortAfter(q, b, i) = CohortAfter(cs, a, k + i)
  <2>1. CASE i = 1
    <3>1. k \in 1 .. Len(cs) /\ Len(cs) \in Nat
      BY <1>1
    <3> QED
      BY <2>1, <3>1, CohortAfterNext DEF CohortAfter
  <2>2. CASE i # 1
    <3>1. i - 1 \in 1 .. m /\ k + (i - 1) \in 1 .. n /\ (k + i) - 1 = k + (i - 1) /\ k + i # 1
      BY <1>1, <2>2
    <3>2. q[i - 1] = cs[k + (i - 1)]
      BY <1>3, <3>1
    <3> HIDE DEF b, n
    <3> QED
      BY <2>2, <3>1, <3>2 DEF CohortAfter
  <2> QED
    BY <2>1, <2>2
<1> HIDE DEF b
<1>7. CohortsRun(q, b)
  <2>1. ASSUME NEW i \in 1 .. m
        PROVE  CohortRuns(q[i], CohortAfter(q, b, i))
    <3>1. k + i \in 1 .. n /\ i \in 1 .. m + 1
      BY <1>1
    <3> QED
      BY <1>3, <1>4, <1>6, <3>1
  <2> QED
    BY <1>3, <2>1 DEF CohortsRun
<1>8. CohortsEnd(q, b) = CohortsEnd(cs, a)
  <2>1. m + 1 \in 1 .. m + 1 /\ k + (m + 1) = n + 1
    BY <1>1
  <2> QED
    BY <1>3, <1>6, <2>1 DEF CohortsEnd
<1> QED
  BY <1>5, <1>7, <1>8 DEF p, q, b

-----------------------------------------------------------------------------
(* Windows in a document, one run after another: the window w ends at u[w].   *)

Along(d, f, u, a) ==
  \A i \in 1 .. Len(d) : WindowRuns(f[d[i]], ValueBefore(d, u, a, i), u[d[i]])

AlongEnd(d, u, a) == ValueBefore(d, u, a, Len(d) + 1)

SameItems(q, r) ==
  /\ q.cohorts = r.cohorts /\ q.text = r.text /\ q.text_post = r.text_post
  /\ q.flush_after = r.flush_after

LEMMA AlongKept ==
  ASSUME NEW d, NEW f, NEW g, NEW u, NEW a, Along(d, f, u, a),
         \A i \in 1 .. Len(d) : SameItems(g[d[i]], f[d[i]])
  PROVE  Along(d, g, u, a)
<1> SUFFICES ASSUME NEW i \in 1 .. Len(d)
             PROVE  WindowRuns(g[d[i]], ValueBefore(d, u, a, i), u[d[i]])
  BY DEF Along
<1>1. WindowRuns(f[d[i]], ValueBefore(d, u, a, i), u[d[i]]) /\ SameItems(g[d[i]], f[d[i]])
  BY DEF Along
<1> QED
  BY <1>1 DEF WindowRuns, SameItems

Longer(d, x, f, g, u, v, a) ==
  /\ Along(d, f, u, a)
  /\ \A i \in 1 .. Len(d) : SameItems(g[d[i]], f[d[i]]) /\ v[d[i]] = u[d[i]]
  /\ WindowRuns(g[x], AlongEnd(d, u, a), v[x])

\* One more window.
LEMMA AlongAppend ==
  ASSUME NEW S, NEW d \in Seq(S), NEW x \in S, NEW f, NEW g, NEW u, NEW v, NEW a,
         Longer(d, x, f, g, u, v, a)
  PROVE  Along(Append(d, x), g, v, a) /\ AlongEnd(Append(d, x), v, a) = v[x]
<1> DEFINE e == Append(d, x)
           n == Len(d)
<1>1. /\ n \in Nat /\ Len(e) = n + 1
      /\ \A i \in 1 .. n : e[i] = d[i]
      /\ e[n + 1] = x
  BY AppendProperties
<1> HIDE DEF e, n
<1>2. ASSUME NEW i \in 1 .. n + 1
      PROVE  ValueBefore(e, v, a, i) = ValueBefore(d, u, a, i)
  <2>1. i # 1 => i - 1 \in 1 .. n
    BY <1>1
  <2> QED
    BY <1>1, <2>1 DEF Longer, ValueBefore, n
<1>3. ASSUME NEW i \in 1 .. n + 1
      PROVE  WindowRuns(g[e[i]], ValueBefore(e, v, a, i), v[e[i]])
  <2>1. CASE i \in 1 .. n
    <3>1. /\ WindowRuns(f[d[i]], ValueBefore(d, u, a, i), u[d[i]])
          /\ SameItems(g[d[i]], f[d[i]])
      BY <2>1 DEF Longer, Along, n
    <3>2. e[i] = d[i] /\ v[d[i]] = u[d[i]] /\ ValueBefore(e, v, a, i) = ValueBefore(d, u, a, i)
      BY <1>1, <1>2, <2>1 DEF Longer, n
    <3> QED
      BY <3>1, <3>2 DEF WindowRuns, SameItems
  <2>2. CASE i = n + 1
    BY <1>1, <1>2, <2>2 DEF Longer, AlongEnd, n
  <2> QED
    BY <1>1, <2>1, <2>2
<1>4. AlongEnd(e, v, a) = v[x]
  <2>1. Len(e) + 1 # 1 /\ (Len(e) + 1) - 1 = n + 1
    BY <1>1
  <2> QED
    BY <1>1, <2>1 DEF AlongEnd, ValueBefore
<1> QED
  BY <1>1, <1>3, <1>4 DEF Along, e

Filled(d, n, f, g, u, v, a) ==
  /\ Along(d, f, u, a)
  /\ \A i \in 1 .. n - 1 : SameItems(g[d[i]], f[d[i]]) /\ v[d[i]] = u[d[i]]
  /\ WindowRuns(g[d[n]], ValueBefore(d, u, a, n), v[d[n]])

\* The last window gets more items.
LEMMA AlongLast ==
  ASSUME NEW d, NEW n \in Nat, n # 0, Len(d) = n, NEW f, NEW g, NEW u, NEW v, NEW a,
         Filled(d, n, f, g, u, v, a)
  PROVE  Along(d, g, v, a) /\ AlongEnd(d, v, a) = v[d[n]]
<1>1. ASSUME NEW i \in 1 .. n
      PROVE  ValueBefore(d, v, a, i) = ValueBefore(d, u, a, i)
  <2>1. i # 1 => i - 1 \in 1 .. n - 1
    OBVIOUS
  <2> QED
    BY <2>1 DEF Filled, ValueBefore
<1>2. ASSUME NEW i \in 1 .. n
      PROVE  WindowRuns(g[d[i]], ValueBefore(d, v, a, i), v[d[i]])
  <2>1. CASE i \in 1 .. n - 1
    <3>1. /\ WindowRuns(f[d[i]], ValueBefore(d, u, a, i), u[d[i]])
          /\ SameItems(g[d[i]], f[d[i]]) /\ v[d[i]] = u[d[i]]
      BY <2>1 DEF Filled, Along
    <3>2. ValueBefore(d, v, a, i) = ValueBefore(d, u, a, i)
      BY <1>1
    <3> QED
      BY <3>1, <3>2 DEF WindowRuns, SameItems
  <2>2. CASE i = n
    BY <1>1, <2>2 DEF Filled
  <2>3. i \in 1 .. n - 1 \/ i = n
    OBVIOUS
  <2> QED
    BY <2>1, <2>2, <2>3
<1>3. n + 1 # 1 /\ (n + 1) - 1 = n
  OBVIOUS
<1> QED
  BY <1>2, <1>3 DEF Along, AlongEnd, ValueBefore

\* A window cut in two: its last items go to a window of their own after it.
Cut(d, e, k, x, f, g, u, v, a) ==
  /\ Inserts(d, e, k, x) /\ Len(d) \in Nat /\ Along(d, f, u, a)
  /\ \A i \in 1 .. Len(d) :
       i # k => SameItems(g[d[i]], f[d[i]]) /\ v[d[i]] = u[d[i]]
  /\ WindowRuns(g[d[k]], ValueBefore(d, u, a, k), v[d[k]])
  /\ WindowRuns(g[x], v[d[k]], v[x]) /\ v[x] = u[d[k]]

LEMMA AlongInsert ==
  ASSUME NEW d, NEW e, NEW k, NEW x, NEW f, NEW g, NEW u, NEW v, NEW a,
         Cut(d, e, k, x, f, g, u, v, a)
  PROVE  Along(e, g, v, a) /\ AlongEnd(e, v, a) = AlongEnd(d, u, a)
<1> DEFINE n == Len(d)
<1>1. /\ n \in Nat /\ k \in 1 .. n /\ k \in Nat /\ Len(e) = n + 1
      /\ \A i \in 1 .. k : e[i] = d[i]
      /\ e[k + 1] = x
      /\ \A i \in k + 1 .. n : e[i + 1] = d[i]
  <2>1. n \in Nat
    BY DEF Cut
  <2>2. /\ k \in 1 .. n /\ Len(e) = n + 1
        /\ \A i \in 1 .. k : e[i] = d[i]
        /\ e[k + 1] = x
        /\ \A i \in k + 1 .. n : e[i + 1] = d[i]
    BY DEF Inserts, Cut
  <2> HIDE DEF n
  <2> QED
    BY <2>1, <2>2
<1>2. \A i \in 1 .. n :
        /\ WindowRuns(f[d[i]], ValueBefore(d, u, a, i), u[d[i]])
        /\ i # k => SameItems(g[d[i]], f[d[i]]) /\ v[d[i]] = u[d[i]]
  BY DEF Along, Cut
<1>3. /\ WindowRuns(g[d[k]], ValueBefore(d, u, a, k), v[d[k]])
      /\ WindowRuns(g[x], v[d[k]], v[x]) /\ v[x] = u[d[k]]
  BY DEF Cut
<1> HIDE DEF n
\* Up to the cut, every window starts where it did.
<1>4. ASSUME NEW i \in 1 .. k
      PROVE  ValueBefore(e, v, a, i) = ValueBefore(d, u, a, i)
  <2>1. i # 1 => i - 1 \in 1 .. k /\ i - 1 \in 1 .. n /\ i - 1 # k
    BY <1>1
  <2> QED
    BY <1>1, <1>2, <2>1 DEF ValueBefore
<1>5. ValueBefore(e, v, a, k + 1) = v[d[k]]
  <2>1. k + 1 # 1 /\ (k + 1) - 1 = k /\ k \in 1 .. k
    BY <1>1
  <2> QED
    BY <1>1, <2>1 DEF ValueBefore
\* And so does every window after the new one.
<1>6. ASSUME NEW i \in k + 1 .. n + 1
      PROVE  ValueBefore(e, v, a, i + 1) = ValueBefore(d, u, a, i)
  <2>1. /\ i # 1 /\ i + 1 # 1 /\ (i + 1) - 1 = i
        /\ i = k + 1 \/ i - 1 \in k + 1 .. n
    BY <1>1
  <2>2. CASE i = k + 1
    <3>1. i - 1 = k
      BY <1>1, <2>2
    <3> QED
      BY <1>1, <1>3, <2>1, <2>2, <3>1 DEF ValueBefore
  <2>3. CASE i - 1 \in k + 1 .. n
    <3>1. (i - 1) + 1 = i /\ i - 1 # k /\ i - 1 \in 1 .. n
      BY <1>1, <2>3
    <3>2. e[i] = d[i - 1] /\ v[d[i - 1]] = u[d[i - 1]]
      BY <1>1, <1>2, <2>3, <3>1
    <3> QED
      BY <2>1, <3>2 DEF ValueBefore
  <2> QED
    BY <2>1, <2>2, <2>3
<1>7. ASSUME NEW j \in 1 .. n + 1
      PROVE  WindowRuns(g[e[j]], ValueBefore(e, v, a, j), v[e[j]])
  <2>1. CASE j \in 1 .. k /\ j # k
    <3>1. j \in 1 .. n
      BY <1>1, <2>1
    <3>2. /\ WindowRuns(f[d[j]], ValueBefore(d, u, a, j), u[d[j]])
          /\ SameItems(g[d[j]], f[d[j]]) /\ v[d[j]] = u[d[j]] /\ e[j] = d[j]
          /\ ValueBefore(e, v, a, j) = ValueBefore(d, u, a, j)
      BY <1>1, <1>2, <1>4, <2>1, <3>1
    <3> QED
      BY <3>2 DEF WindowRuns, SameItems
  <2>2. CASE j = k
    <3>1. k \in 1 .. k
      BY <1>1
    <3> QED
      BY <1>1, <1>3, <1>4, <2>2, <3>1
  <2>3. CASE j = k + 1
    BY <1>1, <1>3, <1>5, <2>3
  <2>4. CASE j \in k + 2 .. n + 1
    <3> DEFINE i == j - 1
    <3>1. i \in k + 1 .. n /\ i \in k + 1 .. n + 1 /\ i \in 1 .. n /\ i # k /\ i + 1 = j
      BY <1>1, <2>4
    <3> HIDE DEF i
    <3>2. /\ WindowRuns(f[d[i]], ValueBefore(d, u, a, i), u[d[i]])
          /\ SameItems(g[d[i]], f[d[i]]) /\ v[d[i]] = u[d[i]] /\ e[j] = d[i]
          /\ ValueBefore(e, v, a, j) = ValueBefore(d, u, a, i)
      BY <1>1, <1>2, <1>6, <3>1
    <3> QED
      BY <3>2 DEF WindowRuns, SameItems
  <2>5. \/ j \in 1 .. k /\ j # k
        \/ j = k \/ j = k + 1 \/ j \in k + 2 .. n + 1
    BY <1>1
  <2> QED
    BY <2>1, <2>2, <2>3, <2>4, <2>5
<1>8. AlongEnd(e, v, a) = AlongEnd(d, u, a)
  <2>1. n + 1 \in k + 1 .. n + 1
    BY <1>1
  <2> QED
    BY <1>1, <1>6, <2>1 DEF AlongEnd, n
<1> QED
  BY <1>1, <1>7, <1>8 DEF Along

\* The first window goes.
LEMMA AlongTail ==
  ASSUME NEW S, NEW d \in Seq(S), d # <<>>, NEW f, NEW g, NEW u, NEW a,
         Along(d, f, u, a),
         \A i \in 2 .. Len(d) : SameItems(g[d[i]], f[d[i]])
  PROVE  /\ WindowRuns(f[d[1]], a, u[d[1]])
         /\ Along(Tail(d), g, u, u[d[1]])
         /\ AlongEnd(Tail(d), u, u[d[1]]) = AlongEnd(d, u, a)
<1> DEFINE e == Tail(d)
           n == Len(d)
           b == u[d[1]]
<1>1. /\ n \in Nat /\ n # 0 /\ Len(e) = n - 1
      /\ \A i \in 1 .. n - 1 : e[i] = d[i + 1]
  BY EmptySeq
<1>2. \A i \in 1 .. n : WindowRuns(f[d[i]], ValueBefore(d, u, a, i), u[d[i]])
  BY DEF Along
<1> HIDE DEF e, n
<1>3. WindowRuns(f[d[1]], a, b)
  <2>1. 1 \in 1 .. n
    BY <1>1
  <2> QED
    BY <1>2, <2>1 DEF ValueBefore
<1>4. ASSUME NEW i \in 1 .. n
      PROVE  ValueBefore(e, u, b, i) = ValueBefore(d, u, a, i + 1)
  <2>1. i + 1 # 1 /\ (i + 1) - 1 = i
    OBVIOUS
  <2>2. CASE i = 1
    BY <2>1, <2>2 DEF ValueBefore
  <2>3. CASE i # 1
    <3>1. i - 1 \in 1 .. n - 1 /\ (i - 1) + 1 = i
      BY <1>1, <2>3
    <3>2. e[i - 1] = d[i]
      BY <1>1, <3>1
    <3> QED
      BY <2>1, <2>3, <3>2 DEF ValueBefore
  <2> QED
    BY <2>2, <2>3
<1>5. ASSUME NEW i \in 1 .. n - 1
      PROVE  WindowRuns(g[e[i]], ValueBefore(e, u, b, i), u[e[i]])
  <2>1. i \in 1 .. n /\ i + 1 \in 1 .. n /\ i + 1 \in 2 .. n
    BY <1>1
  <2>2. /\ WindowRuns(f[d[i + 1]], ValueBefore(d, u, a, i + 1), u[d[i + 1]])
        /\ SameItems(g[d[i + 1]], f[d[i + 1]]) /\ e[i] = d[i + 1]
        /\ ValueBefore(e, u, b, i) = ValueBefore(d, u, a, i + 1)
    BY <1>1, <1>2, <1>4, <2>1 DEF n
  <2> QED
    BY <2>2 DEF WindowRuns, SameItems
<1>6. AlongEnd(e, u, b) = AlongEnd(d, u, a)
  <2>1. (n - 1) + 1 = n /\ n \in 1 .. n
    BY <1>1
  <2> QED
    BY <1>1, <1>4, <2>1 DEF AlongEnd, n
<1> QED
  BY <1>1, <1>3, <1>5, <1>6 DEF Along, e

\* The windows of a document end after they start.
LEMMA AlongRises ==
  ASSUME received \in Nat, NEW d, Len(d) \in Nat, NEW f, NEW u, NEW a \in Nat,
         Along(d, f, u, a),
         \A i \in 1 .. Len(d) : f[d[i]] \in Window /\ u[d[i]] \in Nat
  PROVE  AlongEnd(d, u, a) \in Nat /\ a <= AlongEnd(d, u, a)
<1> DEFINE n == Len(d)
           m == n + 1
           b == [i \in 1 .. m |-> ValueBefore(d, u, a, i)]
<1>1. ASSUME NEW i \in 1 .. m
      PROVE  b[i] \in Nat
  <2>1. i # 1 => i - 1 \in 1 .. n
    OBVIOUS
  <2> QED
    BY <2>1 DEF ValueBefore
<1>2. ASSUME NEW i \in 1 .. m - 1
      PROVE  b[i] <= b[i + 1]
  <2>1. /\ i \in 1 .. n /\ i \in 1 .. m /\ i + 1 \in 1 .. m /\ i + 1 # 1
        /\ (i + 1) - 1 = i
    OBVIOUS
  <2>2. b[i + 1] = u[d[i]]
    BY <2>1 DEF ValueBefore
  <2>3. WindowRuns(f[d[i]], b[i], u[d[i]]) /\ f[d[i]] \in Window /\ b[i] \in Nat
    BY <1>1, <2>1 DEF Along
  <2> HIDE DEF b
  <2> QED
    BY <2>2, <2>3, WindowOutputRun
<1>3. m \in Nat /\ m \in 1 .. m /\ 1 \in 1 .. m
  OBVIOUS
<1>4. b[1] = a /\ b[m] = AlongEnd(d, u, a)
  BY <1>3 DEF ValueBefore, AlongEnd
<1> HIDE DEF b, m
<1>5. b[1] <= b[m]
  BY <1>1, <1>2, <1>3, Rising
<1> QED
  BY <1>1, <1>3, <1>4, <1>5

-----------------------------------------------------------------------------
(* The driver.  What was written is a run from the first item, the windows of *)
(* the document go on where it ends, and what the driver holds in hand goes   *)
(* on to the last item read.                                                  *)

InHand(e) ==
  IF c_cohort # NoCohort
  THEN CohortRuns(c_cohort, e) /\ CohortEnd(c_cohort) = received
  ELSE received = IF bare_flush THEN e + 1 ELSE e

Told(u) ==
  /\ Along(Document, win, u, Len(out))
  /\ InHand(AlongEnd(Document, u, Len(out)))

Held == \E u \in [Handle -> Nat] : Told(u)

OutRun == out \in Seq(Nat) /\ out = Run(0, Len(out))

\* Only windows that are being drained end in a FLUSH; a FLUSH that no window
\* ends in finds nothing to drain; and the cohort in hand has a window.
Marked ==
  /\ ~Draining => ~bare_flush /\ \A w \in DOMAIN win : win[w].flush_after = 0
  /\ bare_flush => Document = <<>> /\ pc \in {"flush", "flushprint"}
  /\ pc \in {"lookback", "soft", "hard", "open"} /\ c_swindow = NoWin
       => c_cohort = NoCohort

EchoInv == OutRun /\ Held /\ Marked

LEMMA WindowsTyped ==
  ASSUME TypeInv
  PROVE  /\ Document \in Seq(Handle) /\ IsInjective(Document)
         /\ ToSet(Document) = DOMAIN win /\ Len(Document) \in Nat
         /\ \A i \in 1 .. Len(Document) :
              /\ Document[i] \in Handle /\ Document[i] \in DOMAIN win
              /\ win[Document[i]] \in Window
<1>1. /\ Document \in Seq(Handle) /\ IsInjective(Document)
      /\ ToSet(Document) = DOMAIN win
  BY DocumentTyped DEF TypeInv
<1>2. \A x \in DOMAIN win : win[x] \in Window
  BY DEF TypeInv, WinTyped
<1> QED
  BY <1>1, <1>2, LenProperties, ElementOfSeq DEF ToSet

\* The window that is filled is the last one.
LEMMA LastPlace ==
  ASSUME TypeInv, next # <<>>
  PROVE  Len(Document) \in Nat \ {0} /\ Document[Len(Document)] = Last(next)
<1>1. StreamInv /\ next \in Seq(Handle)
  BY DEF TypeInv, StreamInv
<1>2. Len(next) \in 1 .. Len(next) /\ next[Len(next)] = Last(next)
  BY <1>1, EmptySeq, LenProperties DEF Last
<1>3. /\ Len(Document) = Len(previous) + Len(Running) + Len(next)
      /\ Len(previous) \in Nat /\ Len(Running) \in Nat /\ Len(next) \in Nat
      /\ Document[Len(previous) + Len(Running) + Len(next)] = next[Len(next)]
  BY <1>1, <1>2, DocumentPlaces
<1> QED
  BY <1>2, <1>3

\* A step that moves no item.
LEMMA HeldKept ==
  ASSUME TypeInv, Held, Document' = Document,
         \A x \in DOMAIN win : SameItems(win'[x], win[x]),
         UNCHANGED <<out, received, c_cohort, bare_flush>>
  PROVE  Held'
<1>1. PICK u \in [Handle -> Nat] : Told(u)
  BY DEF Held
<1>2. Along(Document, win', u, Len(out))
  <2>1. \A i \in 1 .. Len(Document) : SameItems(win'[Document[i]], win[Document[i]])
    BY WindowsTyped
  <2> QED
    BY <1>1, <2>1, AlongKept DEF Told
<1>3. Told(u)'
  BY <1>1, <1>2 DEF Told, InHand
<1> QED
  BY <1>3 DEF Held

\* The cohort in hand joins the last window, which may end in a FLUSH then.
LEMMA HeldJoined ==
  ASSUME TypeInv, HandleInv, Held, c_cohort # NoCohort, c_swindow # NoWin,
         UNCHANGED <<previous, current, next, out>>,
         c_cohort' = NoCohort, bare_flush' = FALSE,
         NEW m \in {0, received + 1}, received' = IF m = 0 THEN received ELSE m,
         win[c_swindow].flush_after = 0,
         /\ win'[c_swindow].cohorts = Append(win[c_swindow].cohorts, c_cohort)
         /\ win'[c_swindow].text = win[c_swindow].text
         /\ win'[c_swindow].text_post = win[c_swindow].text_post
         /\ win'[c_swindow].flush_after = m,
         \A x \in DOMAIN win \ {c_swindow} : SameItems(win'[x], win[x])
  PROVE  Held'
<1> DEFINE d == Document
           w == c_swindow
           a == Len(out)
           n == Len(Document)
<1>1. PICK u \in [Handle -> Nat] : Told(u)
  BY DEF Held
<1> DEFINE b == ValueBefore(d, u, a, n)
<1>2. /\ d \in Seq(Handle) /\ IsInjective(d) /\ n \in Nat \ {0} /\ d[n] = w
      /\ \A i \in 1 .. n : d[i] \in DOMAIN win /\ d[i] \in Handle
      /\ win[w] \in Window /\ received \in Nat
  <2>1. next # <<>> /\ c_swindow = Last(next)
    BY DEF HandleInv
  <2>2. n \in Nat \ {0} /\ d[n] = w /\ n \in 1 .. n
    BY <2>1, LastPlace
  <2>3. received \in Nat
    BY DEF TypeInv, DriverTyped
  <2> QED
    BY <2>2, <2>3, WindowsTyped
<1>3. PICK r \in Nat : r = received'
  BY <1>2
<1>4. PICK v \in [Handle -> Nat] : v[w] = r /\ \A x \in Handle \ {w} : v[x] = u[x]
  <2>1. w \in Handle
    BY <1>2
  <2>2. [u EXCEPT ![w] = r] \in [Handle -> Nat]
    OBVIOUS
  <2> QED
    BY <2>1, <2>2
<1>5. /\ Along(d, win, u, a) /\ InHand(AlongEnd(d, u, a))
  BY <1>1 DEF Told
<1>6. \A i \in 1 .. n - 1 : SameItems(win'[d[i]], win[d[i]]) /\ v[d[i]] = u[d[i]]
  <2> SUFFICES ASSUME NEW i \in 1 .. n - 1
               PROVE  SameItems(win'[d[i]], win[d[i]]) /\ v[d[i]] = u[d[i]]
    OBVIOUS
  <2>1. i \in 1 .. n /\ n \in 1 .. n /\ i # n /\ DOMAIN d = 1 .. n
    BY <1>2
  <2>2. d[i] # w /\ d[i] \in DOMAIN win /\ d[i] \in Handle
    BY <1>2, <2>1 DEF IsInjective
  <2> QED
    BY <1>4, <2>2
<1>7. WindowRuns(win[w], b, u[w])
  <2>1. n \in 1 .. n
    BY <1>2
  <2> QED
    BY <1>2, <1>5, <2>1 DEF Along
<1>8. AlongEnd(d, u, a) = u[w]
  <2>1. n + 1 # 1 /\ (n + 1) - 1 = n
    BY <1>2
  <2> QED
    BY <1>2, <2>1 DEF AlongEnd, ValueBefore
<1>9. CohortRuns(c_cohort, u[w]) /\ CohortEnd(c_cohort) = received
  BY <1>5, <1>8 DEF InHand
<1> HIDE DEF b
<1>10. WindowRuns(win'[w], b, r)
  <2> DEFINE cs == win[w].cohorts
  <2>1. cs \in Seq(Cohort) /\ c_cohort \in Cohort
    BY <1>2 DEF Window, TypeInv, DriverTyped
  <2>2. /\ CohortsRun(cs, b) /\ u[w] = CohortsEnd(cs, b)
        /\ win[w].text = <<>> /\ win[w].text_post = <<>>
    BY <1>7 DEF WindowRuns
  <2> HIDE DEF cs
  <2>3. /\ CohortsRun(Append(cs, c_cohort), b)
        /\ CohortsEnd(Append(cs, c_cohort), b) = received
    BY <1>9, <2>1, <2>2, CohortsRunAppend
  <2>4. /\ win'[w].cohorts = Append(cs, c_cohort) /\ win'[w].flush_after = m
        /\ win'[w].text = <<>> /\ win'[w].text_post = <<>>
    BY <2>2 DEF cs
  <2>5. IF m = 0 THEN r = received ELSE m = r /\ r = received + 1
    BY <1>2, <1>3
  <2> QED
    BY <2>3, <2>4, <2>5 DEF WindowRuns
<1>11. Along(d, win', v, a) /\ AlongEnd(d, v, a) = r
  <2>1. WindowRuns(win'[d[n]], ValueBefore(d, u, a, n), v[d[n]])
    BY <1>4, <1>2, <1>10 DEF b
  <2>2. Along(d, win', v, a) /\ AlongEnd(d, v, a) = v[d[n]]
    <3> DEFINE f == win
               g == win'
    <3>1. n \in Nat /\ n # 0 /\ Len(d) = n /\ Filled(d, n, f, g, u, v, a)
      BY <1>2, <1>5, <1>6, <2>1 DEF Filled
    <3> HIDE DEF d, n, a, f, g
    <3>2. Along(d, g, v, a) /\ AlongEnd(d, v, a) = v[d[n]]
      BY <3>1, AlongLast
    <3> QED
      BY <3>2 DEF g
  <2> QED
    BY <1>4, <1>2, <2>2
<1>12. Told(v)'
  <2>1. Document' = d /\ Len(out)' = a
    BY DEF Document, Running
  <2>2. InHand(r)'
    BY <1>3 DEF InHand
  <2>3. Along(Document', win', v, Len(out')) /\ AlongEnd(Document', v, Len(out')) = r
    BY <1>11, <2>1
  <2> HIDE DEF d, a, w, n
  <2> QED
    BY <2>2, <2>3 DEF Told
<1> QED
  BY <1>12 DEF Held

\* What is in hand goes on from where the document ends.
LEMMA HandTyped ==
  ASSUME TypeInv, NEW u \in [Handle -> Nat], Told(u)
  PROVE  LET e == AlongEnd(Document, u, Len(out)) IN
         Len(out) \in Nat => e \in Nat /\ Len(out) <= e /\ e <= received
<1> DEFINE d == Document
           a == Len(out)
           e == AlongEnd(d, u, a)
<1> SUFFICES ASSUME a \in Nat
             PROVE  e \in Nat /\ a <= e /\ e <= received
  OBVIOUS
<1>1. /\ received \in Nat /\ Len(d) \in Nat /\ Along(d, win, u, a)
      /\ \A i \in 1 .. Len(d) : win[d[i]] \in Window /\ u[d[i]] \in Nat
      /\ InHand(e) /\ c_cohort \in Cohort \cup {NoCohort} /\ bare_flush \in BOOLEAN
  BY WindowsTyped DEF Told, TypeInv, DriverTyped
<1> HIDE DEF d, a
<1>2. e \in Nat /\ a <= e
  BY <1>1, AlongRises
<1> HIDE DEF e
<1>3. e <= received
  <2>1. CASE c_cohort # NoCohort
    <3>1. c_cohort \in Cohort /\ CohortRuns(c_cohort, e) /\ CohortEnd(c_cohort) = received
      BY <1>1, <2>1 DEF InHand
    <3>2. e < received
      BY <1>1, <1>2, <3>1, CohortOutputRun
    <3> QED
      BY <1>1, <1>2, <3>2
  <2>2. CASE c_cohort = NoCohort
    BY <1>1, <1>2, <2>2 DEF InHand
  <2> QED
    BY <2>1, <2>2
<1> QED
  BY <1>2, <1>3

\* A new window with nothing in it, at the end.
LEMMA HeldOpened ==
  ASSUME TypeInv, OutRun, Held, NEW rec \in Window, AllocAppend(rec),
         SameItems(rec, FreshWindow),
         UNCHANGED <<out, received, c_cohort, bare_flush>>
  PROVE  Held'
<1> DEFINE d == Document
           a == Len(out)
           id == window_counter + 1
<1>1. PICK u \in [Handle -> Nat] : Told(u)
  BY DEF Held
<1>2. PICK e \in Nat : e = AlongEnd(d, u, a)
  BY <1>1, HandTyped, LenProperties DEF OutRun
<1>3. id \in Handle /\ id \notin DOMAIN win /\ id # NoWin
  BY FreshHandle DEF TypeInv, Handle
<1>4. PICK v \in [Handle -> Nat] : v[id] = e /\ \A x \in Handle \ {id} : v[x] = u[x]
  <2>1. [u EXCEPT ![id] = e] \in [Handle -> Nat]
    OBVIOUS
  <2> HIDE DEF id
  <2> QED
    BY <1>3, <2>1
<1>5. Document' = Append(d, id)
  BY AppendPlaces DEF TypeInv, AllocAppend
<1>6. SameItems(win'[id], FreshWindow)
  <2>1. win'[id] = [rec EXCEPT !.prv = IF next = <<>> THEN NoWin ELSE Last(next)]
    BY DEF AllocAppend, Extended
  <2> QED
    BY <2>1 DEF SameItems, Window
<1>7. ASSUME NEW x \in DOMAIN win
      PROVE  SameItems(win'[x], win[x])
  <2>1. win[x] \in Window
    BY DEF TypeInv, WinTyped
  <2>2. win'[x] = win[x] \/ win'[x] = [win[x] EXCEPT !.nxt = id]
    BY <1>3 DEF AllocAppend, Extended
  <2> QED
    BY <2>1, <2>2 DEF SameItems, Window
<1>8. /\ d \in Seq(Handle)
      /\ \A i \in 1 .. Len(d) : SameItems(win'[d[i]], win[d[i]]) /\ v[d[i]] = u[d[i]]
  <2>1. \A i \in 1 .. Len(d) : d[i] \in Handle /\ d[i] \in DOMAIN win
    BY WindowsTyped
  <2>2. \A i \in 1 .. Len(d) : d[i] # id
    BY <1>3, <2>1
  <2> QED
    BY <1>4, <1>7, <2>1, <2>2, WindowsTyped
<1> HIDE DEF id
<1>9. WindowRuns(win'[id], e, v[id])
  <2>1. /\ FreshWindow.cohorts = <<>> /\ FreshWindow.text = <<>>
        /\ FreshWindow.text_post = <<>> /\ FreshWindow.flush_after = 0
    BY DEF FreshWindow
  <2>2. CohortsRun(<<>>, e) /\ CohortsEnd(<<>>, e) = e
    BY DEF CohortsRun, CohortsEnd, CohortAfter
  <2> QED
    BY <1>4, <1>6, <2>1, <2>2 DEF WindowRuns, SameItems
<1>10. Along(Append(d, id), win', v, a) /\ AlongEnd(Append(d, id), v, a) = e
  <2> DEFINE f == win
             g == win'
  <2>1. Longer(d, id, f, g, u, v, a)
    BY <1>1, <1>2, <1>8, <1>9 DEF Told, Longer
  <2> HIDE DEF d, a, f, g
  <2>2. Along(Append(d, id), g, v, a) /\ AlongEnd(Append(d, id), v, a) = v[id]
    BY <1>3, <1>8, <2>1, AlongAppend
  <2> QED
    BY <1>4, <2>2 DEF g
<1>11. Told(v)'
  <2>1. InHand(e)'
    BY <1>1, <1>2 DEF Told, InHand
  <2>2. Along(Document', win', v, Len(out')) /\ AlongEnd(Document', v, Len(out')) = e
    BY <1>5, <1>10
  <2> HIDE DEF d, a
  <2> QED
    BY <2>1, <2>2 DEF Told
<1> QED
  BY <1>11 DEF Held

\* A window cut in two.
LEMMA HeldCut ==
  ASSUME TypeInv, StreamInv', Held, NEW at,
         Inserts(Document, Document', at, window_counter + 1),
         NEW w, Document[at] = w, NEW k \in 1 .. Len(win[w].cohorts),
         SameItems(win'[w], Truncated(w, k)),
         SameItems(win'[window_counter + 1], Tailing(w, k)),
         \A x \in DOMAIN win \ {w} : SameItems(win'[x], win[x]),
         UNCHANGED <<out, received, c_cohort, bare_flush>>
  PROVE  Held'
<1> DEFINE d == Document
           n == Len(Document)
           a == Len(out)
           id == window_counter + 1
           cs == win[w].cohorts
           p == SubSeq(cs, 1, k)
           q == SubSeq(cs, k + 1, Len(cs))
<1>1. PICK u \in [Handle -> Nat] : Told(u)
  BY DEF Held
<1> DEFINE b == ValueBefore(d, u, a, at)
<1>2. /\ d \in Seq(Handle) /\ IsInjective(d) /\ n \in Nat /\ at \in 1 .. n
      /\ \A i \in 1 .. n : d[i] \in DOMAIN win /\ d[i] \in Handle
      /\ win[w] \in Window /\ w \in Handle /\ w \in DOMAIN win /\ d[at] = w
  BY WindowsTyped DEF Inserts
<1>3. id \in Handle /\ id \notin DOMAIN win
  BY FreshHandle DEF TypeInv
<1>4. cs \in Seq(Cohort) /\ k \in 1 .. Len(cs) /\ cs[k] \in Cohort
  <2>1. cs \in Seq(Cohort)
    BY <1>2 DEF Window
  <2> QED
    BY <2>1
<1>5. PICK m \in Nat : m = CohortEnd(cs[k])
  <2> DEFINE c == cs[k]
  <2>1. c \in Cohort /\ received \in Nat
    BY <1>4 DEF TypeInv, DriverTyped
  <2> HIDE DEF c
  <2>2. c.id \in Nat /\ Len(c.text) \in Nat
    BY <2>1 DEF Cohort, Items
  <2>3. CohortEnd(c) \in Nat
    BY <2>2 DEF CohortEnd
  <2> QED
    BY <2>3 DEF c
<1>6. PICK r \in Nat : r = u[w]
  BY <1>2
<1>7. PICK v \in [Handle -> Nat] :
        v[w] = m /\ v[id] = r /\ \A z \in Handle \ {w, id} : v[z] = u[z]
  <2>1. w # id
    BY <1>2, <1>3
  <2>2. w \in Handle /\ id \in Handle
    BY <1>2, <1>3
  <2> HIDE DEF id
  <2> DEFINE v0 == [z \in Handle |-> IF z = w THEN m ELSE IF z = id THEN r ELSE u[z]]
  <2>3. v0 \in [Handle -> Nat]
    OBVIOUS
  <2>4. v0[w] = m /\ v0[id] = r /\ \A z \in Handle \ {w, id} : v0[z] = u[z]
    BY <2>1, <2>2
  <2> HIDE DEF v0
  <2> QED
    BY <2>3, <2>4
<1>8. \A i \in 1 .. n :
        i # at => SameItems(win'[d[i]], win[d[i]]) /\ v[d[i]] = u[d[i]]
  <2> SUFFICES ASSUME NEW i \in 1 .. n, i # at
               PROVE  SameItems(win'[d[i]], win[d[i]]) /\ v[d[i]] = u[d[i]]
    OBVIOUS
  <2>1. DOMAIN d = 1 .. n
    BY <1>2
  <2>2. d[i] # w /\ d[i] \in DOMAIN win /\ d[i] \in Handle
    BY <1>2, <2>1 DEF IsInjective
  <2> HIDE DEF d, n, id
  <2> QED
    BY <1>3, <1>7, <2>2
<1>9. WindowRuns(win[w], b, r)
  BY <1>1, <1>2, <1>6 DEF Told, Along
<1> HIDE DEF b
<1>10. /\ CohortsRun(p, b) /\ CohortsEnd(p, b) = m
       /\ CohortsRun(q, m) /\ CohortsEnd(q, m) = CohortsEnd(cs, b)
  <2>1. CohortsRun(cs, b)
    BY <1>9 DEF WindowRuns
  <2> HIDE DEF cs
  <2> QED
    BY <1>4, <1>5, <2>1, CohortsRunCut
<1>11. WindowRuns(win'[w], b, m)
  <2>1. /\ win'[w].cohorts = p /\ win'[w].text = win[w].text
        /\ win'[w].text_post = <<>> /\ win'[w].flush_after = 0
    BY <1>2 DEF SameItems, Truncated, Window
  <2>2. win[w].text = <<>>
    BY <1>9 DEF WindowRuns
  <2> HIDE DEF p
  <2> QED
    BY <1>10, <2>1, <2>2 DEF WindowRuns
<1>12. WindowRuns(win'[id], m, r)
  <2>1. /\ win'[id].cohorts = q /\ win'[id].text = <<>>
        /\ win'[id].text_post = win[w].text_post
        /\ win'[id].flush_after = win[w].flush_after
    BY DEF SameItems, Tailing, FreshWindow
  <2>2. /\ win[w].text_post = <<>>
        /\ IF win[w].flush_after = 0 THEN r = CohortsEnd(cs, b)
           ELSE win[w].flush_after = r /\ r = CohortsEnd(cs, b) + 1
    BY <1>9 DEF WindowRuns
  <2> HIDE DEF q, cs, id
  <2> QED
    BY <1>10, <2>1, <2>2 DEF WindowRuns
<1> HIDE DEF p, q, cs
<1>13. /\ Along(Document', win', v, a)
       /\ AlongEnd(Document', v, a) = AlongEnd(d, u, a)
  <2> DEFINE f == win
             g == win'
             e == Document'
  <2>1. /\ d \in Seq(Handle) /\ Inserts(d, e, at, id)
        /\ Along(d, f, u, a)
        /\ \A i \in 1 .. Len(d) :
              i # at => SameItems(g[d[i]], f[d[i]]) /\ v[d[i]] = u[d[i]]
        /\ WindowRuns(g[d[at]], ValueBefore(d, u, a, at), v[d[at]])
        /\ WindowRuns(g[id], v[d[at]], v[id]) /\ v[id] = u[d[at]]
    BY <1>1, <1>2, <1>6, <1>7, <1>8, <1>11, <1>12 DEF Told, b
  <2> HIDE DEF d, a, f, g, e, id
  <2>2. Cut(d, e, at, id, f, g, u, v, a)
    BY <2>1, LenProperties DEF Cut
  <2>3. Along(e, g, v, a) /\ AlongEnd(e, v, a) = AlongEnd(d, u, a)
    BY <2>2, AlongInsert
  <2> QED
    BY <2>3 DEF g, e
<1>14. PICK e : e = AlongEnd(d, u, a)
  OBVIOUS
<1>15. Told(v)'
  <2>1. InHand(e)'
    BY <1>1, <1>14 DEF Told, InHand
  <2>2. Along(Document', win', v, Len(out')) /\ AlongEnd(Document', v, Len(out')) = e
    BY <1>13, <1>14
  <2> HIDE DEF d, a
  <2> QED
    BY <2>1, <2>2 DEF Told
<1> QED
  BY <1>15 DEF Held

\* The first window is written and freed.
LEMMA HeldPrinted ==
  ASSUME TypeInv, OutRun, Held, previous # <<>>, FreeFirst,
         out' = out \o WindowOutput(win[Head(previous)]),
         UNCHANGED <<received, c_cohort, bare_flush>>
  PROVE  /\ OutRun' /\ Held'
         /\ \E n \in Len(out) .. received : out' = Run(0, n)
<1> DEFINE d == Document
           a == Len(out)
           w == Head(previous)
<1>1. PICK u \in [Handle -> Nat] : Told(u)
  BY DEF Held
<1>2. /\ d \in Seq(Handle) /\ d # <<>> /\ d[1] = w /\ 1 \in 1 .. Len(d)
      /\ IsInjective(d) /\ ToSet(d) = DOMAIN win
      /\ Document' = Tail(d) /\ w \in DOMAIN win
      /\ \A i \in 1 .. Len(d) :
           d[i] \in DOMAIN win /\ win[d[i]] \in Window /\ u[d[i]] \in Nat
  <2>1. /\ d # <<>> /\ d[1] = w /\ 1 \in 1 .. Len(d) /\ Document' = Tail(d)
    BY FreePlaces DEF FreeFirst, TypeInv
  <2> QED
    BY <2>1, WindowsTyped
<1>3. \A i \in 2 .. Len(d) : SameItems(win'[d[i]], win[d[i]])
  <2> SUFFICES ASSUME NEW i \in 2 .. Len(d)
               PROVE  SameItems(win'[d[i]], win[d[i]])
    OBVIOUS
  <2> DEFINE x == d[i]
             l == win[w].nxt
             t == win[w].prv
  <2>1. i \in 1 .. Len(d) /\ i # 1 /\ DOMAIN d = 1 .. Len(d)
    BY <1>2
  <2>2. x \in DOMAIN win /\ x # w /\ win[x] \in Window
    BY <1>2, <2>1 DEF IsInjective
  <2> HIDE DEF x
  <2>3. win'[x] = IF x = l THEN [win[x] EXCEPT !.prv = t]
                  ELSE IF x = t THEN [win[x] EXCEPT !.nxt = l] ELSE win[x]
    BY <2>2 DEF FreeFirst
  <2> HIDE DEF l, t
  <2>4. SameItems(win'[x], win[x])
    BY <2>2, <2>3 DEF SameItems, Window
  <2> QED
    BY <2>4 DEF x
<1>4. a \in Nat /\ out = Run(0, a) /\ received \in Nat
  BY LenProperties DEF OutRun, TypeInv, DriverTyped
<1>5. PICK r \in Nat : r = u[d[1]]
  BY <1>2
<1>6. PICK e \in Nat : e = AlongEnd(d, u, a) /\ e <= received
  BY <1>1, <1>4, HandTyped
<1>7. /\ WindowRuns(win[w], a, r) /\ Along(Tail(d), win', u, r)
      /\ AlongEnd(Tail(d), u, r) = e
  <2> DEFINE f == win
             g == win'
  <2>1. /\ d \in Seq(Handle) /\ d # <<>> /\ Along(d, f, u, a)
        /\ \A i \in 2 .. Len(d) : SameItems(g[d[i]], f[d[i]])
    BY <1>1, <1>2, <1>3 DEF Told
  <2> HIDE DEF d, a, f, g
  <2>2. /\ WindowRuns(f[d[1]], a, u[d[1]])
        /\ Along(Tail(d), g, u, u[d[1]])
        /\ AlongEnd(Tail(d), u, u[d[1]]) = AlongEnd(d, u, a)
    BY <2>1, AlongTail, SMTT(60)
  <2> QED
    BY <1>2, <1>5, <1>6, <2>2 DEF f, g
<1>8. WindowOutput(win[w]) = Run(a, r) /\ a <= r
  <2>1. win[w] \in Window
    BY <1>2
  <2> HIDE DEF w, a
  <2> QED
    BY <1>4, <1>7, <2>1, WindowOutputRun
<1>9. out' = Run(0, r) /\ Len(out') = r /\ out' \in Seq(Nat)
  <2>1. out' = Run(0, a) \o Run(a, r)
    BY <1>4, <1>8
  <2> HIDE DEF a, w
  <2>2. 0 \in Nat /\ a \in Nat /\ r \in Nat /\ 0 <= a /\ a <= r
    BY <1>4, <1>8
  <2>3. Run(0, a) \o Run(a, r) = Run(0, r)
    BY <2>2, RunConcat
  <2>4. 0 <= r /\ r - 0 = r
    OBVIOUS
  <2>5. Run(0, r) \in Seq(Nat) /\ Len(Run(0, r)) = r - 0
    BY <2>4, RunSeq
  <2> QED
    BY <2>1, <2>3, <2>4, <2>5
<1>10. r <= e
  <2> DEFINE t == Tail(d)
  <2>1. /\ t \in Seq(Handle) /\ Len(t) \in Nat
        /\ \A i \in 1 .. Len(t) : t[i] = d[i + 1] /\ i + 1 \in 2 .. Len(d)
    BY <1>2, HeadTailProperties
  <2> DEFINE f == [x \in DOMAIN win |-> win[x]]
  <2>2. Along(t, f, u, r) /\ \A i \in 1 .. Len(t) : f[t[i]] \in Window /\ u[t[i]] \in Nat
    <3>1. \A i \in 1 .. Len(t) : SameItems(f[t[i]], win'[t[i]])
      <4> SUFFICES ASSUME NEW i \in 1 .. Len(t)
                   PROVE  SameItems(f[t[i]], win'[t[i]])
        OBVIOUS
      <4>1. t[i] = d[i + 1] /\ i + 1 \in 2 .. Len(d) /\ i + 1 \in 1 .. Len(d)
        BY <2>1
      <4>2. SameItems(win'[d[i + 1]], win[d[i + 1]]) /\ d[i + 1] \in DOMAIN win
        BY <1>2, <1>3, <4>1
      <4> QED
        BY <4>1, <4>2 DEF SameItems
    <3>2. \A i \in 1 .. Len(t) : f[t[i]] \in Window /\ u[t[i]] \in Nat
      <4>1. \A i \in 1 .. Len(t) : i + 1 \in 1 .. Len(d)
        BY <2>1
      <4> HIDE DEF t
      <4> QED
        BY <1>2, <2>1, <4>1
    <3> HIDE DEF f
    <3>3. Along(t, f, u, r)
      BY <1>7, <3>1, AlongKept
    <3> QED
      BY <3>2, <3>3
  <2> HIDE DEF f
  <2>3. r <= AlongEnd(t, u, r)
    BY <1>4, <2>1, <2>2, AlongRises
  <2> QED
    BY <1>7, <2>3
<1>11. Told(u)'
  <2>1. InHand(e)'
    BY <1>1, <1>6 DEF Told, InHand
  <2>2. Along(Document', win', u, Len(out')) /\ AlongEnd(Document', u, Len(out')) = e
    BY <1>2, <1>7, <1>9
  <2> HIDE DEF d, a
  <2> QED
    BY <2>1, <2>2 DEF Told
<1>12. OutRun' /\ Held'
  BY <1>9, <1>11 DEF OutRun, Held
<1>13. r \in a .. received
  BY <1>4, <1>6, <1>8, <1>10
<1> QED
  BY <1>9, <1>12, <1>13

-----------------------------------------------------------------------------
(* The invariant, step by step.                                               *)

\* A step that moves no item and starts no new line.
LEMMA QuietEcho ==
  ASSUME TypeInv, EchoInv, Document' = Document, DOMAIN win' = DOMAIN win,
         \A x \in DOMAIN win : SameItems(win'[x], win[x]),
         UNCHANGED <<out, received, c_cohort, bare_flush>>,
         ~Draining' => ~Draining,
         bare_flush => pc' \in {"flush", "flushprint"},
         pc' \in {"lookback", "soft", "hard", "open"} /\ c_swindow' = NoWin
           => c_cohort = NoCohort
  PROVE  EchoInv'
<1>1. Held'
  BY HeldKept DEF EchoInv
<1>2. OutRun'
  BY DEF EchoInv, OutRun
<1>3. Marked'
  <2>1. \A x \in DOMAIN win : win'[x].flush_after = win[x].flush_after
    BY DEF SameItems
  <2> QED
    BY <2>1 DEF EchoInv, Marked
<1> QED
  BY <1>1, <1>2, <1>3 DEF EchoInv

LEMMA StillEcho ==
  ASSUME TypeInv, EchoInv, UNCHANGED <<stream, out, received, c_cohort, bare_flush>>,
         ~Draining' => ~Draining,
         bare_flush => pc' \in {"flush", "flushprint"},
         pc' \in {"lookback", "soft", "hard", "open"} /\ c_swindow' = NoWin
           => c_cohort = NoCohort
  PROVE  EchoInv'
<1>1. Document' = Document /\ win' = win
  BY DEF stream, Document, Running
<1>2. \A x \in DOMAIN win : SameItems(win'[x], win[x])
  BY <1>1 DEF SameItems
<1> QED
  BY <1>1, <1>2, QuietEcho

\* The cohort in hand joins its window.
LEMMA JoinEcho ==
  ASSUME TypeInv, HandleInv, EchoInv, ~Draining,
         c_cohort # NoCohort, c_swindow # NoWin,
         UNCHANGED <<previous, current, next, out>>,
         c_cohort' = NoCohort, bare_flush' = FALSE,
         NEW m \in {0, received + 1}, received' = IF m = 0 THEN received ELSE m,
         NEW f \in [DOMAIN win -> Window'], win' = Appended(f, c_swindow),
         \A x \in DOMAIN win :
           /\ f[x].cohorts = win[x].cohorts /\ f[x].text = win[x].text
           /\ f[x].text_post = win[x].text_post
           /\ f[x].flush_after = IF x = c_swindow THEN m ELSE win[x].flush_after,
         m = 0 \/ Draining'
  PROVE  EchoInv'
<1> DEFINE w == c_swindow
<1>1. w \in DOMAIN win
  BY FilledIsLive DEF TypeInv, Live
<1>2. DOMAIN win' = DOMAIN win /\ \A x \in DOMAIN win \ {w} : win'[x] = f[x]
  BY DEF Appended
<1>3. /\ win'[w].cohorts = Append(win[w].cohorts, c_cohort)
      /\ win'[w].text = win[w].text /\ win'[w].text_post = win[w].text_post
      /\ win'[w].flush_after = m
  <2>1. win'[w] = [f[w] EXCEPT !.cohorts = Append(f[w].cohorts, c_cohort)]
    BY <1>1 DEF Appended
  <2>2. f[w] \in Window'
    BY <1>1
  <2> HIDE DEF w
  <2> QED
    BY <1>1, <2>1, <2>2 DEF Window, w
<1>4. \A x \in DOMAIN win \ {w} : SameItems(win'[x], win[x])
  BY <1>2 DEF SameItems
<1>5. win[w].flush_after = 0
  BY <1>1 DEF EchoInv, Marked
<1>6. Held'
  BY <1>3, <1>4, <1>5, HeldJoined DEF EchoInv
<1>7. OutRun'
  BY DEF EchoInv, OutRun
<1>8. Marked'
  <2>1. ~Draining' => \A x \in DOMAIN win' : win'[x].flush_after = 0
    <3> SUFFICES ASSUME ~Draining', NEW x \in DOMAIN win
                 PROVE  win'[x].flush_after = 0
      BY <1>2
    <3>1. m = 0 /\ win[x].flush_after = 0
      BY DEF EchoInv, Marked
    <3> QED
      BY <1>2, <1>3, <3>1
  <2> QED
    BY <2>1 DEF Marked
<1> QED
  BY <1>6, <1>7, <1>8 DEF EchoInv

\* A window is opened at the end of the document.
LEMMA OpenEcho ==
  ASSUME TypeInv, EchoInv, ~Draining, NEW rec \in Window, AllocAppend(rec),
         SameItems(rec, FreshWindow), UNCHANGED <<out, received, c_cohort, bare_flush>>,
         c_swindow' # NoWin
  PROVE  EchoInv'
<1>1. Held' /\ OutRun'
  BY HeldOpened DEF EchoInv, OutRun
<1>2. Marked'
  <2> DEFINE id == window_counter + 1
  <2> DEFINE linked == IF next = <<>> THEN win ELSE [win EXCEPT ![Last(next)].nxt = id]
             new == [rec EXCEPT !.prv = IF next = <<>> THEN NoWin ELSE Last(next)]
  <2>1. DOMAIN win' = DOMAIN win \cup {id} /\ id \notin DOMAIN win
    <3>1. id \notin DOMAIN win
      BY FreshHandle DEF TypeInv
    <3>2. DOMAIN linked = DOMAIN win
      <4>1. DOMAIN [win EXCEPT ![Last(next)].nxt = id] = DOMAIN win
        OBVIOUS
      <4> QED
        BY <4>1
    <3>3. win' = Extended(linked, id, new)
      BY DEF AllocAppend
    <3> HIDE DEF linked, new, id
    <3>4. DOMAIN Extended(linked, id, new) = DOMAIN linked \cup {id}
      BY ExtendedDomain
    <3> QED
      BY <3>1, <3>2, <3>3, <3>4
  <2> HIDE DEF linked, new
  <2>2. ASSUME NEW x \in DOMAIN win'
        PROVE  win'[x].flush_after = 0
    <3>1. CASE x = id
      <4>1. win'[x] = [rec EXCEPT !.prv = IF next = <<>> THEN NoWin ELSE Last(next)]
        BY <3>1 DEF AllocAppend, Extended
      <4>2. rec.flush_after = 0
        BY DEF SameItems, FreshWindow
      <4> QED
        BY <4>1, <4>2 DEF Window
    <3>2. CASE x \in DOMAIN win
      <4>1. win[x] \in Window /\ win[x].flush_after = 0
        BY <3>2 DEF TypeInv, WinTyped, EchoInv, Marked
      <4>2. win'[x] = win[x] \/ win'[x] = [win[x] EXCEPT !.nxt = id]
        BY <2>1, <3>2 DEF AllocAppend, Extended
      <4> QED
        BY <4>1, <4>2 DEF Window
    <3> QED
      BY <2>1, <3>1, <3>2
  <2>3. ~bare_flush'
    BY DEF EchoInv, Marked
  <2> QED
    BY <2>2, <2>3 DEF Marked
<1> QED
  BY <1>1, <1>2 DEF EchoInv

\* What a cut does to the items of the windows.
CutItems(w, k) ==
  /\ DOMAIN win' = DOMAIN win \cup {window_counter + 1}
  /\ SameItems(win'[w], Truncated(w, k))
  /\ SameItems(win'[window_counter + 1], Tailing(w, k))
  /\ \A x \in DOMAIN win \ {w} : SameItems(win'[x], win[x])

\* delimit_at on the running window.
LEMMA DelimitCurrentItems ==
  ASSUME TypeInv, current # NoWin, NEW k \in 1 .. Len(win[current].cohorts),
         DelimitCurrent(k)
  PROVE  CutItems(current, k)
<1> DEFINE id == window_counter + 1
           front == IF next = <<>> THEN NoWin ELSE Head(next)
           head == Truncated(current, k)
           tail == Tailing(current, k)
           cut == [win EXCEPT ![current] = [head EXCEPT !.nxt = id]]
           linked == IF next = <<>> THEN cut
                     ELSE [cut EXCEPT ![front] = [cut[front] EXCEPT !.prv = id]]
           new == [tail EXCEPT !.prv = current, !.nxt = front]
<1>1. win' = Extended(linked, id, new)
  BY DEF DelimitCurrent
<1>2. current \in DOMAIN win /\ id \notin DOMAIN win
  BY FreshHandle DEF TypeInv, StreamInv
<1>3. head \in Window /\ tail \in Window
  BY <1>2, HalvesTyped
<1> HIDE DEF head, tail
<1>4. /\ DOMAIN cut = DOMAIN win /\ cut[current] = [head EXCEPT !.nxt = id]
      /\ \A x \in DOMAIN win : x # current => cut[x] = win[x]
  BY <1>2
<1>5. \A x \in DOMAIN win : win[x] \in Window
  BY DEF TypeInv, WinTyped
<1> HIDE DEF cut
<1>6. /\ DOMAIN linked = DOMAIN cut
      /\ \A x \in DOMAIN cut :
           linked[x] = cut[x] \/ linked[x] = [cut[x] EXCEPT !.prv = id]
  OBVIOUS
<1>7. SameItems(new, tail)
  BY <1>3 DEF SameItems, Window
<1> HIDE DEF front, linked, new
<1>8. DOMAIN win' = DOMAIN win \cup {id} /\ win'[id] = new
  BY <1>1, <1>4, <1>6, ExtendedDomain DEF Extended
<1>9. \A x \in DOMAIN win : win'[x] = linked[x]
  BY <1>1, <1>2, <1>4, <1>6 DEF Extended
<1>10. SameItems(win'[current], head)
  <2>1. \/ win'[current] = [head EXCEPT !.nxt = id]
        \/ win'[current] = [[head EXCEPT !.nxt = id] EXCEPT !.prv = id]
    BY <1>2, <1>4, <1>6, <1>9
  <2> HIDE DEF id
  <2> QED
    BY <1>3, <2>1 DEF SameItems, Window
<1>11. ASSUME NEW x \in DOMAIN win \ {current}
       PROVE  SameItems(win'[x], win[x])
  <2>1. win'[x] = win[x] \/ win'[x] = [win[x] EXCEPT !.prv = id]
    BY <1>4, <1>6, <1>9
  <2>2. win[x] \in Window
    BY <1>5
  <2> HIDE DEF id
  <2> QED
    BY <2>1, <2>2 DEF SameItems, Window
<1> QED
  BY <1>7, <1>8, <1>10, <1>11 DEF CutItems, head, tail

\* delimit_at on the window being filled: all links are rebuilt.
LEMMA DelimitNextItems ==
  ASSUME TypeInv, NEW w \in DOMAIN win, NEW k \in 1 .. Len(win[w].cohorts),
         DelimitNext(w, k)
  PROVE  CutItems(w, k)
<1> DEFINE id == window_counter + 1
           head == Truncated(w, k)
           tail == Tailing(w, k)
           cut == [win EXCEPT ![w] = head]
           f == Extended(cut, id, tail)
<1>1. PICK order : win' = Relinked(f, order)
  BY DEF DelimitNext
<1>2. id \notin DOMAIN win
  BY FreshHandle DEF TypeInv
<1>3. head \in Window /\ tail \in Window /\ \A x \in DOMAIN win : win[x] \in Window
  BY HalvesTyped DEF TypeInv, WinTyped
<1> HIDE DEF head, tail
<1>4. /\ DOMAIN f = DOMAIN win \cup {id} /\ f[w] = head /\ f[id] = tail
      /\ \A x \in DOMAIN win \ {w} : f[x] = win[x]
  BY <1>2 DEF Extended
<1> HIDE DEF f
<1>5. ASSUME NEW x \in DOMAIN f, f[x] \in Window
      PROVE  SameItems(win'[x], f[x])
  <2>1. CASE \E i \in DOMAIN order : order[i] = x
    <3>1. PICK p, n : Relinked(f, order)[x] = [f[x] EXCEPT !.prv = p, !.nxt = n]
      BY <2>1 DEF Relinked
    <3> QED
      BY <1>1, <1>5, <3>1 DEF SameItems, Window
  <2>2. CASE ~ \E i \in DOMAIN order : order[i] = x
    BY <1>1, <2>2 DEF Relinked, SameItems
  <2> QED
    BY <2>1, <2>2
<1>6. DOMAIN win' = DOMAIN f
  BY <1>1, RelinkedDomain
<1>7. SameItems(win'[w], head) /\ SameItems(win'[id], tail)
  BY <1>3, <1>4, <1>5
<1>8. \A x \in DOMAIN win \ {w} : SameItems(win'[x], win[x])
  BY <1>3, <1>4, <1>5
<1> QED
  BY <1>4, <1>6, <1>7, <1>8 DEF CutItems, head, tail

\* A window is cut in two.
LEMMA CutEcho ==
  ASSUME TypeInv, StreamInv', EchoInv, NEW at,
         Inserts(Document, Document', at, window_counter + 1),
         NEW w, Document[at] = w, NEW k \in 1 .. Len(win[w].cohorts), CutItems(w, k),
         UNCHANGED <<out, received, c_cohort, bare_flush>>, ~Draining' => ~Draining,
         pc' \in {"lookback", "soft", "hard", "open"} /\ c_swindow' = NoWin
           => c_cohort = NoCohort
  PROVE  EchoInv'
<1>1. Held' /\ OutRun'
  <2>1. Held
    BY DEF EchoInv
  <2>2. /\ SameItems(win'[w], Truncated(w, k))
        /\ SameItems(win'[window_counter + 1], Tailing(w, k))
        /\ \A x \in DOMAIN win \ {w} : SameItems(win'[x], win[x])
    BY DEF CutItems
  <2> QED
    BY <2>1, <2>2, HeldCut DEF EchoInv, OutRun
<1>2. Marked'
  <2>1. at \in 1 .. Len(Document) /\ w \in DOMAIN win /\ win[w] \in Window
    BY WindowsTyped DEF Inserts
  <2>2. ~bare_flush
    BY <2>1 DEF EchoInv, Marked
  <2>3. /\ win'[w].flush_after = 0
        /\ win'[window_counter + 1].flush_after = win[w].flush_after
        /\ \A x \in DOMAIN win \ {w} : win'[x].flush_after = win[x].flush_after
    BY <2>1 DEF CutItems, SameItems, Truncated, Tailing, FreshWindow, Window
  <2>4. ASSUME ~Draining', NEW x \in DOMAIN win'
        PROVE  win'[x].flush_after = 0
    <3>1. \A y \in DOMAIN win : win[y].flush_after = 0
      BY <2>4 DEF EchoInv, Marked
    <3>2. x \in DOMAIN win \cup {window_counter + 1}
      BY DEF CutItems
    <3> QED
      BY <2>1, <2>3, <3>1, <3>2
  <2> QED
    BY <2>2, <2>4 DEF Marked
<1> QED
  BY <1>1, <1>2 DEF EchoInv

\* The first window is written.
LEMMA PrintEcho ==
  ASSUME TypeInv, EchoInv, previous # <<>>, FreeFirst,
         out' = out \o WindowOutput(win[Head(previous)]),
         UNCHANGED <<pc, caller, received, c_cohort, bare_flush, c_swindow>>
  PROVE  EchoInv' /\ \E n \in Len(out) .. received : out' = Run(0, n)
<1>1. OutRun' /\ Held' /\ \E n \in Len(out) .. received : out' = Run(0, n)
  BY HeldPrinted DEF EchoInv
<1>2. Marked'
  <2>1. ~bare_flush
    BY FreePlaces DEF FreeFirst, TypeInv, EchoInv, Marked
  <2>2. ASSUME NEW x \in DOMAIN win'
        PROVE  x \in DOMAIN win /\ win'[x].flush_after = win[x].flush_after
    <3> DEFINE w == Head(previous)
               p == win[w].prv
               n == win[w].nxt
               others == [y \in DOMAIN win \ {w} |-> win[y]]
    <3>1. win' = [y \in DOMAIN others |->
                    IF y = n THEN [others[y] EXCEPT !.prv = p]
                    ELSE IF y = p THEN [others[y] EXCEPT !.nxt = n]
                    ELSE others[y]]
      BY DEF FreeFirst
    <3>2. x \in DOMAIN win \ {w} /\ others[x] = win[x]
      BY <3>1
    <3>3. win[x] \in Window
      BY <3>2 DEF TypeInv, WinTyped
    <3> HIDE DEF w, p, n, others
    <3>4. \/ win'[x] = win[x] \/ win'[x] = [win[x] EXCEPT !.prv = p]
          \/ win'[x] = [win[x] EXCEPT !.nxt = n]
      BY <3>1, <3>2
    <3> QED
      BY <3>2, <3>3, <3>4 DEF Window
  <2> QED
    BY <2>1, <2>2 DEF Marked, EchoInv, Draining
<1> QED
  BY <1>1, <1>2 DEF EchoInv

\* One more item at the end of a run.
LEMMA RunGrows ==
  ASSUME NEW a \in Nat, NEW b \in Nat, a <= b
  PROVE  Append(Run(a, b), b + 1) = Run(a, b + 1)
<1> DEFINE p == Run(a, b)
<1>1. p \in Seq(Nat) /\ b + 1 \in Nat /\ b <= b + 1
  BY RunSeq
<1>2. p \o Run(b, b + 1) = Run(a, b + 1)
  BY <1>1, RunConcat
<1>3. Run(b, b + 1) = <<b + 1>>
  BY RunOne
<1> HIDE DEF p
<1>4. Append(p, b + 1) = p \o <<b + 1>>
  BY <1>1, AppendIsConcat
<1> QED
  BY <1>2, <1>3, <1>4 DEF p

\* When no window is left, all that was read is written, but for a FLUSH that
\* found no window.
LEMMA HeldEmpty ==
  ASSUME Held, Document = <<>>, c_cohort = NoCohort
  PROVE  received = IF bare_flush THEN Len(out) + 1 ELSE Len(out)
<1>1. PICK u \in [Handle -> Nat] : Told(u)
  BY DEF Held
<1>2. AlongEnd(Document, u, Len(out)) = Len(out)
  BY DEF AlongEnd, ValueBefore
<1> QED
  BY <1>1, <1>2 DEF Told, InHand

LEMMA EmptyHeld ==
  ASSUME Document' = <<>>, c_cohort' = NoCohort,
         received' = IF bare_flush' THEN Len(out)' + 1 ELSE Len(out)'
  PROVE  Held'
<1> DEFINE u == [x \in Handle |-> 0]
<1>1. u \in [Handle -> Nat]
  OBVIOUS
<1> HIDE DEF u
<1>2. AlongEnd(<<>>, u, Len(out')) = Len(out') /\ Along(<<>>, win', u, Len(out'))
  BY DEF AlongEnd, ValueBefore, Along
<1>3. PICK e : e = Len(out')
  OBVIOUS
<1>4. InHand(e)'
  BY <1>3 DEF InHand
<1>5. /\ Along(Document', win', u, Len(out'))
      /\ AlongEnd(Document', u, Len(out')) = e
  BY <1>2, <1>3
<1>6. Told(u)'
  BY <1>4, <1>5 DEF Told
<1> QED
  BY <1>1, <1>6 DEF Held

\* What is in hand goes on: a text line joins the read cohort, or a cohort is
\* read.
LEMMA HeldGrows ==
  ASSUME TypeInv, Held, Document' = Document,
         \A x \in DOMAIN win : SameItems(win'[x], win[x]), UNCHANGED out,
         \A e \in Nat : InHand(e) => InHand(e)', OutRun
  PROVE  Held'
<1>1. PICK u \in [Handle -> Nat] : Told(u)
  BY DEF Held
<1>2. Along(Document, win', u, Len(out))
  <2>1. \A i \in 1 .. Len(Document) : SameItems(win'[Document[i]], win[Document[i]])
    BY WindowsTyped
  <2> QED
    BY <1>1, <2>1, AlongKept DEF Told
<1>3. PICK e \in Nat : e = AlongEnd(Document, u, Len(out))
  BY <1>1, HandTyped, LenProperties DEF OutRun
<1>4. InHand(e)'
  BY <1>1, <1>3 DEF Told
<1>5. /\ Along(Document', win', u, Len(out'))
      /\ AlongEnd(Document', u, Len(out')) = e
  BY <1>2, <1>3
<1>6. Told(u)'
  BY <1>4, <1>5 DEF Told
<1> QED
  BY <1>6 DEF Held

-----------------------------------------------------------------------------
(* The steps of EchoStream.                                                   *)

EchoStep == [Echo!Next]_(Echo!echo)

\* A step that neither reads nor writes.
LEMMA StutterStep ==
  ASSUME UNCHANGED <<received, out>>, Serving' <=> Serving,
         pc # "done", pc' # "done"
  PROVE  EchoStep
<1>1. Serving' = Serving /\ (pc' = "done") = (pc = "done")
  BY Zenon DEF Serving
<1> QED
  BY <1>1 DEF EchoStep, Echo!echo

LEMMA ReceiveStep ==
  ASSUME pc # "done", pc' # "done", ~Serving, received' = received + 1,
         out' \in {out, Run(0, received')}, received \in Nat
  PROVE  EchoStep
<1>1. Serving' \in BOOLEAN
  BY DEF Serving
<1>2. (pc' = "done") = (pc = "done")
  OBVIOUS
<1>3. out' \in {out, Echo!Upto(received')}
  BY DEF Echo!Upto, Run
<1>4. Echo!Receive
  BY <1>1, <1>2, <1>3 DEF Echo!Receive
<1> QED
  BY <1>4 DEF EchoStep, Echo!Next

LEMMA EmitStep ==
  ASSUME pc # "done", pc' # "done", Serving' <=> Serving, UNCHANGED received,
         received \in Nat, out \in Seq(Nat),
         \E n \in Len(out) .. received : out' = Run(0, n)
  PROVE  EchoStep
<1>1. Serving' = Serving /\ (pc' = "done") = (pc = "done")
  BY Zenon DEF Serving
<1>2. PICK n \in Len(out) .. received : out' = Run(0, n)
  OBVIOUS
<1>3. Run(0, n) = Echo!Upto(n)
  BY LenProperties DEF Echo!Upto, Run
<1>4. Echo!Emit
  BY <1>1, <1>2, <1>3 DEF Echo!Emit
<1> QED
  BY <1>4 DEF EchoStep, Echo!Next

-----------------------------------------------------------------------------
(* What a line that is read does.                                             *)

\* Between two lines nothing is drained; a window is being filled, and is the
\* last of the document, exactly when a cohort is in hand; without one the
\* document is empty.
LEMMA BetweenLines ==
  ASSUME TypeInv, HandleInv, HoldInv, FillInv, EchoInv, pc = "read"
  PROVE  /\ ~Draining /\ ~Serving /\ ~bare_flush
         /\ c_cohort = NoCohort =>
              c_swindow = NoWin /\ l_swindow = NoWin /\ Document = <<>> /\ Back = NoWin
         /\ c_cohort # NoCohort => c_swindow # NoWin /\ Back = c_swindow
<1>1. ~Draining /\ ~Serving /\ ~bare_flush
  BY DEF Draining, Serving, EchoInv, Marked
<1>2. ASSUME c_cohort = NoCohort
      PROVE  c_swindow = NoWin /\ l_swindow = NoWin /\ Document = <<>> /\ Back = NoWin
  <2>1. c_swindow = NoWin /\ l_swindow = NoWin
    BY <1>2 DEF HandleInv
  <2>2. next = <<>> /\ previous = <<>> /\ current = NoWin
    BY <2>1 DEF HoldInv, FillInv, Filling
  <2> QED
    BY <2>1, <2>2 DEF Document, Running, Back
<1>3. ASSUME c_cohort # NoCohort
      PROVE  c_swindow # NoWin /\ Back = c_swindow
  BY <1>3 DEF HandleInv, Back
<1> QED
  BY <1>1, <1>2, <1>3

\* A text line goes with the read cohort, or straight to the output.
LEMMA TextEcho ==
  ASSUME TypeInv, HandleInv, HoldInv, FillInv, EchoInv, TextLine
  PROVE  EchoInv' /\ EchoStep
<1>0. /\ pc = "read" /\ pc' = "read" /\ received' = received + 1
      /\ UNCHANGED <<previous, current, next, c_swindow, bare_flush, caller>>
      /\ received \in Nat /\ c_cohort \in Cohort \cup {NoCohort}
      /\ OutRun /\ Held
  BY DEF TextLine, NextItem, AttachText, TypeInv, DriverTyped, EchoInv
<1>1. ~Draining /\ ~Draining' /\ ~Serving /\ ~bare_flush /\ Document' = Document
  BY <1>0, BetweenLines DEF Draining, Document, Running
<1>2. CASE c_cohort # NoCohort
  <2>1. /\ c_cohort' = [c_cohort EXCEPT !.text = Append(@, received')]
        /\ UNCHANGED <<win, out>>
    BY <1>2 DEF TextLine, AttachText
  <2>2. ASSUME NEW e \in Nat, InHand(e)
        PROVE  InHand(e)'
    <3> DEFINE t == c_cohort.text
               i == c_cohort.id
    <3>1. /\ t \in Seq(Items) /\ i \in Nat /\ Len(t) \in Nat
          /\ c_cohort'.id = i /\ c_cohort'.text = Append(t, received + 1)
      BY <1>0, <1>2, <2>1, LenProperties DEF Cohort, Items
    <3>2. i = e + 1 /\ t = Run(i, received) /\ i + Len(t) = received
      BY <1>2, <2>2 DEF InHand, CohortRuns, CohortEnd
    <3>3. c_cohort' # NoCohort
      BY <3>1, <3>2 DEF NoCohort
    <3> HIDE DEF t, i
    <3>4. Append(t, received + 1) = Run(i, received + 1)
      <4>1. i <= received
        BY <3>1, <3>2
      <4> QED
        BY <1>0, <3>1, <3>2, <4>1, RunGrows
    <3>5. i + Len(Append(t, received + 1)) = received + 1
      <4>1. Len(Append(t, received + 1)) = Len(t) + 1
        BY <3>1, AppendProperties, <1>0
      <4> QED
        BY <3>1, <3>2, <4>1, <1>0
    <3>6. CohortEnd(c_cohort') = received' /\ CohortRuns(c_cohort', e)
      BY <1>0, <3>1, <3>2, <3>4, <3>5 DEF CohortEnd, CohortRuns
    <3> QED
      BY <3>3, <3>6 DEF InHand
  <2>3. Held'
    <3>1. \A x \in DOMAIN win : SameItems(win'[x], win[x])
      BY <2>1 DEF SameItems
    <3> QED
      BY <1>0, <1>1, <2>1, <2>2, <3>1, HeldGrows
  <2>4. OutRun' /\ Marked'
    BY <1>0, <1>1, <2>1 DEF EchoInv, OutRun, Marked
  <2>5. EchoStep
    BY <1>0, <1>1, <2>1, ReceiveStep
  <2> QED
    BY <2>3, <2>4, <2>5 DEF EchoInv
<1>3. CASE c_cohort = NoCohort
  <2>1. l_swindow = NoWin /\ Document = <<>> /\ ~Live(l_swindow)
    <3>1. l_swindow = NoWin /\ Document = <<>>
      BY <1>0, <1>3, BetweenLines
    <3> QED
      BY <3>1 DEF Live, TypeInv, StreamInv
  <2>2. out' = Append(out, received + 1) /\ UNCHANGED <<win, c_cohort>>
    BY <1>0, <1>3, <2>1 DEF TextLine, AttachText
  <2>3. received = Len(out) /\ Len(out) \in Nat /\ out = Run(0, Len(out)) /\ out \in Seq(Nat)
    BY <1>0, <1>1, <1>3, <2>1, HeldEmpty, LenProperties DEF OutRun
  <2>4. /\ out' = Run(0, received + 1) /\ out' \in Seq(Nat)
        /\ Len(out') = received + 1
    <3>1. Append(Run(0, received), received + 1) = Run(0, received + 1)
      <4>1. 0 \in Nat /\ 0 <= received /\ received \in Nat
        BY <1>0
      <4> QED
        BY <4>1, RunGrows
    <3> QED
      BY <1>0, <2>2, <2>3, <3>1, AppendProperties
  <2>5. Held'
    BY <1>0, <1>1, <1>3, <2>1, <2>2, <2>4, EmptyHeld
  <2>6. OutRun' /\ Marked'
    BY <1>0, <1>1, <1>3, <2>2, <2>4 DEF EchoInv, OutRun, Marked
  <2>7. EchoStep
    BY <1>0, <1>1, <2>4, ReceiveStep
  <2> QED
    BY <2>5, <2>6, <2>7 DEF EchoInv
<1> QED
  BY <1>2, <1>3

\* A FLUSH marks the last window, which the read cohort joins, and finds no
\* window only when the document is empty.
LEMMA FlushEcho ==
  ASSUME TypeInv, HandleInv, HoldInv, FillInv, EchoInv, FlushLine
  PROVE  EchoInv' /\ EchoStep
<1>0. /\ pc = "read" /\ pc' = "flush" /\ received' = received + 1
      /\ UNCHANGED <<previous, current, next, caller, out>>
      /\ bare_flush' = (Back = NoWin) /\ received \in Nat /\ OutRun /\ Held
  BY DEF FlushLine, FinishCohort, NextItem, Goto, TypeInv, DriverTyped, EchoInv
<1>1. ~Draining /\ Draining' /\ ~Serving /\ ~bare_flush /\ Document' = Document
  BY <1>0, BetweenLines DEF Draining, Document, Running
<1>2. EchoStep
  BY <1>0, <1>1, ReceiveStep
<1>3. CASE c_cohort = NoCohort
  <2>1. Document = <<>> /\ bare_flush' = TRUE /\ c_cohort' = NoCohort
    BY <1>0, <1>3, BetweenLines DEF FlushLine, FinishCohort
  <2>2. received = Len(out)
    BY <1>0, <1>1, <1>3, <2>1, HeldEmpty
  <2>3. Held'
    BY <1>0, <1>1, <2>1, <2>2, EmptyHeld
  <2>4. OutRun' /\ Marked'
    BY <1>0, <1>1, <2>1 DEF OutRun, Marked
  <2> QED
    BY <1>2, <2>3, <2>4 DEF EchoInv
<1>4. CASE c_cohort # NoCohort
  <2> DEFINE f == [win EXCEPT ![c_swindow] =
                     [win[c_swindow] EXCEPT !.flush_after = received + 1]]
             m == received + 1
  <2>1. c_swindow # NoWin /\ Back = c_swindow /\ c_swindow \in DOMAIN win
    BY <1>0, <1>4, BetweenLines, FilledIsLive DEF TypeInv, Live
  <2>2. win' = Appended(f, c_swindow) /\ c_cohort' = NoCohort /\ bare_flush' = FALSE
    BY <1>0, <1>4, <2>1 DEF FlushLine, FinishCohort
  <2>3. \A x \in DOMAIN win : win[x] \in Window
    BY DEF TypeInv, WinTyped
  <2>4. f \in [DOMAIN win -> Window']
    <3>1. m \in 0 .. received' /\ Window \subseteq Window'
      <4>1. received <= received' /\ window_counter' = window_counter
        BY <1>0 DEF FlushLine, FinishCohort
      <4>2. Items \subseteq Items'
        BY <1>0 DEF Items
      <4>3. Cohort \subseteq Cohort'
        BY <4>2 DEF Cohort
      <4>4. Seq(Items) \subseteq Seq(Items') /\ Seq(Cohort) \subseteq Seq(Cohort')
        BY <4>2, <4>3
      <4> QED
        BY <1>0, <4>1, <4>4 DEF Window, Deltas
    <3> HIDE DEF m
    <3>2. [win[c_swindow] EXCEPT !.flush_after = m] \in Window'
      BY <2>1, <2>3, <3>1 DEF Window
    <3> QED
      BY <2>3, <3>1, <3>2 DEF m
  <2>5. \A x \in DOMAIN win :
          /\ f[x].cohorts = win[x].cohorts /\ f[x].text = win[x].text
          /\ f[x].text_post = win[x].text_post
          /\ f[x].flush_after = IF x = c_swindow THEN m ELSE win[x].flush_after
    <3> HIDE DEF m
    <3> QED
      BY <2>3 DEF Window, m
  <2> HIDE DEF f
  <2>6. m # 0 /\ received' = IF m = 0 THEN received ELSE m
    BY <1>0
  <2> HIDE DEF m
  <2>7. m \in {0, received + 1}
    BY DEF m
  <2>8. EchoInv'
    BY <1>0, <1>1, <1>4, <2>1, <2>2, <2>4, <2>5, <2>6, <2>7, JoinEcho
  <2> QED
    BY <1>2, <2>8
<1> QED
  BY <1>3, <1>4

LEMMA ReadLineEcho ==
  ASSUME PlainStream, TypeInv, HandleInv, HoldInv, FillInv, EchoInv, ReadLine
  PROVE  EchoInv' /\ EchoStep
<1>0. pc = "read"
  BY DEF ReadLine, CohortLine, DepBreak, TextLine, DelimiterLine, SetvarLine,
         SetvarListLine, RemvarLine, FlushLine, ExitLine, EndOfFile, NextItem
<1>1. /\ ~Draining /\ ~Serving /\ ~bare_flush /\ received \in Nat
      /\ c_swindow = NoWin => c_cohort = NoCohort
  BY <1>0, BetweenLines DEF TypeInv, DriverTyped
<1>2. CASE CohortLine \/ SetvarLine \/ SetvarListLine \/ RemvarLine
  <2>1. /\ UNCHANGED <<stream, out, received, c_cohort, bare_flush, c_swindow>>
        /\ pc' \in {"lookback", "read"}
    BY <1>0, <1>2 DEF CohortLine, SetvarLine, SetvarListLine, RemvarLine, Goto
  <2>2. EchoInv'
    BY <1>1, <2>1, StillEcho
  <2>3. ~Serving'
    BY <2>1 DEF Serving
  <2> QED
    BY <1>0, <1>1, <2>1, <2>2, <2>3, StutterStep
<1>3. CASE ExitLine \/ EndOfFile
  <2>1. /\ UNCHANGED <<stream, out, received, c_cohort, bare_flush, c_swindow>>
        /\ pc' = "eof"
    BY <1>3 DEF ExitLine, EndOfFile, Goto
  <2>2. EchoInv'
    BY <1>1, <2>1, StillEcho
  <2>3. Serving' = TRUE /\ (pc' = "done") = (pc = "done")
    BY <1>0, <2>1 DEF Serving
  <2>4. EchoStep
    BY <1>0, <1>1, <2>1, <2>3 DEF EchoStep, Echo!Next, Echo!EndOfInput
  <2> QED
    BY <2>2, <2>4
<1>4. CASE DepBreak
  <2> DEFINE rec == [FreshWindow EXCEPT !.variables = pending_var]
  <2>1. /\ AllocAppend(rec) /\ c_swindow' = window_counter + 1
        /\ UNCHANGED <<pc, out, received, c_cohort, bare_flush>>
    BY <1>4 DEF DepBreak, NewSWindow
  <2>2. rec \in Window /\ window_counter + 1 # NoWin
    <3>1. rec \in Window
      BY FreshLinks DEF TypeInv, DriverTyped
    <3> QED
      BY <3>1, FreshHandle DEF TypeInv, Handle
  <2>3. SameItems(rec, FreshWindow)
    BY DEF SameItems, FreshWindow
  <2> HIDE DEF rec
  <2>4. EchoInv'
    BY <1>1, <2>1, <2>2, <2>3, OpenEcho
  <2>5. ~Serving'
    BY <1>0, <2>1 DEF Serving
  <2> QED
    BY <1>0, <1>1, <2>1, <2>4, <2>5, StutterStep
<1>5. CASE TextLine
  BY <1>5, TextEcho
<1>6. CASE FlushLine
  BY <1>6, FlushEcho
<1>7. ~DelimiterLine
  BY DEF DelimiterLine, NextItem, PlainStream
<1> QED
  BY <1>2, <1>3, <1>4, <1>5, <1>6, <1>7 DEF ReadLine

\* A window put at the end of a list follows its last.
LEMMA AppendInserts ==
  ASSUME NEW d \in Seq(Handle), NEW x \in Handle, Len(d) # 0
  PROVE  Inserts(d, Append(d, x), Len(d), x)
<1> DEFINE n == Len(d)
<1>1. n \in Nat \ {0} /\ n \in 1 .. n
  BY LenProperties
<1>2. /\ Len(Append(d, x)) = n + 1 /\ Append(d, x)[n + 1] = x
      /\ \A i \in 1 .. n : Append(d, x)[i] = d[i]
  BY AppendProperties
<1>3. \A i \in n + 1 .. n : FALSE
  BY <1>1
<1> HIDE DEF n
<1> QED
  BY <1>1, <1>2, <1>3 DEF Inserts, n

\* When the last waiting window is cut, its tail is the last one.
LEMMA CutLast ==
  ASSUME StreamInv, next # <<>>, NEW k, DelimitNext(Last(next), k)
  PROVE  /\ next' = Append(next, window_counter + 1)
         /\ UNCHANGED <<previous, current>>
<1> DEFINE id == window_counter + 1
           n == Len(next)
<1>1. PICK pos \in DOMAIN next :
        /\ next[pos] = Last(next) /\ next' = InsertAt(next, pos + 1, id)
  BY DEF DelimitNext
<1>2. next \in Seq(Handle) /\ n \in Nat \ {0} /\ IsInjective(next) /\ id \in Handle
  BY FreshHandle, EmptySeq, LenProperties DEF StreamInv
<1>3. pos = n /\ (n + 1) - 1 = n
  BY <1>1, <1>2 DEF IsInjective, Last
<1>4. SubSeq(next, 1, n) = next /\ SubSeq(next, n + 1, n) = <<>>
  BY <1>2, SubSeqFull, SubSeqEmpty
<1> HIDE DEF id
<1>5. InsertAt(next, pos + 1, id) = next \o <<id>> \o <<>>
  BY <1>3, <1>4 DEF InsertAt
<1>6. next \o <<id>> = Append(next, id) /\ Append(next, id) \in Seq(Handle)
  BY <1>2, ConcatOne, AppendProperties
<1>7. next' = Append(next, id)
  BY <1>1, <1>5, <1>6, ConcatEmptySeq
<1> QED
  BY <1>7 DEF DelimitNext, id

-----------------------------------------------------------------------------
(* What the steps of the line handler, up to a window run, do.                *)

\* A soft break in the past cuts the window being filled, the last one.
LEMMA LookbackEcho ==
  ASSUME TypeInv, HandleInv, EchoInv, StreamInv', SoftLookback,
         LookbackDue, SoftCohorts # {}
  PROVE  EchoInv'
<1>1. /\ pc = "lookback" /\ pc' = "soft" /\ c_swindow \in DOMAIN win
      /\ UNCHANGED <<out, received, c_cohort, bare_flush>>
  BY DEF SoftLookback, LookbackDue, Live, Goto
<1>2. PICK k \in SoftCohorts :
        DelimitNext(c_swindow, k) /\ c_swindow' = window_counter + 1
  BY DEF SoftLookback
<1>3. k \in 1 .. Len(win[c_swindow].cohorts)
  <2>1. win[c_swindow].cohorts \in Seq(Cohort)
    BY <1>1 DEF TypeInv, WinTyped, Window
  <2> QED
    BY <2>1, LenProperties DEF SoftCohorts
<1>4. CutItems(c_swindow, k)
  BY <1>1, <1>2, <1>3, DelimitNextItems
<1>5. /\ next # <<>> /\ c_swindow = Last(next) /\ next \in Seq(Handle)
      /\ IsInjective(next) /\ c_swindow # NoWin /\ c_swindow' # NoWin
  <2>1. c_swindow # NoWin /\ c_swindow' # NoWin
    BY <1>1, <1>2, FreshHandle DEF TypeInv, StreamInv, Handle
  <2> QED
    BY <2>1 DEF HandleInv, TypeInv, StreamInv
<1>6. /\ next' = Append(next, window_counter + 1)
      /\ UNCHANGED <<previous, current>>
  BY <1>2, <1>5, CutLast DEF TypeInv
<1> DEFINE n == Len(Document)
<1>7. n \in Nat \ {0} /\ Document[n] = c_swindow
  BY <1>5, LastPlace
<1>8. Inserts(Document, Document', n, window_counter + 1)
  <2>1. Document' = Append(Document, window_counter + 1)
    BY <1>6, AppendPlaces DEF TypeInv
  <2> QED
    BY <1>7, <2>1, WindowsTyped, AppendInserts, FreshHandle DEF TypeInv
<1>9. ~Draining /\ ~Draining'
  BY <1>1 DEF Draining
<1> HIDE DEF n
<1> QED
  BY <1>1, <1>3, <1>4, <1>5, <1>7, <1>8, <1>9, CutEcho

\* The read cohort joins the window that is being filled.
LEMMA AttachEcho ==
  ASSUME TypeInv, HandleInv, EchoInv, ~Draining,
         c_cohort # NoCohort, c_swindow # NoWin, win' = Appended(win, c_swindow),
         UNCHANGED <<previous, current, next, window_counter, out, received, bare_flush>>,
         c_cohort' = NoCohort
  PROVE  EchoInv'
<1> DEFINE m == 0
<1>1. bare_flush' = FALSE /\ \A x \in DOMAIN win : win[x].flush_after = 0
  BY DEF EchoInv, Marked, TypeInv, DriverTyped
<1>2. win \in [DOMAIN win -> Window']
  <2>1. Window' = Window
    BY DEF Window, Cohort, Items
  <2> QED
    BY <2>1 DEF TypeInv, WinTyped
<1>3. m \in {0, received + 1} /\ received' = (IF m = 0 THEN received ELSE m)
  OBVIOUS
<1>4. \A x \in DOMAIN win :
        /\ win[x].cohorts = win[x].cohorts /\ win[x].text = win[x].text
        /\ win[x].text_post = win[x].text_post
        /\ win[x].flush_after = IF x = c_swindow THEN m ELSE win[x].flush_after
  BY <1>1
<1>5. m = 0
  OBVIOUS
<1> HIDE DEF m
<1> QED
  BY <1>1, <1>2, <1>3, <1>4, <1>5, JoinEcho

\* A window whose variables are set keeps its items.
LEMMA VariablesOnly ==
  ASSUME NEW f, NEW g, NEW y, NEW v, \A x \in DOMAIN f : f[x] \in Window,
         \/ g = f
         \/ g = [f EXCEPT ![y] = [f[y] EXCEPT !.variables = v]]
  PROVE  \A x \in DOMAIN f : SameItems(g[x], f[x])
<1> SUFFICES ASSUME NEW x \in DOMAIN f PROVE SameItems(g[x], f[x])
  OBVIOUS
<1>1. CASE g[x] = f[x]
  BY <1>1 DEF SameItems
<1>2. CASE x = y /\ g = [f EXCEPT ![y] = [f[y] EXCEPT !.variables = v]]
  <2>1. f[x] \in Window /\ g[x] = [f[x] EXCEPT !.variables = v]
    BY <1>2
  <2> QED
    BY <2>1 DEF SameItems, Window
<1> QED
  BY <1>1, <1>2

\* A cohort is read.
LEMMA NewCohortEcho ==
  ASSUME TypeInv, HoldInv, EchoInv, NewCohort
  PROVE  EchoInv' /\ EchoStep
<1>1. /\ pc = "newcohort" /\ pc' = "read" /\ received' = received + 1
      /\ UNCHANGED <<previous, current, next, bare_flush, caller, out, c_swindow>>
      /\ c_cohort' = [id |-> received', kind |-> kind, text |-> <<>>]
      /\ received \in Nat /\ c_cohort = NoCohort /\ OutRun /\ Held
  BY DEF NewCohort, Goto, TypeInv, DriverTyped, EchoInv, HoldInv
<1>2. ~Draining /\ ~Draining' /\ ~Serving /\ ~bare_flush /\ Document' = Document
  BY <1>1 DEF Draining, Serving, Document, Running, EchoInv, Marked
<1>3. \A x \in DOMAIN win : SameItems(win'[x], win[x])
  <2> DEFINE vs == win[c_swindow].variables \cup pending_var
  <2>1. \/ win' = win
        \/ win' = [win EXCEPT ![c_swindow] = [win[c_swindow] EXCEPT !.variables = vs]]
    BY DEF NewCohort
  <2>2. \A x \in DOMAIN win : win[x] \in Window
    BY DEF TypeInv, WinTyped
  <2> HIDE DEF vs
  <2> QED
    BY <2>1, <2>2, VariablesOnly
<1>4. DOMAIN win' = DOMAIN win
  BY DEF NewCohort
<1>5. ASSUME NEW e \in Nat, InHand(e)
      PROVE  InHand(e)'
  <2>1. received = e /\ c_cohort' # NoCohort
    BY <1>1, <1>2, <1>5 DEF InHand, NoCohort
  <2>2. CohortEnd(c_cohort') = received' /\ c_cohort'.text = <<>>
        /\ c_cohort'.id = e + 1
    BY <1>1, <2>1 DEF CohortEnd
  <2>3. Run(received', received') = <<>>
    BY <1>1, RunOne
  <2> QED
    BY <1>1, <2>1, <2>2, <2>3 DEF InHand, CohortRuns
<1>6. Held'
  BY <1>1, <1>2, <1>3, <1>5, HeldGrows
<1>7. OutRun' /\ Marked'
  BY <1>1, <1>2, <1>3, <1>4 DEF EchoInv, OutRun, Marked, SameItems
<1>8. EchoStep
  BY <1>1, <1>2, ReceiveStep
<1> QED
  BY <1>6, <1>7, <1>8 DEF EchoInv

\* shuffle_windows_down changes no item.
LEMMA ShuffleItems ==
  ASSUME TypeInv, NEW snapshot, ShuffleDown(snapshot)
  PROVE  /\ Document' = Document /\ DOMAIN win' = DOMAIN win
         /\ \A x \in DOMAIN win : SameItems(win'[x], win[x])
<1>1. Document' = Document
  BY ShufflePlaces DEF TypeInv
<1>2. \/ win' = win
      \/ win' = [win EXCEPT ![current] = [win[current] EXCEPT !.variables = snapshot]]
  BY DEF ShuffleDown
<1>3. \A x \in DOMAIN win : win[x] \in Window
  BY DEF TypeInv, WinTyped
<1>4. DOMAIN win' = DOMAIN win
  BY <1>2
<1>5. \A x \in DOMAIN win : SameItems(win'[x], win[x])
  <2> DEFINE f == win
  <2> DEFINE g == win'
  <2>1. \/ g = f
        \/ g = [f EXCEPT ![current] = [f[current] EXCEPT !.variables = snapshot]]
    BY <1>2
  <2>2. \A x \in DOMAIN f : f[x] \in Window
    BY <1>3
  <2> HIDE DEF f, g
  <2>3. \A x \in DOMAIN f : SameItems(g[x], f[x])
    BY <2>1, <2>2, VariablesOnly
  <2> QED
    BY <2>3 DEF f, g
<1> QED
  BY <1>1, <1>4, <1>5

LEMMA GatherEcho ==
  ASSUME TypeInv, HandleInv, HoldInv, EchoInv, StreamInv',
         \/ BinaryWindow \/ SoftLookback \/ SoftBreak \/ HardBreak
         \/ OpenWindow \/ AttachCohort \/ DrainOne \/ NewCohort
  PROVE  EchoInv' /\ EchoStep
<1>0. pc \in {"lookback", "soft", "hard", "open", "attach", "drain", "newcohort"}
  BY DEF BinaryWindow, SoftLookback, SoftBreak, HardBreak, OpenWindow, AttachCohort,
         DrainOne, NewCohort, HandleInv
<1>1. ~Draining /\ ~Serving /\ ~bare_flush /\ received \in Nat
  BY <1>0 DEF Draining, Serving, EchoInv, Marked, TypeInv, DriverTyped
<1>2. ~NewCohort => EchoStep
  <2> SUFFICES ASSUME ~NewCohort
               PROVE  EchoStep
    OBVIOUS
  <2>1. /\ \/ pc' \in {"soft", "hard", "open", "attach", "drain", "newcohort"}
           \/ pc' = "run" /\ caller' = "newcohort"
        /\ UNCHANGED <<received, out>>
    <3>1. CASE SoftLookback \/ SoftBreak \/ HardBreak \/ OpenWindow \/ AttachCohort
      BY <3>1 DEF SoftLookback, SoftBreak, HardBreak, OpenWindow, AttachCohort, Goto
    <3>2. CASE DrainOne
      BY <3>2 DEF DrainOne, Goto
    <3> QED
      BY <1>0, <3>1, <3>2 DEF BinaryWindow
  <2>2. ~Serving' /\ pc' # "done"
    BY <2>1 DEF Serving
  <2> QED
    BY <1>0, <1>1, <2>1, <2>2, StutterStep
<1>3. ASSUME UNCHANGED <<stream, c_swindow, out, received, c_cohort, bare_flush>>,
             pc \in {"lookback", "soft", "hard"} \/ c_cohort = NoCohort
      PROVE  EchoInv'
  <2>1. c_swindow' = NoWin => c_cohort = NoCohort
    BY <1>3 DEF EchoInv, Marked
  <2> QED
    BY <1>1, <1>3, <2>1, StillEcho
<1>4. CASE SoftLookback
  <2>1. CASE LookbackDue /\ SoftCohorts # {}
    <3>1. EchoInv'
      BY <1>4, <2>1, LookbackEcho
    <3>2. ~NewCohort
      BY <1>4 DEF SoftLookback, NewCohort
    <3> QED
      BY <1>2, <3>1, <3>2
  <2>2. CASE ~(LookbackDue /\ SoftCohorts # {})
    <3>1. EchoInv'
      BY <1>3, <1>4, <2>2 DEF SoftLookback
    <3>2. ~NewCohort
      BY <1>4 DEF SoftLookback, NewCohort
    <3> QED
      BY <1>2, <3>1, <3>2
  <2> QED
    BY <2>1, <2>2
<1>5. CASE SoftBreak \/ HardBreak
  <2>1. ~NewCohort /\ pc \in {"soft", "hard"}
    BY <1>5 DEF SoftBreak, HardBreak, NewCohort
  <2>2. CASE CloseWindow /\ c_cohort # NoCohort
    <3>1. c_swindow # NoWin
      BY <2>1, <2>2 DEF EchoInv, Marked
    <3>2. /\ win' = Appended(win, c_swindow) /\ c_cohort' = NoCohort
          /\ UNCHANGED <<previous, current, next, window_counter, out, received, bare_flush>>
      BY <1>5, <2>2 DEF SoftBreak, HardBreak, CloseWindow
    <3>3. EchoInv'
      BY <1>1, <2>2, <3>1, <3>2, AttachEcho
    <3> QED
      BY <1>2, <2>1, <3>3
  <2>3. CASE UNCHANGED <<stream, c_swindow, c_cohort>>
    <3>1. EchoInv'
      BY <1>3, <1>5, <2>1, <2>3 DEF SoftBreak, HardBreak
    <3> QED
      BY <1>2, <2>1, <3>1
  <2> QED
    BY <1>5, <2>2, <2>3 DEF SoftBreak, HardBreak
<1>6. CASE OpenWindow
  <2>1. ~NewCohort /\ pc = "open" /\ pc' = "attach"
    BY <1>6 DEF OpenWindow, NewCohort, Goto
  <2>2. CASE c_swindow = NoWin
    <3>1. /\ AllocAppend(FreshWindow) /\ c_swindow' = window_counter + 1
          /\ UNCHANGED <<out, received, c_cohort, bare_flush>>
      BY <1>6, <2>1, <2>2 DEF OpenWindow, NewSWindow, EchoInv, Marked
    <3>2. FreshWindow \in Window /\ window_counter + 1 # NoWin
      <4>1. {} \in Deltas
        BY DEF Deltas
      <4> QED
        BY <1>1, <4>1, FreshLinks, FreshHandle DEF TypeInv, Handle
    <3>3. SameItems(FreshWindow, FreshWindow)
      BY DEF SameItems
    <3>4. EchoInv'
      BY <1>1, <3>1, <3>2, <3>3, OpenEcho
    <3> QED
      BY <1>2, <2>1, <3>4
  <2>3. CASE c_swindow # NoWin
    <3>1. /\ UNCHANGED <<stream, c_swindow, out, received, c_cohort, bare_flush>>
      BY <1>6, <2>3 DEF OpenWindow
    <3>2. EchoInv'
      BY <1>1, <2>1, <2>3, <3>1, StillEcho
    <3> QED
      BY <1>2, <2>1, <3>2
  <2> QED
    BY <2>2, <2>3
<1>7. CASE AttachCohort
  <2>1. /\ ~NewCohort /\ pc = "attach" /\ pc' \in {"drain", "newcohort"}
        /\ UNCHANGED <<previous, current, next, window_counter, c_swindow, out,
                       received, bare_flush>>
        /\ c_cohort' = NoCohort
    BY <1>7 DEF AttachCohort, NewCohort, Goto
  <2>2. CASE c_cohort # NoCohort
    <3>1. win' = Appended(win, c_swindow) /\ c_swindow # NoWin
      BY <1>7, <2>2 DEF AttachCohort, Live, TypeInv, StreamInv
    <3>2. EchoInv'
      BY <1>1, <2>1, <2>2, <3>1, AttachEcho
    <3> QED
      BY <1>2, <2>1, <3>2
  <2>3. CASE c_cohort = NoCohort
    <3>1. UNCHANGED <<stream, c_swindow, out, received, c_cohort, bare_flush>>
      BY <1>7, <2>1, <2>3 DEF AttachCohort, stream
    <3>2. EchoInv'
      BY <1>3, <2>3, <3>1
    <3> QED
      BY <1>2, <2>1, <3>2
  <2> QED
    BY <2>2, <2>3
<1>8. CASE DrainOne
  <2>1. /\ ~NewCohort /\ pc = "drain" /\ pc' = "run" /\ ShuffleDown(Snapshot)
        /\ UNCHANGED <<c_swindow, out, received, c_cohort, bare_flush>>
    BY <1>8 DEF DrainOne, NewCohort, Goto
  <2>2. EchoInv'
    BY <1>1, <2>1, ShuffleItems, QuietEcho
  <2> QED
    BY <1>2, <2>1, <2>2
<1>9. CASE NewCohort
  BY <1>9, NewCohortEcho
<1>10. ~BinaryWindow
  BY DEF BinaryWindow, HandleInv
<1> QED
  BY <1>4, <1>5, <1>6, <1>7, <1>8, <1>9, <1>10

-----------------------------------------------------------------------------
(* What a window run does.                                                    *)

LEMMA RunEcho ==
  ASSUME TypeInv, EchoInv, StreamInv',
         RunWindow \/ RetireWindow \/ StartPass \/ DelimitRule \/ EndRun
  PROVE  EchoInv' /\ EchoStep
<1>0. pc \in {"run", "retire", "rules"} /\ caller \in {"newcohort", "flush", "eofdrain"}
  BY DEF RunWindow, RetireWindow, StartPass, DelimitRule, EndRun, TypeInv, DriverTyped
<1>1. ~bare_flush /\ received \in Nat /\ (Serving <=> Draining)
  BY <1>0 DEF Serving, Draining, EchoInv, Marked, TypeInv, DriverTyped
<1>2. /\ (Draining' <=> Draining) /\ (Serving' <=> Serving) /\ pc' # "done"
      /\ pc' \notin {"lookback", "soft", "hard", "open"}
  <2>1. CASE EndRun
    <3>1. pc' = caller /\ caller' = "newcohort"
      BY <2>1 DEF EndRun, Goto
    <3> QED
      BY <1>0, <3>1 DEF Serving, Draining
  <2>2. CASE ~EndRun
    <3>1. pc' \in {"run", "retire", "rules"} /\ caller' = caller
      BY <1>0, <2>2 DEF RunWindow, RetireWindow, StartPass, DelimitRule, Goto
    <3> QED
      BY <1>0, <3>1 DEF Serving, Draining
  <2> QED
    BY <2>1, <2>2
<1>3. CASE RunWindow \/ StartPass \/ EndRun
  <2>1. UNCHANGED <<stream, out, received, c_cohort, bare_flush>>
    BY <1>3 DEF RunWindow, StartPass, EndRun
  <2>2. EchoInv'
    BY <1>1, <1>2, <2>1, StillEcho
  <2> QED
    BY <1>0, <1>2, <2>1, <2>2, StutterStep
<1>4. CASE RetireWindow
  <2>1. /\ previous # <<>> /\ FreeFirst
        /\ out' = out \o WindowOutput(win[Head(previous)])
        /\ UNCHANGED <<pc, caller, received, c_cohort, bare_flush, c_swindow>>
    BY <1>4, DriverAssumption DEF RetireWindow
  <2>2. EchoInv' /\ \E n \in Len(out) .. received : out' = Run(0, n)
    BY <2>1, PrintEcho
  <2>3. out \in Seq(Nat)
    BY DEF EchoInv, OutRun
  <2> QED
    BY <1>0, <1>1, <1>2, <2>1, <2>2, <2>3, EmitStep
<1>5. CASE DelimitRule
  <2>1. current # NoWin /\ UNCHANGED <<out, received, c_cohort, bare_flush>>
    BY <1>5 DEF DelimitRule, TypeInv, RunningCurrent
  <2>2. PICK k \in 1 .. Len(win[current].cohorts) - 1 : DelimitCurrent(k)
    BY <1>5 DEF DelimitRule
  <2>3. k \in 1 .. Len(win[current].cohorts)
    <3>1. win[current].cohorts \in Seq(Cohort)
      BY <2>1 DEF TypeInv, StreamInv, WinTyped, Window
    <3> QED
      BY <3>1, LenProperties
  <2>4. CutItems(current, k)
    BY <2>1, <2>2, <2>3, DelimitCurrentItems
  <2> DEFINE at == Len(previous) + 1
  <2>5. Document[at] = current
    BY <2>1, DocumentPlaces DEF TypeInv
  <2>6. Inserts(Document, Document', at, window_counter + 1)
    BY <2>1, <2>2, PushPlaces DEF DelimitCurrent, TypeInv
  <2> HIDE DEF at
  <2>7. EchoInv'
    BY <1>2, <2>1, <2>3, <2>4, <2>5, <2>6, CutEcho
  <2> QED
    BY <1>0, <1>2, <2>1, <2>7, StutterStep
<1> QED
  BY <1>3, <1>4, <1>5

-----------------------------------------------------------------------------
(* What a flush and the end of the input do.                                  *)

\* Once every window is printed, all that was read is written, but for the
\* FLUSH that found no window.
LEMMA AllPrinted ==
  ASSUME TypeInv, HandleInv, FillInv, EchoInv, pc \in {"flushprint", "eofprint"},
         previous = <<>>
  PROVE  /\ Document = <<>> /\ c_cohort = NoCohort /\ DOMAIN win = {}
         /\ received = IF bare_flush THEN Len(out) + 1 ELSE Len(out)
         /\ out = Run(0, Len(out)) /\ Len(out) \in Nat /\ out \in Seq(Nat)
<1>1. next = <<>> /\ current = NoWin /\ c_cohort = NoCohort
  BY DEF FillInv, HandleInv, Draining
<1>2. Document = <<>>
  BY <1>1 DEF Document, Running
<1>3. DOMAIN win = {}
  BY <1>2, WindowsTyped, EmptyHolds
<1> QED
  BY <1>1, <1>2, <1>3, HeldEmpty, LenProperties DEF EchoInv, OutRun

LEMMA EndFlushEcho ==
  ASSUME TypeInv, HandleInv, FillInv, EchoInv, EndFlush
  PROVE  EchoInv' /\ EchoStep
<1>0. /\ pc = "flushprint" /\ pc' = "read" /\ previous = <<>>
      /\ out' = IF bare_flush THEN Append(out, received) ELSE out
      /\ bare_flush' = FALSE /\ UNCHANGED <<stream, received, c_cohort>>
      /\ received \in Nat
  BY DEF EndFlush, Goto, TypeInv, DriverTyped
<1>1. /\ Document = <<>> /\ c_cohort = NoCohort /\ DOMAIN win = {}
      /\ received = IF bare_flush THEN Len(out) + 1 ELSE Len(out)
      /\ out = Run(0, Len(out)) /\ Len(out) \in Nat /\ out \in Seq(Nat)
  BY <1>0, AllPrinted
<1>2. out' = Run(0, received) /\ out' \in Seq(Nat) /\ Len(out') = received
  <2>1. CASE bare_flush
    <3>1. 0 \in Nat /\ 0 <= Len(out) /\ received = Len(out) + 1
      BY <1>1, <2>1
    <3>2. Append(Run(0, Len(out)), Len(out) + 1) = Run(0, Len(out) + 1)
      BY <1>1, <3>1, RunGrows
    <3>3. /\ Append(out, received) \in Seq(Nat)
          /\ Len(Append(out, received)) = Len(out) + 1
      BY <1>0, <1>1, AppendProperties
    <3>4. out' = Append(out, received)
      BY <1>0, <2>1
    <3>5. Append(out, received) = Run(0, received)
      BY <1>1, <3>1, <3>2
    <3> QED
      BY <3>1, <3>3, <3>4, <3>5
  <2>2. CASE ~bare_flush
    BY <1>0, <1>1, <2>2
  <2> QED
    BY <2>1, <2>2
<1>3. Document' = <<>> /\ win' = win
  BY <1>0, <1>1 DEF stream, Document, Running
<1>4. Held'
  BY <1>0, <1>1, <1>2, <1>3, EmptyHeld
<1>5. OutRun' /\ Marked'
  BY <1>0, <1>1, <1>2, <1>3 DEF OutRun, Marked
<1>6. EchoStep
  <2>1. Serving = TRUE /\ Serving' = FALSE /\ (pc' = "done") = (pc = "done")
    BY <1>0 DEF Serving
  <2>2. out' = Echo!Upto(received)
    BY <1>0, <1>2 DEF Echo!Upto, Run
  <2>3. Echo!Flushed
    BY <1>0, <2>1, <2>2 DEF Echo!Flushed
  <2> QED
    BY <1>0, <2>3 DEF EchoStep, Echo!Next
<1> QED
  BY <1>4, <1>5, <1>6 DEF EchoInv

LEMMA FinishEcho ==
  ASSUME TypeInv, HandleInv, EchoInv, FinishInput
  PROVE  EchoInv' /\ EchoStep
<1>0. /\ pc = "eof" /\ pc' = "eofvariables"
      /\ UNCHANGED <<previous, current, next, window_counter, out, received, bare_flush>>
      /\ FinishCohort(win)
  BY DEF FinishInput, FinishCohort, Goto
<1>1. ~Draining /\ ~bare_flush
  BY <1>0 DEF Draining, EchoInv, Marked
<1>2. EchoStep
  <2>1. Serving /\ Serving'
    BY <1>0 DEF Serving
  <2> QED
    BY <1>0, <2>1, StutterStep
<1>3. CASE c_cohort # NoCohort
  <2>1. c_swindow # NoWin
    BY <1>0, <1>3 DEF HandleInv
  <2>2. win' = Appended(win, c_swindow) /\ c_cohort' = NoCohort
    BY <1>0, <1>3, <2>1 DEF FinishCohort
  <2>3. EchoInv'
    BY <1>0, <1>1, <1>3, <2>1, <2>2, AttachEcho
  <2> QED
    BY <1>2, <2>3
<1>4. CASE c_cohort = NoCohort
  <2>1. UNCHANGED <<stream, c_cohort>>
    BY <1>0, <1>4 DEF FinishCohort, stream
  <2>2. EchoInv'
    BY <1>0, <1>1, <2>1, StillEcho
  <2> QED
    BY <1>2, <2>2
<1> QED
  BY <1>3, <1>4

LEMMA EndOutputEcho ==
  ASSUME TypeInv, HandleInv, FillInv, EchoInv, EndOutput
  PROVE  EchoInv' /\ EchoStep
<1>0. /\ pc = "eofprint" /\ pc' = "done" /\ previous = <<>>
      /\ UNCHANGED <<stream, received, c_cohort, out, bare_flush, caller>>
  BY DEF EndOutput, Goto
<1>1. ~bare_flush
  BY <1>0 DEF EchoInv, Marked
<1>2. EchoInv'
  <2>1. Draining /\ Draining'
    BY <1>0 DEF Draining
  <2> QED
    BY <1>0, <1>1, <2>1, StillEcho
<1>3. received = Len(out) /\ out = Run(0, Len(out)) /\ Len(out) \in Nat
  BY <1>0, <1>1, AllPrinted
<1>4. out = Echo!Upto(received)
  BY <1>3 DEF Echo!Upto, Run
<1>5. Serving = TRUE /\ Serving' = TRUE /\ (pc' = "done") = TRUE
  BY <1>0 DEF Serving
<1>6. Echo!Close
  BY <1>0, <1>4, <1>5 DEF Echo!Close
<1> QED
  BY <1>0, <1>2, <1>6 DEF EchoStep, Echo!Next

LEMMA EndingEcho ==
  ASSUME PlainStream, TypeInv, HandleInv, FillInv, EchoInv,
         \/ DrainAll("flush", "flushprint") \/ DrainAll("eofdrain", "eofprint")
         \/ PrintFirst("flushprint") \/ PrintFirst("eofprint")
         \/ EndFlush \/ FinishInput \/ LastVariables \/ EndOutput
  PROVE  EchoInv' /\ EchoStep
<1>1. CASE DrainAll("flush", "flushprint") \/ DrainAll("eofdrain", "eofprint")
  <2>1. /\ ShuffleDown(Snapshot) /\ pc \in {"flush", "eofdrain"}
        /\ UNCHANGED <<out, received, c_cohort, bare_flush>>
        /\ \/ pc' = "run" /\ caller' = pc /\ next # <<>>
           \/ pc' = (IF pc = "flush" THEN "flushprint" ELSE "eofprint")
    BY <1>1 DEF DrainAll, Goto
  <2>2. Draining /\ Draining' /\ Serving /\ Serving' /\ pc' # "done"
    BY <2>1 DEF Draining, Serving
  <2>3. bare_flush => pc' \in {"flush", "flushprint"}
    <3> SUFFICES ASSUME bare_flush
                 PROVE  pc' \in {"flush", "flushprint"}
      OBVIOUS
    <3>1. pc = "flush" /\ Document = <<>>
      BY <2>1 DEF EchoInv, Marked
    <3>2. next = <<>>
      <4>1. Len(Document) = 0 /\ next \in Seq(Handle)
        BY <3>1 DEF TypeInv, StreamInv
      <4>2. /\ Len(Document) = Len(previous) + Len(Running) + Len(next)
            /\ Len(previous) \in Nat /\ Len(Running) \in {0, 1} /\ Len(next) \in Nat
        BY DocumentPlaces DEF TypeInv
      <4>3. Len(next) = 0
        <5> DEFINE a == Len(previous)
                   b == Len(Running)
                   c == Len(next)
                   d == Len(Document)
        <5>1. d = 0 /\ d = a + b + c /\ a \in Nat /\ b \in {0, 1} /\ c \in Nat
          BY <4>1, <4>2
        <5> HIDE DEF a, b, c, d
        <5>2. c = 0
          BY <5>1
        <5> QED
          BY <5>2 DEF c
      <4> QED
        BY <4>1, <4>3, EmptySeq
    <3> QED
      BY <2>1, <3>1, <3>2
  <2>4. EchoInv'
    BY <2>1, <2>2, <2>3, ShuffleItems, QuietEcho
  <2> QED
    BY <2>1, <2>2, <2>4, StutterStep
<1>2. CASE PrintFirst("flushprint") \/ PrintFirst("eofprint")
  <2>1. /\ previous # <<>> /\ FreeFirst /\ pc \in {"flushprint", "eofprint"}
        /\ out' = out \o WindowOutput(win[Head(previous)])
        /\ UNCHANGED <<pc, caller, received, c_cohort, bare_flush, c_swindow>>
    BY <1>2 DEF PrintFirst
  <2>2. EchoInv' /\ \E n \in Len(out) .. received : out' = Run(0, n)
    BY <2>1, PrintEcho
  <2>3. out \in Seq(Nat) /\ received \in Nat
    BY DEF EchoInv, OutRun, TypeInv, DriverTyped
  <2>4. (Serving' <=> Serving) /\ pc # "done" /\ pc' # "done"
    BY <2>1 DEF Serving
  <2> QED
    BY <2>1, <2>2, <2>3, <2>4, EmitStep
<1>3. CASE LastVariables
  <2>1. /\ UNCHANGED <<stream, out, received, c_cohort, bare_flush>>
        /\ pc = "eofvariables" /\ pc' = "eofdrain"
    BY <1>3 DEF LastVariables, PlainStream, Goto
  <2>2. Draining /\ Draining' /\ Serving /\ Serving' /\ ~bare_flush
    BY <2>1 DEF Draining, Serving, EchoInv, Marked
  <2>3. EchoInv'
    BY <2>1, <2>2, StillEcho
  <2> QED
    BY <2>1, <2>2, <2>3, StutterStep
<1>4. CASE EndFlush
  BY <1>4, EndFlushEcho
<1>5. CASE FinishInput
  BY <1>5, FinishEcho
<1>6. CASE EndOutput
  BY <1>6, EndOutputEcho
<1> QED
  BY <1>1, <1>2, <1>3, <1>4, <1>5, <1>6

-----------------------------------------------------------------------------
\* Every step keeps the invariant and is a step of EchoStream, or none.
LEMMA EchoInvStep ==
  ASSUME PlainStream, TypeInv, HandleInv, HoldInv, SpanInv, FillInv, EchoInv, [Next]_vars
  PROVE  EchoInv' /\ EchoStep
<1>0. StreamInv' /\ StreamInv
  BY TypeInvStep DEF TypeInv
<1>1. CASE ReadLine
  BY <1>1, ReadLineEcho
<1>2. CASE HandleLine
  BY <1>0, <1>2, GatherEcho, RunEcho, EndingEcho DEF HandleLine
<1>3. CASE Panic
  BY <1>0, <1>3, NoneStale
<1>4. CASE UNCHANGED vars
  <2>1. /\ UNCHANGED <<stream, out, received, c_cohort, bare_flush, c_swindow>>
        /\ pc' = pc /\ caller' = caller
    BY <1>4 DEF vars, driver
  <2>2. (Draining' <=> Draining) /\ (Serving' <=> Serving)
    BY <2>1 DEF Draining, Serving
  <2>3. EchoInv'
    BY <2>1, <2>2, StillEcho DEF EchoInv, Marked
  <2>4. UNCHANGED Echo!echo
    <3>1. Serving' = Serving /\ (pc' = "done") = (pc = "done")
      BY <2>1, <2>2, Zenon DEF Serving
    <3> QED
      BY <2>1, <3>1 DEF Echo!echo
  <2> QED
    BY <2>3, <2>4 DEF EchoStep
<1> QED
  BY <1>1, <1>2, <1>3, <1>4 DEF Next

\* What is read comes out once and in input order, whatever the windows, the
\* limits and the cuts; a FLUSH hands back all that was read before the next
\* line, and at the end of the input nothing is held back: the driver
\* implements EchoStream.
THEOREM EchoesInputHolds ==
  ASSUME PlainStream
  PROVE  Spec => EchoesInput
<1>1. Init => /\ TypeInv /\ HandleInv /\ HoldInv /\ SpanInv /\ FillInv /\ EchoInv
              /\ Echo!Init
  <2> SUFFICES ASSUME Init
               PROVE  /\ TypeInv /\ HandleInv /\ HoldInv /\ SpanInv /\ FillInv /\ EchoInv
                      /\ Echo!Init
    OBVIOUS
  <2>1. TypeInv /\ HandleInv
    BY InitTypeInv, InitHandles
  <2>2. SpanInv
    BY Zenon DEF Init, SpanInv
  <2>3. /\ pc = "read" /\ c_cohort = NoCohort /\ c_swindow = NoWin /\ bare_flush = FALSE
        /\ received = 0 /\ out = <<>> /\ next = <<>> /\ previous = <<>> /\ current = NoWin
        /\ win = [x \in {} |-> FreshWindow]
    BY DEF Init, InitStream, PlainStream
  <2>4. HoldInv /\ FillInv
    BY <2>3 DEF HoldInv, FillInv
  <2>5. Document = <<>>
    BY <2>3 DEF Document, Running
  <2>6. Held
    <3> DEFINE u == [x \in Handle |-> 0]
    <3>1. u \in [Handle -> Nat]
      OBVIOUS
    <3> HIDE DEF u
    <3>2. Told(u)
      BY <2>3, <2>5 DEF Told, Along, AlongEnd, ValueBefore, InHand
    <3> QED
      BY <3>1, <3>2 DEF Held
  <2>7. OutRun
    BY <2>3, RunOne DEF OutRun
  <2>8. Marked
    BY <2>3, <2>5 DEF Marked
  <2>9. Echo!Init
    BY <2>3 DEF Echo!Init, Serving
  <2> QED
    BY <2>1, <2>2, <2>4, <2>6, <2>7, <2>8, <2>9 DEF EchoInv
<1>2. TypeInv /\ [Next]_vars => TypeInv'
  BY TypeInvStep
<1>3. TypeInv /\ HandleInv /\ [Next]_vars => HandleInv'
  BY HandleInvStep
<1>4. TypeInv /\ HandleInv /\ HoldInv /\ [Next]_vars => HoldInv'
  BY HoldInvStep
<1>5. TypeInv /\ SpanInv /\ [Next]_vars => SpanInv'
  BY SpanInvStep
<1>6. TypeInv /\ SpanInv /\ FillInv /\ [Next]_vars => FillInv'
  BY FillInvStep
<1>7. TypeInv /\ HandleInv /\ HoldInv /\ SpanInv /\ FillInv /\ EchoInv /\ [Next]_vars
        => EchoInv' /\ [Echo!Next]_(Echo!echo)
  BY EchoInvStep DEF EchoStep
<1> QED
  BY <1>1, <1>2, <1>3, <1>4, <1>5, <1>6, <1>7, PTL DEF Spec, EchoesInput, Echo!Spec
===============================================================================
