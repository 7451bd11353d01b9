------------------------ MODULE WindowCohortsProofs ------------------------
(* Proofs about WindowCohorts, for every value of its constants: what taking *)
(* elements out of a sequence keeps (Without, Only, Less), and that the list *)
(* rules work on is what is visible of the window, in order.                 *)
EXTENDS WindowCohorts, ListProofs, SequenceTheorems, FiniteSetTheorems, TLAPS

-----------------------------------------------------------------------------
(* The function that Without builds up.                                      *)

KeptUpTo(f, s, P, m) ==
  f = [i \in 0 .. m |-> IF i = 0 THEN <<>>
                        ELSE IF i \in P THEN f[i - 1] ELSE Append(f[i - 1], s[i])]

LEMMA KeptSteps ==
  ASSUME NEW s, NEW P, NEW m \in Nat, NEW f, KeptUpTo(f, s, P, m)
  PROVE  /\ DOMAIN f = 0 .. m /\ f[0] = <<>>
         /\ \A i \in 1 .. m : f[i] = IF i \in P THEN f[i - 1] ELSE Append(f[i - 1], s[i])
<1> DEFINE At(i) == IF i = 0 THEN <<>>
                    ELSE IF i \in P THEN f[i - 1] ELSE Append(f[i - 1], s[i])
<1>1. f = [i \in 0 .. m |-> At(i)]
  BY DEF KeptUpTo
<1>2. \A i \in 0 .. m : f[i] = At(i)
  BY <1>1
<1>3. DOMAIN f = 0 .. m
  BY <1>1
<1>4. 0 \in 0 .. m /\ \A i \in 1 .. m : i \in 0 .. m /\ i # 0
  OBVIOUS
<1> QED
  BY <1>2, <1>3, <1>4

LEMMA KeptExists ==
  ASSUME NEW s, NEW P, NEW m \in Nat
  PROVE  \E f : KeptUpTo(f, s, P, m)
<1> DEFINE T == {n \in Nat : ~ \E f : KeptUpTo(f, s, P, n)}
<1> SUFFICES ASSUME T # {}
             PROVE  FALSE
  OBVIOUS
<1>1. PICK n \in T : \A k \in T : n <= k
  BY LeastNatural
<1>2. n # 0
  <2> DEFINE g == [i \in 0 .. 0 |-> <<>>]
  <2>1. KeptUpTo(g, s, P, 0)
    BY DEF KeptUpTo
  <2> QED
    BY <2>1
<1>3. n - 1 \in Nat /\ n - 1 \notin T
  BY <1>1, <1>2
<1>4. PICK f : KeptUpTo(f, s, P, n - 1)
  BY <1>3
<1>5. /\ DOMAIN f = 0 .. n - 1 /\ f[0] = <<>>
      /\ \A i \in 1 .. n - 1 : f[i] = IF i \in P THEN f[i - 1] ELSE Append(f[i - 1], s[i])
  BY <1>3, <1>4, KeptSteps
<1> DEFINE last == IF n \in P THEN f[n - 1] ELSE Append(f[n - 1], s[n])
           g == [i \in 0 .. n |-> IF i = n THEN last ELSE f[i]]
           At(i) == IF i = 0 THEN <<>>
                    ELSE IF i \in P THEN g[i - 1] ELSE Append(g[i - 1], s[i])
<1>6. ASSUME NEW i \in 0 .. n
      PROVE  g[i] = At(i)
  <2>1. CASE i = 0
    BY <1>2, <1>5, <2>1
  <2>2. CASE i = n
    <3>1. n - 1 \in 0 .. n /\ n - 1 # n
      BY <1>2
    <3>2. g[n - 1] = f[n - 1] /\ g[n] = last
      BY <3>1
    <3> HIDE DEF g
    <3> QED
      BY <1>2, <2>2, <3>2
  <2>3. CASE i # 0 /\ i # n
    <3>1. i \in 1 .. n - 1 /\ i - 1 \in 0 .. n /\ i - 1 # n
      BY <2>3
    <3>2. g[i] = f[i] /\ g[i - 1] = f[i - 1]
      BY <2>3, <3>1
    <3> HIDE DEF g
    <3> QED
      BY <1>5, <2>3, <3>1, <3>2
  <2> QED
    BY <2>1, <2>2, <2>3
<1>7. g = [i \in 0 .. n |-> At(i)]
  BY <1>6
<1>8. KeptUpTo(g, s, P, n)
  BY <1>7 DEF KeptUpTo
<1> QED
  BY <1>1, <1>8

\* The steps of Without.
Keeps(f, s, P, m) ==
  /\ f[0] = <<>>
  /\ \A i \in 1 .. m : f[i] = IF i \in P THEN f[i - 1] ELSE Append(f[i - 1], s[i])

LEMMA WithoutSteps ==
  ASSUME NEW s, Len(s) \in Nat, NEW P
  PROVE  \E f : Keeps(f, s, P, Len(s)) /\ Without(s, P) = f[Len(s)]
<1> DEFINE f == CHOOSE f : KeptUpTo(f, s, P, Len(s))
<1>1. KeptUpTo(f, s, P, Len(s))
  BY KeptExists
<1>2. Without(s, P) = f[Len(s)]
  BY DEF Without, KeptUpTo
<1> HIDE DEF f
<1> DEFINE m == Len(s)
<1>3. m \in Nat /\ KeptUpTo(f, s, P, m)
  BY <1>1
<1> HIDE DEF m
<1>4. Keeps(f, s, P, m)
  BY <1>3, KeptSteps DEF Keeps
<1> QED
  BY <1>2, <1>4 DEF m

LEMMA KeptAgree ==
  ASSUME NEW n \in Nat, NEW f, NEW g, NEW s, NEW t, NEW P, NEW Q,
         Keeps(f, s, P, n), Keeps(g, t, Q, n),
         \A i \in 1 .. n : (i \in P <=> i \in Q) /\ s[i] = t[i]
  PROVE  f[n] = g[n]
<1> DEFINE T == {i \in 0 .. n : f[i] # g[i]}
<1> SUFFICES ASSUME T # {}
             PROVE  FALSE
  OBVIOUS
<1>1. T \subseteq Nat
  OBVIOUS
<1>2. PICK i \in T : \A k \in T : i <= k
  BY <1>1, LeastNatural
<1>3. i \in 1 .. n /\ i - 1 \in 0 .. n /\ ~ (i <= i - 1)
  BY DEF Keeps
<1>4. f[i - 1] = g[i - 1]
  BY <1>2, <1>3
<1>5. f[i] = g[i]
  BY <1>3, <1>4 DEF Keeps
<1> QED
  BY <1>5

\* One more element at the end: it is kept, or it is not.
LEMMA WithoutAppend ==
  ASSUME NEW D, NEW s \in Seq(D), NEW x \in D, NEW P, NEW Q,
         \A i \in 1 .. Len(s) : i \in P <=> i \in Q
  PROVE  Without(Append(s, x), Q)
           = IF Len(s) + 1 \in Q THEN Without(s, P) ELSE Append(Without(s, P), x)
<1> DEFINE t == Append(s, x)
           n == Len(s)
<1>1. /\ n \in Nat /\ Len(t) = n + 1 /\ t[n + 1] = x /\ \A i \in 1 .. n : t[i] = s[i]
      /\ n + 1 \in Nat
  BY AppendProperties, LenProperties
<1> HIDE DEF t
<1>2. PICK f : Keeps(f, s, P, n) /\ Without(s, P) = f[n]
  BY <1>1, WithoutSteps
<1>3. PICK g : Keeps(g, t, Q, n + 1) /\ Without(t, Q) = g[n + 1]
  BY <1>1, WithoutSteps
<1>4. \A i \in 1 .. n : (i \in P <=> i \in Q) /\ s[i] = t[i]
  BY <1>1
<1> HIDE DEF n
<1>5. f[n] = g[n]
  <2>1. Keeps(g, t, Q, n)
    BY <1>1, <1>3 DEF Keeps
  <2> QED
    BY <1>1, <1>2, <1>3, <1>4, <2>1, KeptAgree
<1>6. n + 1 \in 1 .. n + 1 /\ (n + 1) - 1 = n
  BY <1>1
<1>7. g[n + 1] = IF n + 1 \in Q THEN f[n] ELSE Append(f[n], x)
  BY <1>1, <1>3, <1>5, <1>6 DEF Keeps
<1> QED
  BY <1>2, <1>3, <1>7 DEF t, n

\* Only the positions in the sequence matter.
LEMMA WithoutAgree ==
  ASSUME NEW s, Len(s) \in Nat, NEW P, NEW Q, \A i \in 1 .. Len(s) : i \in P <=> i \in Q
  PROVE  Without(s, P) = Without(s, Q)
<1> DEFINE n == Len(s)
<1>1. PICK f : Keeps(f, s, P, n) /\ Without(s, P) = f[n]
  BY WithoutSteps
<1>2. PICK g : Keeps(g, s, Q, n) /\ Without(s, Q) = g[n]
  BY WithoutSteps
<1>3. f[n] = g[n]
  <2>1. n \in Nat /\ \A i \in 1 .. n : (i \in P <=> i \in Q) /\ s[i] = s[i]
    OBVIOUS
  <2> HIDE DEF n
  <2> QED
    BY <1>1, <1>2, <2>1, KeptAgree
<1> QED
  BY <1>1, <1>2, <1>3

LEMMA OnlyEmpty ==
  ASSUME NEW S
  PROVE  Only(<<>>, S) = <<>>
<1> DEFINE P == {i \in DOMAIN <<>> : <<>>[i] \notin S}
<1>1. Len(<<>>) = 0 /\ Len(<<>>) \in Nat
  OBVIOUS
<1> HIDE DEF P
<1>2. Without(<<>>, P) = <<>>
  BY <1>1, WithoutSteps DEF Keeps
<1> QED
  BY <1>2 DEF Only, P

LEMMA OnlyAppend ==
  ASSUME NEW D, NEW s \in Seq(D), NEW x \in D, NEW S
  PROVE  Only(Append(s, x), S) = IF x \in S THEN Append(Only(s, S), x) ELSE Only(s, S)
<1> DEFINE t == Append(s, x)
           P == {i \in DOMAIN s : s[i] \notin S}
           Q == {i \in DOMAIN t : t[i] \notin S}
           n == Len(s)
<1>1. /\ n \in Nat /\ DOMAIN s = 1 .. n /\ DOMAIN t = 1 .. n + 1
      /\ t[n + 1] = x /\ \A i \in 1 .. n : t[i] = s[i]
  <2>1. Len(t) = n + 1 /\ t \in Seq(D)
    BY AppendProperties
  <2> QED
    BY <2>1, AppendProperties, LenProperties
<1>2. \A i \in 1 .. n : i \in P <=> i \in Q
  BY <1>1
<1>3. n + 1 \in Q <=> x \notin S
  BY <1>1
<1> HIDE DEF P, Q
<1>4. Without(t, Q) = IF n + 1 \in Q THEN Without(s, P) ELSE Append(Without(s, P), x)
  BY <1>2, WithoutAppend
<1> QED
  BY <1>3, <1>4 DEF Only, P, Q

\* An induction over sequences takes one that is as short as it can be and still
\* bad: what is before its last element is not.
LEMMA ShortestBad ==
  ASSUME NEW D, NEW Bad, Bad \subseteq Seq(D), Bad # {}, <<>> \notin Bad
  PROVE  \E s \in Seq(D) : \E x \in D : s \notin Bad /\ Append(s, x) \in Bad
<1> DEFINE T == {Len(s) : s \in Bad}
<1>1. T \subseteq Nat /\ T # {}
  <2>1. \A s \in Bad : Len(s) \in Nat
    BY LenProperties
  <2> QED
    BY <2>1
<1>2. PICK n \in T : \A k \in T : n <= k
  BY <1>1, LeastNatural
<1>3. PICK t \in Bad : Len(t) = n
  OBVIOUS
<1>4. t \in Seq(D) /\ t # <<>>
  BY <1>3
<1>5. PICK s \in Seq(D), x \in D : t = Append(s, x)
  BY <1>4, SequenceEmptyOrAppend
<1>6. s \notin Bad
  <2>1. Len(s) \in Nat /\ n = Len(s) + 1
    BY <1>3, <1>5, AppendProperties, LenProperties
  <2>2. ~ (n <= Len(s))
    BY <2>1
  <2> QED
    BY <1>2, <2>2
<1> QED
  BY <1>5, <1>6

-----------------------------------------------------------------------------
(* Laws of Only.                                                             *)

LEMMA AppendedHolds ==
  ASSUME NEW D, NEW s \in Seq(D), NEW x \in D
  PROVE  /\ Append(s, x) \in Seq(D)
         /\ ToSet(Append(s, x)) = ToSet(s) \cup {x}
         /\ IsInjective(s) /\ x \notin ToSet(s) => IsInjective(Append(s, x))
         /\ IsInjective(Append(s, x)) => IsInjective(s) /\ x \notin ToSet(s)
<1> DEFINE t == Append(s, x)
           n == Len(s)
<1>1. /\ n \in Nat /\ t \in Seq(D) /\ Len(t) = n + 1 /\ t[n + 1] = x
      /\ \A i \in 1 .. n : t[i] = s[i]
  BY AppendProperties, LenProperties
<1>2. DOMAIN s = 1 .. n /\ DOMAIN t = 1 .. n + 1
  BY <1>1, LenProperties
<1>3. /\ \A i \in 1 .. n : i \in 1 .. n + 1 /\ i # n + 1
      /\ \A i \in 1 .. n + 1 : i \in 1 .. n \/ i = n + 1
      /\ n + 1 \in 1 .. n + 1
  BY <1>1
<1> HIDE DEF t, n
<1>4. ToSet(t) = ToSet(s) \cup {x}
  BY <1>1, <1>2, <1>3, Zenon DEF ToSet
<1>5. IsInjective(s) /\ x \notin ToSet(s) => IsInjective(t)
  BY <1>1, <1>2, <1>3 DEF ToSet, IsInjective
<1>6. IsInjective(t) => IsInjective(s) /\ x \notin ToSet(s)
  BY <1>1, <1>2, <1>3 DEF ToSet, IsInjective
<1> QED
  BY <1>1, <1>4, <1>5, <1>6 DEF t

LEMMA EmptyHolds ==
  /\ ToSet(<<>>) = {} /\ IsInjective(<<>>)
  /\ \A D : \A s \in Seq(D) : ToSet(s) = {} <=> s = <<>>
<1>1. ToSet(<<>>) = {} /\ IsInjective(<<>>)
  BY DEF ToSet, IsInjective
<1>2. ASSUME NEW D, NEW s \in Seq(D), s # <<>>
      PROVE  ToSet(s) # {}
  <2>1. PICK t \in Seq(D), x \in D : s = Append(t, x)
    BY <1>2, SequenceEmptyOrAppend
  <2> QED
    BY <2>1, AppendedHolds
<1> QED
  BY <1>1, <1>2

\* Only keeps what is in the set, once if it came once.
LEMMA OnlyHolds ==
  ASSUME NEW D, NEW s \in Seq(D), NEW S
  PROVE  /\ Only(s, S) \in Seq(D)
         /\ ToSet(Only(s, S)) = ToSet(s) \cap S
         /\ IsInjective(s) => IsInjective(Only(s, S))
<1> DEFINE Good(t) == /\ Only(t, S) \in Seq(D)
                      /\ ToSet(Only(t, S)) = ToSet(t) \cap S
                      /\ IsInjective(t) => IsInjective(Only(t, S))
           Bad == {t \in Seq(D) : ~Good(t)}
<1> SUFFICES ASSUME Bad # {}
             PROVE  FALSE
  OBVIOUS
<1>1. <<>> \notin Bad
  BY OnlyEmpty, EmptyHolds, EmptySeq
<1>2. PICK t \in Seq(D), x \in D : t \notin Bad /\ Append(t, x) \in Bad
  <2> HIDE DEF Bad
  <2> QED
    BY <1>1, ShortestBad DEF Bad
<1>3. Good(t)
  BY <1>2
<1>4. Only(Append(t, x), S) = IF x \in S THEN Append(Only(t, S), x) ELSE Only(t, S)
  BY OnlyAppend
<1> DEFINE o == Only(t, S)
<1>5. o \in Seq(D) /\ ToSet(o) = ToSet(t) \cap S /\ (IsInjective(t) => IsInjective(o))
  BY <1>3
<1> HIDE DEF o, Good
<1>6. Good(Append(t, x))
  BY <1>4, <1>5, AppendedHolds DEF Good, o
<1> QED
  BY <1>2, <1>6

\* Only the elements of the sequence matter.
LEMMA OnlyAgree ==
  ASSUME NEW D, NEW s \in Seq(D), NEW S, NEW R, ToSet(s) \cap S = ToSet(s) \cap R
  PROVE  Only(s, S) = Only(s, R)
<1> DEFINE P == {i \in DOMAIN s : s[i] \notin S}
           Q == {i \in DOMAIN s : s[i] \notin R}
<1>1. \A i \in 1 .. Len(s) : i \in P <=> i \in Q
  BY LenProperties DEF ToSet
<1>2. Len(s) \in Nat
  BY LenProperties
<1> HIDE DEF P, Q
<1>3. Without(s, P) = Without(s, Q)
  BY <1>1, <1>2, WithoutAgree
<1> QED
  BY <1>3 DEF Only, P, Q

\* Less and Without say the same in other words.
LEMMA LessIsOnly ==
  ASSUME NEW D, NEW s \in Seq(D), NEW S, NEW R, ToSet(s) \cap R = ToSet(s) \ S
  PROVE  Less(s, S) = Only(s, R)
<1> DEFINE P == {i \in DOMAIN s : s[i] \in S}
           Q == {i \in DOMAIN s : s[i] \notin R}
<1>1. \A i \in 1 .. Len(s) : i \in P <=> i \in Q
  BY LenProperties DEF ToSet
<1>2. Len(s) \in Nat
  BY LenProperties
<1> HIDE DEF P, Q
<1>3. Without(s, P) = Without(s, Q)
  BY <1>1, <1>2, WithoutAgree
<1> QED
  BY <1>3 DEF Only, Less, P, Q

LEMMA WithoutIsOnly ==
  ASSUME NEW D, NEW s \in Seq(D), NEW P, NEW R,
         \A i \in 1 .. Len(s) : i \in P <=> s[i] \notin R
  PROVE  Without(s, P) = Only(s, R)
<1> DEFINE Q == {i \in DOMAIN s : s[i] \notin R}
<1>1. \A i \in 1 .. Len(s) : i \in P <=> i \in Q
  BY LenProperties
<1>2. Len(s) \in Nat
  BY LenProperties
<1> HIDE DEF Q
<1>3. Without(s, P) = Without(s, Q)
  BY <1>1, <1>2, WithoutAgree
<1> QED
  BY <1>3 DEF Only, Q

LEMMA ConcatAppend ==
  ASSUME NEW D, NEW s \in Seq(D), NEW t \in Seq(D), NEW x \in D
  PROVE  s \o Append(t, x) = Append(s \o t, x)
<1>1. <<x>> \in Seq(D) /\ s \o t \in Seq(D)
  BY ConcatProperties
<1> QED
  BY <1>1, AppendIsConcat, ConcatAssociative

LEMMA OnlyConcat ==
  ASSUME NEW D, NEW s \in Seq(D), NEW t \in Seq(D), NEW S
  PROVE  Only(s \o t, S) = Only(s, S) \o Only(t, S)
<1> DEFINE Good(u) == Only(s \o u, S) = Only(s, S) \o Only(u, S)
           Bad == {u \in Seq(D) : ~Good(u)}
<1> SUFFICES ASSUME Bad # {}
             PROVE  FALSE
  OBVIOUS
<1>1. <<>> \notin Bad
  BY OnlyEmpty, OnlyHolds, ConcatEmptySeq
<1>2. PICK u \in Seq(D), x \in D : u \notin Bad /\ Append(u, x) \in Bad
  <2> HIDE DEF Bad
  <2> QED
    BY <1>1, ShortestBad DEF Bad
<1>3. Good(u)
  BY <1>2
<1>4. /\ Only(s, S) \in Seq(D) /\ Only(u, S) \in Seq(D) /\ s \o u \in Seq(D)
  BY OnlyHolds, ConcatProperties
<1>5. Only(Append(u, x), S) = IF x \in S THEN Append(Only(u, S), x) ELSE Only(u, S)
  BY OnlyAppend
<1>6. Only(Append(s \o u, x), S)
        = IF x \in S THEN Append(Only(s \o u, S), x) ELSE Only(s \o u, S)
  BY <1>4, OnlyAppend
<1>7. s \o Append(u, x) = Append(s \o u, x)
  BY ConcatAppend, SMTT(30)
<1>8. Only(s, S) \o Append(Only(u, S), x) = Append(Only(s, S) \o Only(u, S), x)
  <2> DEFINE a == Only(s, S)
             b == Only(u, S)
  <2>1. a \in Seq(D) /\ b \in Seq(D)
    BY <1>4
  <2> HIDE DEF a, b
  <2>2. a \o Append(b, x) = Append(a \o b, x)
    BY <2>1, ConcatAppend, SMTT(30)
  <2> QED
    BY <2>2 DEF a, b
<1>9. Good(Append(u, x))
  BY <1>3, <1>5, <1>6, <1>7, <1>8
<1> QED
  BY <1>2, <1>9

LEMMA OnlyOnly ==
  ASSUME NEW D, NEW s \in Seq(D), NEW S, NEW R
  PROVE  Only(Only(s, S), R) = Only(s, S \cap R)
<1> DEFINE Good(u) == Only(Only(u, S), R) = Only(u, S \cap R)
           Bad == {u \in Seq(D) : ~Good(u)}
<1> SUFFICES ASSUME Bad # {}
             PROVE  FALSE
  OBVIOUS
<1>1. <<>> \notin Bad
  BY OnlyEmpty
<1>2. PICK u \in Seq(D), x \in D : u \notin Bad /\ Append(u, x) \in Bad
  <2> HIDE DEF Bad
  <2> QED
    BY <1>1, ShortestBad DEF Bad
<1>3. Good(u)
  BY <1>2
<1>4. Only(u, S) \in Seq(D)
  BY OnlyHolds
<1>5. Only(Append(u, x), S) = IF x \in S THEN Append(Only(u, S), x) ELSE Only(u, S)
  BY OnlyAppend
<1>6. Only(Append(u, x), S \cap R)
        = IF x \in S \cap R THEN Append(Only(u, S \cap R), x) ELSE Only(u, S \cap R)
  BY OnlyAppend
<1>7. Only(Append(Only(u, S), x), R)
        = IF x \in R THEN Append(Only(Only(u, S), R), x) ELSE Only(Only(u, S), R)
  BY <1>4, OnlyAppend
<1>8. Good(Append(u, x))
  <2>1. CASE x \in S /\ x \in R
    BY <1>3, <1>5, <1>6, <1>7, <2>1
  <2>2. CASE x \in S /\ x \notin R
    BY <1>3, <1>5, <1>6, <1>7, <2>2
  <2>3. CASE x \notin S
    BY <1>3, <1>5, <1>6, <2>3
  <2> QED
    BY <2>1, <2>2, <2>3
<1> QED
  BY <1>2, <1>8

LEMMA OnlyAll ==
  ASSUME NEW D, NEW s \in Seq(D), NEW S, ToSet(s) \subseteq S
  PROVE  Only(s, S) = s
<1> DEFINE Good(u) == ToSet(u) \subseteq S => Only(u, S) = u
           Bad == {u \in Seq(D) : ~Good(u)}
<1> SUFFICES ASSUME Bad # {}
             PROVE  FALSE
  OBVIOUS
<1>1. <<>> \notin Bad
  BY OnlyEmpty
<1>2. PICK u \in Seq(D), x \in D : u \notin Bad /\ Append(u, x) \in Bad
  <2> HIDE DEF Bad
  <2> QED
    BY <1>1, ShortestBad DEF Bad
<1>3. Good(u)
  BY <1>2
<1>4. Only(Append(u, x), S) = IF x \in S THEN Append(Only(u, S), x) ELSE Only(u, S)
  BY OnlyAppend
<1>5. ToSet(Append(u, x)) = ToSet(u) \cup {x}
  BY AppendedHolds
<1>6. Good(Append(u, x))
  BY <1>3, <1>4, <1>5
<1> QED
  BY <1>2, <1>6

LEMMA OnlyNone ==
  ASSUME NEW D, NEW s \in Seq(D), NEW S, ToSet(s) \cap S = {}
  PROVE  Only(s, S) = <<>>
  BY OnlyHolds, EmptyHolds

-----------------------------------------------------------------------------
(* Sequences cut in two, and what is inserted there.                         *)

Before(s, p) == SubSeq(s, 1, p - 1)
From(s, p) == SubSeq(s, p, Len(s))

LEMMA ConcatHolds ==
  ASSUME NEW D, NEW s \in Seq(D), NEW t \in Seq(D)
  PROVE  /\ s \o t \in Seq(D) /\ Len(s \o t) = Len(s) + Len(t)
         /\ ToSet(s \o t) = ToSet(s) \cup ToSet(t)
         /\ IsInjective(s \o t)
              <=> IsInjective(s) /\ IsInjective(t) /\ ToSet(s) \cap ToSet(t) = {}
<1> DEFINE Good(u) ==
             /\ ToSet(s \o u) = ToSet(s) \cup ToSet(u)
             /\ IsInjective(s \o u)
                  <=> IsInjective(s) /\ IsInjective(u) /\ ToSet(s) \cap ToSet(u) = {}
           Bad == {u \in Seq(D) : ~Good(u)}
<1>1. s \o t \in Seq(D) /\ Len(s \o t) = Len(s) + Len(t)
  BY ConcatProperties
<1> SUFFICES ASSUME Bad # {}
             PROVE  FALSE
  BY <1>1
<1>2. <<>> \notin Bad
  BY EmptyHolds, ConcatEmptySeq
<1>3. PICK u \in Seq(D), x \in D : u \notin Bad /\ Append(u, x) \in Bad
  <2> HIDE DEF Good
  <2>1. Bad \subseteq Seq(D) /\ Bad # {}
    OBVIOUS
  <2> HIDE DEF Bad
  <2> QED
    BY <1>2, <2>1, ShortestBad
<1>4. Good(u)
  BY <1>3
<1> DEFINE v == s \o u
<1>5. s \o Append(u, x) = Append(v, x) /\ v \in Seq(D)
  BY ConcatAppend, ConcatProperties
<1> HIDE DEF v
<1>6. /\ ToSet(Append(u, x)) = ToSet(u) \cup {x}
      /\ IsInjective(Append(u, x)) <=> IsInjective(u) /\ x \notin ToSet(u)
  BY AppendedHolds
<1>7. /\ ToSet(Append(v, x)) = ToSet(v) \cup {x}
      /\ IsInjective(Append(v, x)) <=> IsInjective(v) /\ x \notin ToSet(v)
  BY <1>5, AppendedHolds
<1>8. /\ ToSet(v) = ToSet(s) \cup ToSet(u)
      /\ IsInjective(v) <=> IsInjective(s) /\ IsInjective(u) /\ ToSet(s) \cap ToSet(u) = {}
  BY <1>4 DEF v
<1>9. Good(Append(u, x))
  <2>1. ToSet(s \o Append(u, x)) = ToSet(s) \cup ToSet(Append(u, x))
    BY <1>5, <1>6, <1>7, <1>8
  <2>2. ToSet(s) \cap ToSet(Append(u, x)) = {}
          <=> ToSet(s) \cap ToSet(u) = {} /\ x \notin ToSet(s)
    BY <1>6
  <2>3. x \notin ToSet(v) <=> x \notin ToSet(s) /\ x \notin ToSet(u)
    BY <1>8
  <2> QED
    BY <1>5, <1>6, <1>7, <1>8, <2>1, <2>2, <2>3
<1> QED
  BY <1>3, <1>9

LEMMA CutHolds ==
  ASSUME NEW D, NEW s \in Seq(D), NEW p \in 1 .. Len(s) + 1
  PROVE  /\ Before(s, p) \in Seq(D) /\ From(s, p) \in Seq(D)
         /\ s = Before(s, p) \o From(s, p)
         /\ Len(Before(s, p)) = p - 1 /\ Len(From(s, p)) = (Len(s) - p) + 1
<1> DEFINE n == Len(s)
<1>1. n \in Nat /\ p \in Int /\ 1 \in Int /\ p - 1 \in Int
  BY LenProperties
<1>2. \A i \in 1 .. n : s[i] \in D
  BY ElementOfSeq
<1>3. /\ \A i \in 1 .. p - 1 : i \in 1 .. n
      /\ \A i \in p .. n : i \in 1 .. n
  BY <1>1
<1>4. Before(s, p) \in Seq(D) /\ Len(Before(s, p)) = p - 1
  <2>1. /\ SubSeq(s, 1, p - 1) \in Seq(D)
        /\ Len(SubSeq(s, 1, p - 1)) = IF 1 <= p - 1 THEN ((p - 1) - 1) + 1 ELSE 0
    BY <1>1, <1>2, <1>3, SubSeqProperties
  <2> QED
    BY <1>1, <2>1 DEF Before
<1>5. From(s, p) \in Seq(D) /\ Len(From(s, p)) = (n - p) + 1
  <2>1. /\ SubSeq(s, p, n) \in Seq(D)
        /\ Len(SubSeq(s, p, n)) = IF p <= n THEN (n - p) + 1 ELSE 0
    BY <1>1, <1>2, <1>3, SubSeqProperties
  <2> QED
    BY <1>1, <2>1 DEF From
<1>6. s = Before(s, p) \o From(s, p)
  <2>1. /\ 1 \in 1 .. n + 1 /\ p - 1 \in 1 - 1 .. n /\ n \in p - 1 .. n
        /\ (p - 1) + 1 = p
    BY <1>1
  <2>2. SubSeq(s, 1, p - 1) \o SubSeq(s, p, n) = SubSeq(s, 1, n)
    BY <2>1, ConcatAdjacentSubSeq
  <2> QED
    BY <2>2, SubSeqFull DEF Before, From
<1> QED
  BY <1>4, <1>5, <1>6

\* Where two sequences meet, they come apart again.
LEMMA CutConcat ==
  ASSUME NEW D, NEW a \in Seq(D), NEW b \in Seq(D)
  PROVE  /\ Len(a) + 1 \in 1 .. Len(a \o b) + 1
         /\ Before(a \o b, Len(a) + 1) = a /\ From(a \o b, Len(a) + 1) = b
<1> DEFINE s == a \o b
           m == Len(a)
           u == Before(s, m + 1)
           v == From(s, m + 1)
<1>1. m \in Nat /\ Len(b) \in Nat /\ s \in Seq(D) /\ Len(s) = m + Len(b)
  BY ConcatProperties, LenProperties
<1>2. m + 1 \in 1 .. Len(s) + 1
  BY <1>1
<1>3. u \in Seq(D) /\ v \in Seq(D) /\ s = u \o v /\ Len(u) = (m + 1) - 1
  BY <1>1, <1>2, CutHolds
<1>4. Len(u) = m
  BY <1>1, <1>3
<1>5. /\ \A i \in 1 .. m + Len(b) : s[i] = IF i <= m THEN a[i] ELSE b[i - m]
      /\ \A i \in 1 .. Len(u) + Len(v) : s[i] = IF i <= Len(u) THEN u[i] ELSE v[i - Len(u)]
      /\ Len(s) = Len(u) + Len(v) /\ Len(v) \in Nat
  <2> HIDE DEF u, v
  <2>1. \A i \in 1 .. Len(u) + Len(v) :
           (u \o v)[i] = IF i <= Len(u) THEN u[i] ELSE v[i - Len(u)]
    BY <1>3, ConcatProperties
  <2>2. Len(u \o v) = Len(u) + Len(v) /\ Len(v) \in Nat
    BY <1>3, ConcatProperties, LenProperties
  <2> QED
    BY <1>3, <2>1, <2>2, ConcatProperties
<1> HIDE DEF s, u, v, m
<1>6. Len(v) = Len(b)
  BY <1>1, <1>4, <1>5
<1>7. \A i \in 1 .. m : u[i] = a[i]
  <2> TAKE i \in 1 .. m
  <2>1. i \in 1 .. m + Len(b) /\ i <= m /\ i \in 1 .. Len(u) + Len(v) /\ i <= Len(u)
    BY <1>1, <1>4, <1>6
  <2> QED
    BY ONLY <1>5, <2>1
<1>8. \A i \in 1 .. Len(b) : v[i] = b[i]
  <2> SUFFICES ASSUME NEW i \in 1 .. Len(b)
               PROVE  v[i] = b[i]
    OBVIOUS
  <2>1. i + m \in 1 .. m + Len(b) /\ ~ (i + m <= m) /\ (i + m) - m = i
    BY <1>1
  <2> QED
    BY <1>4, <1>5, <1>6, <2>1
<1>9. u = a
  BY <1>3, <1>4, <1>7, SeqEqual DEF m
<1>10. v = b
  BY <1>3, <1>6, <1>8, SeqEqual
<1> QED
  BY <1>2, <1>9, <1>10 DEF s, u, v, m

LEMMA InsertedHolds ==
  ASSUME NEW D, NEW s \in Seq(D), NEW b \in Seq(D), NEW p \in 1 .. Len(s) + 1
  PROVE  /\ Inserted(s, p, b) \in Seq(D)
         /\ ToSet(Inserted(s, p, b)) = ToSet(s) \cup ToSet(b)
         /\ IsInjective(s) /\ IsInjective(b) /\ ToSet(s) \cap ToSet(b) = {}
              => IsInjective(Inserted(s, p, b))
<1> DEFINE u == Before(s, p)
           v == From(s, p)
<1>1. u \in Seq(D) /\ v \in Seq(D) /\ s = u \o v
  BY CutHolds
<1>2. Inserted(s, p, b) = (u \o b) \o v
  BY DEF Inserted, Before, From
<1> HIDE DEF u, v
<1>3. u \o b \in Seq(D) /\ ToSet(u \o b) = ToSet(u) \cup ToSet(b)
      /\ ToSet(s) = ToSet(u) \cup ToSet(v)
  BY <1>1, ConcatHolds
<1>4. (u \o b) \o v \in Seq(D) /\ ToSet((u \o b) \o v) = ToSet(u \o b) \cup ToSet(v)
  BY <1>1, <1>3, ConcatHolds
<1>5. ASSUME IsInjective(s), IsInjective(b), ToSet(s) \cap ToSet(b) = {}
      PROVE  IsInjective((u \o b) \o v)
  <2>1. IsInjective(u) /\ IsInjective(v) /\ ToSet(u) \cap ToSet(v) = {}
    BY <1>1, <1>5, ConcatHolds
  <2>2. IsInjective(u \o b)
    BY <1>1, <1>3, <1>5, <2>1, ConcatHolds
  <2>3. ToSet(u \o b) \cap ToSet(v) = {}
    BY <1>3, <1>5, <2>1
  <2> QED
    BY <1>1, <1>3, <2>1, <2>2, <2>3, ConcatHolds
<1> QED
  BY <1>2, <1>3, <1>4, <1>5

LEMMA ElementsBefore ==
  ASSUME NEW D, NEW s \in Seq(D), NEW p \in 1 .. Len(s) + 1
  PROVE  /\ ToSet(Before(s, p)) = {s[i] : i \in 1 .. p - 1}
         /\ ToSet(From(s, p)) = {s[i] : i \in p .. Len(s)}
<1> DEFINE n == Len(s)
           u == Before(s, p)
           v == From(s, p)
<1>1. n \in Nat /\ p \in Int /\ 1 \in Int /\ p - 1 \in Int /\ n \in Int
  BY LenProperties
<1>2. /\ \A i \in 1 .. p - 1 : s[i] \in D
      /\ \A i \in p .. n : s[i] \in D
  <2>1. /\ \A i \in 1 .. p - 1 : i \in 1 .. n
        /\ \A i \in p .. n : i \in 1 .. n
    BY <1>1
  <2> QED
    BY <2>1, ElementOfSeq
<1>3. /\ \A i \in 1 .. ((p - 1) - 1) + 1 : u[i] = s[(1 + i) - 1]
      /\ \A i \in 1 .. (n - p) + 1 : v[i] = s[(p + i) - 1]
  BY <1>1, <1>2, SubSeqProperties DEF Before, From
<1>4. /\ u \in Seq(D) /\ v \in Seq(D) /\ Len(u) = p - 1 /\ Len(v) = (n - p) + 1
  BY CutHolds
<1>5. DOMAIN u = 1 .. p - 1 /\ DOMAIN v = 1 .. (n - p) + 1
  BY <1>4, LenProperties
<1> HIDE DEF u, v, n
<1>6. \A i \in 1 .. p - 1 : u[i] = s[i]
  <2> TAKE i \in 1 .. p - 1
  <2>1. i \in 1 .. ((p - 1) - 1) + 1 /\ (1 + i) - 1 = i
    BY <1>1
  <2> QED
    BY <1>3, <2>1
<1>7. ToSet(u) = {s[i] : i \in 1 .. p - 1}
  BY <1>5, <1>6 DEF ToSet
<1>8. ToSet(v) = {s[i] : i \in p .. n}
  <2>1. ASSUME NEW i \in 1 .. (n - p) + 1
        PROVE  v[i] \in {s[j] : j \in p .. n}
    <3>1. (p + i) - 1 \in p .. n
      BY <1>1
    <3> QED
      BY <1>3, <3>1
  <2>2. ASSUME NEW j \in p .. n
        PROVE  s[j] \in {v[i] : i \in 1 .. (n - p) + 1}
    <3>1. (j - p) + 1 \in 1 .. (n - p) + 1 /\ (p + ((j - p) + 1)) - 1 = j
      BY <1>1
    <3>2. v[(j - p) + 1] = s[j]
      BY <1>3, <3>1
    <3> QED
      BY <3>1, <3>2
  <2> QED
    BY <1>5, <2>1, <2>2 DEF ToSet
<1> QED
  BY <1>7, <1>8 DEF u, v, n

\* One element from either side of a cut.
LEMMA CutNext ==
  ASSUME NEW D, NEW s \in Seq(D), NEW p \in 1 .. Len(s)
  PROVE  /\ p \in 1 .. Len(s) + 1 /\ p + 1 \in 1 .. Len(s) + 1
         /\ s[p] \in D
         /\ Before(s, p + 1) = Before(s, p) \o <<s[p]>>
         /\ From(s, p) = <<s[p]>> \o From(s, p + 1)
<1> DEFINE n == Len(s)
<1>1. n \in Nat
  BY LenProperties
<1>2. /\ p \in 1 .. n + 1 /\ p + 1 \in 1 .. n + 1 /\ 1 \in 1 .. n /\ p \in 1 .. n
      /\ n \in p .. n /\ (p + 1) - 1 = p
  BY <1>1
<1>3. SubSeq(s, p, n) = <<s[p]>> \o SubSeq(s, p + 1, n)
  BY <1>2, SubSeqRecursiveFirst
<1>4. SubSeq(s, 1, p) = SubSeq(s, 1, p - 1) \o <<s[p]>>
  BY <1>2, SubSeqRecursiveSecond
<1>5. s[p] \in D
  BY ElementOfSeq
<1> QED
  BY <1>2, <1>3, <1>4, <1>5 DEF Before, From

LEMMA PlaceInHolds ==
  ASSUME NEW D, NEW s \in Seq(D), NEW c \in ToSet(s)
  PROVE  PlaceIn(s, c) \in 1 .. Len(s) /\ s[PlaceIn(s, c)] = c
<1>1. DOMAIN s = 1 .. Len(s)
  BY LenProperties
<1>2. \E i \in DOMAIN s : s[i] = c
  BY DEF ToSet
<1> QED
  BY <1>1, <1>2 DEF PlaceIn

-----------------------------------------------------------------------------
(* A sequence, and what is kept of it: places in the one that answer to      *)
(* places in the other.                                                      *)

Fits(s, t, S, p, k) ==
  /\ p \in 1 .. Len(s) + 1 /\ k \in 1 .. Len(t) + 1
  /\ Only(Before(s, p), S) = Before(t, k)
  /\ Only(From(s, p), S) = From(t, k)

LEMMA FitsEnd ==
  ASSUME NEW D, NEW s \in Seq(D), NEW S
  PROVE  Fits(s, Only(s, S), S, Len(s) + 1, Len(Only(s, S)) + 1)
<1> DEFINE t == Only(s, S)
           Ends(u) == /\ Len(u) + 1 \in 1 .. Len(u) + 1
                      /\ Before(u, Len(u) + 1) = u /\ From(u, Len(u) + 1) = <<>>
<1>1. ASSUME NEW u \in Seq(D)
      PROVE  Ends(u)
  <2>1. u \o <<>> = u /\ <<>> \in Seq(D)
    BY ConcatEmptySeq, EmptySeq
  <2> QED
    BY <2>1, CutConcat
<1>2. t \in Seq(D)
  BY OnlyHolds
<1>3. Ends(s) /\ Ends(t)
  BY <1>1, <1>2
<1> QED
  BY <1>3, OnlyEmpty DEF Fits

LEMMA SingleHolds ==
  ASSUME NEW D, NEW x \in D
  PROVE  /\ <<x>> \in Seq(D) /\ ToSet(<<x>>) = {x} /\ IsInjective(<<x>>) /\ Len(<<x>>) = 1
         /\ \A S : Only(<<x>>, S) = IF x \in S THEN <<x>> ELSE <<>>
<1> DEFINE e == <<>>
           w == Append(e, x)
<1>1. <<x>> = w /\ Len(w) = 1
  OBVIOUS
<1>2. e \in Seq(D) /\ ToSet(e) = {} /\ IsInjective(e) /\ \A S : Only(e, S) = e
  BY EmptyHolds, OnlyEmpty, EmptySeq
<1>3. e = <<>>
  OBVIOUS
<1> HIDE DEF e
<1>4. w \in Seq(D) /\ ToSet(w) = {x} /\ IsInjective(w)
  BY <1>2, AppendedHolds
<1>5. ASSUME NEW S
      PROVE  Only(w, S) = IF x \in S THEN w ELSE e
  BY <1>2, OnlyAppend
<1> HIDE DEF w
<1> QED
  BY <1>1, <1>3, <1>4, <1>5

\* A part that is kept whole, between two others.
Middle(a, w, b, S) ==
  /\ Only(a \o w, S) = Only(a, S) \o w
  /\ Only(w \o b, S) = w \o Only(b, S)
  /\ Only(a \o (w \o b), S) = Only(a, S) \o (w \o Only(b, S))

LEMMA OnlyMiddle ==
  ASSUME NEW D, NEW a \in Seq(D), NEW w \in Seq(D), NEW b \in Seq(D), NEW S, Only(w, S) = w
  PROVE  Middle(a, w, b, S)
<1>1. a \o w \in Seq(D) /\ w \o b \in Seq(D)
  BY ConcatProperties
<1>3. a \in Seq(D) /\ w \in Seq(D) /\ b \in Seq(D)
  OBVIOUS
<1>4. /\ Only(a \o w, S) = Only(a, S) \o Only(w, S)
      /\ Only(w \o b, S) = Only(w, S) \o Only(b, S)
  BY ONLY <1>3, OnlyConcat, SMTT(30)
<1>5. Only(a \o (w \o b), S) = Only(a, S) \o Only(w \o b, S)
  <2> DEFINE v == w \o b
  <2>1. a \in Seq(D) /\ v \in Seq(D)
    BY <1>1
  <2> HIDE DEF v
  <2>2. Only(a \o v, S) = Only(a, S) \o Only(v, S)
    BY ONLY <2>1, OnlyConcat
  <2> QED
    BY <2>2 DEF v
<1> QED
  BY <1>4, <1>5 DEF Middle

\* An element of an injective sequence has one place in it.
LEMMA OnePlace ==
  ASSUME NEW D, NEW A \in Seq(D), NEW B \in Seq(D), NEW c \in D,
         IsInjective(A \o (<<c>> \o B))
  PROVE  /\ Len(A) + 1 \in 1 .. Len(A \o (<<c>> \o B))
         /\ \A k \in 1 .. Len(A \o (<<c>> \o B)) :
              (A \o (<<c>> \o B))[k] = c => k = Len(A) + 1
<1> DEFINE w == <<c>>
           t == A \o (w \o B)
<1>1. w \in Seq(D) /\ Len(w) = 1 /\ \A u \in Seq(D) : Append(u, c) = u \o w
  BY SingleHolds, AppendIsConcat
<1>2. IsInjective(t)
  OBVIOUS
<1> HIDE DEF w
<1>3. t \in Seq(D) /\ t = (A \o w) \o B /\ A \o w \in Seq(D) /\ A \o w = Append(A, c)
  <2>1. A \in Seq(D) /\ w \in Seq(D) /\ B \in Seq(D)
    BY <1>1
  <2>2. A \o w \in Seq(D) /\ w \o B \in Seq(D)
    BY ONLY <2>1, ConcatProperties
  <2>3. A \o (w \o B) \in Seq(D)
    BY ONLY <2>1, <2>2, ConcatProperties
  <2>4. (A \o w) \o B = A \o (w \o B)
    BY ONLY <2>1, ConcatAssociative
  <2> QED
    BY <1>1, <2>2, <2>3, <2>4
<1> DEFINE u == A \o w
<1>4. u \in Seq(D) /\ Len(u) = Len(A) + 1 /\ u[Len(A) + 1] = c /\ Len(A) \in Nat
      /\ Len(B) \in Nat
  BY <1>3, AppendProperties, LenProperties
<1>5. t = u \o B
  BY <1>3
<1> HIDE DEF t, u
<1>6. Len(t) = Len(u) + Len(B) /\ DOMAIN t = 1 .. Len(t)
  BY <1>3, <1>4, <1>5, ConcatProperties, LenProperties
<1>7. Len(A) + 1 \in 1 .. Len(u) + Len(B) /\ Len(A) + 1 <= Len(u)
  BY <1>4
<1>8. t[Len(A) + 1] = u[Len(A) + 1]
  BY <1>4, <1>5, <1>7, ConcatProperties
<1>9. \A k \in 1 .. Len(t) : t[k] = c => k = Len(A) + 1
  BY <1>2, <1>4, <1>6, <1>7, <1>8 DEF IsInjective
<1> QED
  BY <1>6, <1>7, <1>9 DEF t, w

\* The same element in both.
Answers(s, t, S, p, k) ==
  /\ IsInjective(s) /\ t = Only(s, S)
  /\ p \in 1 .. Len(s) /\ k \in 1 .. Len(t) /\ s[p] = t[k]

\* The places before it and after it answer to each other.
LEMMA FitsAt ==
  ASSUME NEW D, NEW s \in Seq(D), NEW S, NEW t, NEW p, NEW k, Answers(s, t, S, p, k)
  PROVE  Fits(s, t, S, p, k) /\ Fits(s, t, S, p + 1, k + 1)
<1> DEFINE c == s[p]
           a == Before(s, p)
           b == From(s, p + 1)
           w == <<c>>
<1>1. /\ p \in 1 .. Len(s) + 1 /\ p + 1 \in 1 .. Len(s) + 1 /\ c \in D
      /\ Before(s, p + 1) = a \o w /\ From(s, p) = w \o b
  BY CutNext DEF Answers
<1>2. a \in Seq(D) /\ b \in Seq(D) /\ s = a \o (w \o b)
  BY <1>1, CutHolds
<1>3. t \in Seq(D) /\ IsInjective(t) /\ ToSet(t) = ToSet(s) \cap S
  BY OnlyHolds DEF Answers
<1>4. c \in S /\ t[k] = c /\ k \in 1 .. Len(t)
  <2>1. DOMAIN t = 1 .. Len(t)
    BY <1>3, LenProperties
  <2> QED
    BY <1>3, <2>1 DEF ToSet, Answers
<1>5. w \in Seq(D) /\ Only(w, S) = w /\ Len(w) = 1 /\ \A u \in Seq(D) : Append(u, c) = u \o w
  BY <1>1, <1>4, SingleHolds, AppendIsConcat
<1> DEFINE A == Only(a, S)
           B == Only(b, S)
<1>6. /\ Only(a \o w, S) = A \o w /\ Only(w \o b, S) = w \o B
      /\ Only(a \o (w \o b), S) = A \o (w \o B)
  <2> HIDE DEF a, b, w
  <2>1. a \in Seq(D) /\ b \in Seq(D) /\ w \in Seq(D) /\ Only(w, S) = w
    BY <1>2, <1>5
  <2>2. Middle(a, w, b, S)
    BY ONLY <2>1, OnlyMiddle
  <2> QED
    BY <2>2 DEF Middle
<1>7. t = A \o (w \o B)
  BY <1>2, <1>6 DEF Answers
<1>8. A \in Seq(D) /\ B \in Seq(D)
  BY <1>2, OnlyHolds
<1>9. k = Len(A) + 1
  <2> HIDE DEF A, B, c
  <2> QED
    BY <1>1, <1>3, <1>4, <1>7, <1>8, OnePlace
<1>10. /\ k \in 1 .. Len(t) + 1 /\ k + 1 \in 1 .. Len(t) + 1
       /\ Before(t, k) = A /\ From(t, k) = w \o B
       /\ Before(t, k + 1) = A \o w /\ From(t, k + 1) = B
  <2> HIDE DEF A, B, w, c
  <2>5. A \in Seq(D) /\ w \in Seq(D) /\ B \in Seq(D)
    BY <1>5, <1>8
  <2>6. A \o w \in Seq(D) /\ w \o B \in Seq(D) /\ (A \o w) \o B = A \o (w \o B)
    BY ONLY <2>5, ConcatProperties, ConcatAssociative
  <2>1. A \o w \in Seq(D) /\ w \o B \in Seq(D) /\ t = (A \o w) \o B
    BY <1>7, <2>6
  <2>2. Len(A \o w) = k
    <3>1. Append(A, c) = A \o w
      BY <1>5, <1>8
    <3> QED
      BY <1>1, <1>8, <1>9, <3>1, AppendProperties
  <2>3. k \in 1 .. Len(t) + 1 /\ Before(t, k) = A /\ From(t, k) = w \o B
    <3> DEFINE v == w \o B
    <3>1. A \in Seq(D) /\ v \in Seq(D) /\ t = A \o v
      BY <1>7, <1>8, <2>1
    <3> HIDE DEF v
    <3>2. k \in 1 .. Len(t) + 1 /\ Before(t, k) = A /\ From(t, k) = v
      BY ONLY <1>9, <3>1, CutConcat
    <3> QED
      BY <3>2 DEF v
  <2>4. k + 1 \in 1 .. Len(t) + 1 /\ Before(t, k + 1) = A \o w /\ From(t, k + 1) = B
    BY ONLY <1>8, <2>1, <2>2, CutConcat
  <2> QED
    BY <2>3, <2>4
<1> HIDE DEF A, B, w, c, a, b
<1>11. Fits(s, t, S, p, k)
  BY <1>1, <1>6, <1>10 DEF Fits, a, A
<1>12. Fits(s, t, S, p + 1, k + 1)
  BY <1>1, <1>6, <1>10 DEF Fits, b, B
<1> QED
  BY <1>11, <1>12

\* What is put in at answering places is put in at the same place.
LEMMA FitsInsert ==
  ASSUME NEW D, NEW s \in Seq(D), NEW S, NEW R, NEW t, NEW p, NEW k, Fits(s, t, S, p, k),
         NEW b \in Seq(D), ToSet(b) \subseteq R, ToSet(s) \cap S = ToSet(s) \cap R
  PROVE  Only(Inserted(s, p, b), R) = Inserted(t, k, b)
<1> DEFINE u == Before(s, p)
           v == From(s, p)
<1>1. /\ Inserted(s, p, b) = (u \o b) \o v
      /\ Inserted(t, k, b) = (Before(t, k) \o b) \o From(t, k)
  BY DEF Inserted, Before, From
<1>2. u \in Seq(D) /\ v \in Seq(D) /\ s = u \o v
  BY CutHolds DEF Fits
<1>3. Only(u, S) = Before(t, k) /\ Only(v, S) = From(t, k)
  BY DEF Fits
<1> HIDE DEF u, v
<1>4. ToSet(s) = ToSet(u) \cup ToSet(v)
  BY <1>2, ConcatHolds
<1>5. ToSet(u) \cap S = ToSet(u) \cap R /\ ToSet(v) \cap S = ToSet(v) \cap R
  BY <1>4
<1>6. Only(u, R) = Only(u, S) /\ Only(v, R) = Only(v, S)
  BY <1>2, <1>5, OnlyAgree
<1>7. b \in Seq(D) /\ Only(b, R) = b
  BY OnlyAll
<1>8. Only(u \o b, R) = Only(u, R) \o b
  BY ONLY <1>2, <1>7, OnlyMiddle, SMTT(30) DEF Middle
<1> DEFINE w == u \o b
<1>9. w \in Seq(D) /\ v \in Seq(D)
  BY <1>2, ConcatProperties
<1> HIDE DEF w
<1>10. Only(w \o v, R) = Only(w, R) \o Only(v, R)
  BY ONLY <1>9, OnlyConcat, SMTT(30)
<1> QED
  BY <1>1, <1>3, <1>6, <1>8, <1>10 DEF w

LEMMA FitsOrder ==
  ASSUME NEW D, NEW s \in Seq(D), NEW S, NEW t, NEW p, NEW k, Answers(s, t, S, p, k),
         NEW q, NEW j, Answers(s, t, S, q, j)
  PROVE  p <= q <=> k <= j
<1>1. t \in Seq(D) /\ IsInjective(t) /\ ToSet(t) = ToSet(s) \cap S
  BY OnlyHolds DEF Answers
<1>2. DOMAIN t = 1 .. Len(t) /\ DOMAIN s = 1 .. Len(s) /\ Len(s) \in Nat /\ Len(t) \in Nat
  BY <1>1, LenProperties
<1>3. ASSUME NEW p1, NEW k1, Answers(s, t, S, p1, k1),
             NEW q1, NEW j1, Answers(s, t, S, q1, j1), p1 < q1
      PROVE  k1 < j1
  <2> DEFINE c == s[p1]
             u == Before(s, q1)
             v == Before(t, j1)
  <2>1. Fits(s, t, S, q1, j1)
    BY <1>3, FitsAt
  <2>2. v = Only(u, S) /\ q1 \in 1 .. Len(s) + 1 /\ j1 \in 1 .. Len(t) + 1
    BY <2>1 DEF Fits
  <2>3. u \in Seq(D) /\ ToSet(u) = {s[i] : i \in 1 .. q1 - 1}
        /\ ToSet(v) = {t[i] : i \in 1 .. j1 - 1}
    <3>1. u \in Seq(D) /\ ToSet(u) = {s[i] : i \in 1 .. q1 - 1}
      <4>1. q1 \in 1 .. Len(s) + 1
        BY <2>2
      <4> QED
        BY ONLY <4>1, s \in Seq(D), CutHolds, ElementsBefore
    <3>2. ToSet(v) = {t[i] : i \in 1 .. j1 - 1}
      BY ONLY <1>1, <2>2, ElementsBefore
    <3> QED
      BY <3>1, <3>2
  <2>4. p1 \in 1 .. Len(s) /\ q1 \in 1 .. Len(s) /\ k1 \in 1 .. Len(t) /\ j1 \in 1 .. Len(t)
        /\ c = t[k1]
    BY <1>3 DEF Answers
  <2>5. p1 \in 1 .. q1 - 1
    BY <1>2, <1>3, <2>4
  <2>6. c \in ToSet(u)
    BY <2>3, <2>5
  <2>7. c \in S
    BY <1>1, <1>2, <2>4 DEF ToSet
  <2> HIDE DEF c, u, v
  <2>8. ToSet(v) = ToSet(u) \cap S
    BY <2>2, <2>3, OnlyHolds
  <2>9. PICK i \in 1 .. j1 - 1 : c = t[i]
    BY <2>3, <2>6, <2>7, <2>8
  <2>10. i \in DOMAIN t /\ k1 \in DOMAIN t
    BY <1>2, <2>4
  <2>11. i = k1
    BY <1>1, <2>4, <2>9, <2>10 DEF IsInjective
  <2> QED
    BY <1>2, <2>4, <2>11
<1>4. /\ p \in 1 .. Len(s) /\ q \in 1 .. Len(s) /\ k \in 1 .. Len(t) /\ j \in 1 .. Len(t)
      /\ s[p] = t[k] /\ s[q] = t[j]
  BY DEF Answers
<1>5. p < q => k < j
  BY <1>3
<1>6. q < p => j < k
  BY <1>3
<1>7. p = q => k = j
  BY <1>1, <1>2, <1>4 DEF IsInjective
<1> QED
  BY <1>2, <1>4, <1>5, <1>6, <1>7

-----------------------------------------------------------------------------
(* Two elements that change places.                                          *)

Other(x, c, a) == IF x = c THEN a ELSE IF x = a THEN c ELSE x

LEMMA ExchangedAppend ==
  ASSUME NEW D, NEW c \in D, NEW a \in D, NEW s \in Seq(D), NEW x \in D
  PROVE  /\ Exchanged(s, c, a) \in Seq(D) /\ Other(x, c, a) \in D
         /\ Exchanged(Append(s, x), c, a) = Append(Exchanged(s, c, a), Other(x, c, a))
<1> DEFINE t == Append(s, x)
           n == Len(s)
           f == Exchanged(s, c, a)
           g == Exchanged(t, c, a)
           y == Other(x, c, a)
<1>1. /\ n \in Nat /\ t \in Seq(D) /\ Len(t) = n + 1 /\ t[n + 1] = x
      /\ \A i \in 1 .. n : t[i] = s[i]
  BY AppendProperties, LenProperties
<1>2. DOMAIN s = 1 .. n /\ DOMAIN t = 1 .. n + 1 /\ \A i \in 1 .. n : s[i] \in D
  BY <1>1, LenProperties
<1>3. y \in D
  BY DEF Other
<1> HIDE DEF t, n, y
<1>4. f = [i \in 1 .. n |-> Other(s[i], c, a)] /\ g = [i \in 1 .. n + 1 |-> Other(t[i], c, a)]
  BY <1>2 DEF Exchanged, Other
<1>5. \A i \in 1 .. n : Other(s[i], c, a) \in D
  BY <1>2 DEF Other
<1>6. f \in Seq(D) /\ Len(f) = n
  BY <1>1, <1>4, <1>5
<1> HIDE DEF f, g
<1> DEFINE h == Append(f, y)
<1>7. /\ h \in Seq(D) /\ Len(h) = n + 1 /\ h[n + 1] = y
      /\ \A i \in 1 .. n : h[i] = f[i]
  BY <1>3, <1>6, AppendProperties
<1> HIDE DEF h
<1>8. \A i \in 1 .. n + 1 : i \in 1 .. n \/ i = n + 1
  BY <1>1
<1>9. g[n + 1] = y /\ n + 1 \in 1 .. n + 1
  BY <1>1, <1>4 DEF y
<1>10. \A i \in 1 .. n : i \in 1 .. n + 1 /\ g[i] = f[i]
  BY <1>1, <1>4
<1>11. \A i \in 1 .. n + 1 : g[i] = h[i]
  BY <1>7, <1>8, <1>9, <1>10
<1>12. \A i \in 1 .. n + 1 : h[i] \in D
  BY <1>7, ElementOfSeq
<1>13. g \in Seq(D) /\ Len(g) = n + 1
  <2>1. DOMAIN g = 1 .. n + 1 /\ \A i \in 1 .. n + 1 : g[i] \in D
    BY <1>4, <1>11, <1>12
  <2>2. g \in [1 .. n + 1 -> D] /\ n + 1 \in Nat
    BY <1>1, <1>4, <2>1
  <2> QED
    BY <2>2
<1>14. g = h
  BY <1>7, <1>11, <1>13, SeqEqual
<1> QED
  BY <1>3, <1>6, <1>14 DEF f, g, h, t, y

Exchange(s, S, c, a, f) ==
  /\ Len(f) = Len(s) /\ ToSet(f) = {Other(x, c, a) : x \in ToSet(s)}
  /\ IsInjective(s) => IsInjective(f)
  /\ Only(f, S) = Exchanged(Only(s, S), c, a)

LEMMA ExchangedHolds ==
  ASSUME NEW D, NEW s \in Seq(D), NEW S, NEW c \in D, NEW a \in D,
         c \in S, a \in S
  PROVE  Exchanged(s, c, a) \in Seq(D) /\ Exchange(s, S, c, a, Exchanged(s, c, a))
<1> DEFINE n == Len(s)
           f == Exchanged(s, c, a)
<1>1. n \in Nat /\ DOMAIN s = 1 .. n /\ \A i \in 1 .. n : s[i] \in D
  BY LenProperties
<1>2. f = [i \in 1 .. n |-> Other(s[i], c, a)]
  BY <1>1 DEF Exchanged, Other
<1>3. \A i \in 1 .. n : Other(s[i], c, a) \in D
  BY <1>1 DEF Other
<1>4. f \in Seq(D) /\ Len(f) = n /\ DOMAIN f = 1 .. n
  BY <1>1, <1>2, <1>3
<1>5. ToSet(f) = {Other(x, c, a) : x \in ToSet(s)}
  <2>1. \A i \in 1 .. n : f[i] = Other(s[i], c, a)
    BY <1>2
  <2> HIDE DEF f, n
  <2> QED
    BY <1>1, <1>4, <2>1, Zenon DEF ToSet
<1>6. IsInjective(s) => IsInjective(f)
  <2>1. \A x, y : Other(x, c, a) = Other(y, c, a) => x = y
    BY DEF Other
  <2>2. \A i \in 1 .. n : f[i] = Other(s[i], c, a)
    BY <1>2
  <2> HIDE DEF f, n
  <2> QED
    BY <1>1, <1>4, <2>1, <2>2 DEF IsInjective
<1>7. Only(f, S) = Exchanged(Only(s, S), c, a)
  <2> DEFINE Good(u) == Only(Exchanged(u, c, a), S) = Exchanged(Only(u, S), c, a)
             Bad == {u \in Seq(D) : ~Good(u)}
  <2> SUFFICES ASSUME Bad # {}
               PROVE  FALSE
    OBVIOUS
  <2>1. <<>> \notin Bad
    <3>1. Exchanged(<<>>, c, a) = <<>>
      BY DEF Exchanged
    <3> QED
      BY <3>1, OnlyEmpty
  <2>2. PICK u \in Seq(D), x \in D : u \notin Bad /\ Append(u, x) \in Bad
    <3> HIDE DEF Good
    <3>1. Bad \subseteq Seq(D) /\ Bad # {}
      OBVIOUS
    <3> HIDE DEF Bad
    <3> QED
      BY <2>1, <3>1, ShortestBad
  <2>3. Good(u)
    BY <2>2
  <2> DEFINE y == Other(x, c, a)
             v == Exchanged(u, c, a)
             o == Only(u, S)
  <2>4. v \in Seq(D) /\ y \in D /\ Exchanged(Append(u, x), c, a) = Append(v, y)
    BY ExchangedAppend
  <2>5. o \in Seq(D) /\ Exchanged(Append(o, x), c, a) = Append(Exchanged(o, c, a), y)
    BY OnlyHolds, ExchangedAppend
  <2>6. Only(Append(u, x), S) = IF x \in S THEN Append(o, x) ELSE o
    BY OnlyAppend
  <2>7. y \in S <=> x \in S
    BY DEF Other
  <2> HIDE DEF y, v, o
  <2>8. Only(Append(v, y), S) = IF y \in S THEN Append(Only(v, S), y) ELSE Only(v, S)
    BY ONLY <2>4, OnlyAppend
  <2>9. Only(v, S) = Exchanged(o, c, a)
    BY <2>3 DEF v, o
  <2>10. Good(Append(u, x))
    BY <2>4, <2>5, <2>6, <2>7, <2>8, <2>9
  <2> QED
    BY <2>2, <2>10
<1> QED
  BY <1>4, <1>5, <1>6, <1>7 DEF Exchange

-----------------------------------------------------------------------------
(* The window.                                                               *)

Out == {{"removed"}, {"ignored"}}
Record ==
  [type : {{}, {"enclosed"}} \cup Out, enclosed : 0 .. EnclosedModulus - 1,
   local_number : Nat, mark : Marks]

Shown(f) == {c \in DOMAIN f : f[c].type = {}}

\* The lists of a window that starts with b, when its cohorts are as f has them.
Listing(all, cs, f, b) ==
  /\ all \in Seq(Nat) /\ IsInjective(all) /\ f \in [ToSet(all) -> Record]
  /\ all # <<>> /\ all[1] = b /\ f[b].type = {}
  /\ cs = Only(all, Shown(f))

Numbered(cs, f) == \A i \in 1 .. Len(cs) : f[cs[i]].local_number = i - 1

LEMMA ModulusHolds ==
  /\ EnclosedModulus \in Nat /\ EnclosedModulus > 1
  /\ 0 \in 0 .. EnclosedModulus - 1
  /\ MaxPass \in Nat /\ MaxEdits \in Nat
<1>1. EnclosedModulus \in Nat \ {0, 1} /\ MaxPass \in Nat /\ MaxEdits \in Nat
  BY CohortsAssumption
<1> QED
  BY <1>1

LEMMA HeadHolds ==
  ASSUME NEW D, NEW s \in Seq(D), 1 \in 1 .. Len(s)
  PROVE  s = <<s[1]>> \o From(s, 2) /\ From(s, 2) \in Seq(D) /\ s[1] \in D
<1>1. 1 + 1 = 2
  OBVIOUS
<1>2. From(s, 1) = s
  BY SubSeqFull DEF From
<1>3. 2 \in 1 .. Len(s) + 1 /\ s[1] \in D /\ From(s, 1) = <<s[1]>> \o From(s, 2)
  BY <1>1, CutNext
<1>4. From(s, 2) \in Seq(D)
  BY <1>3, CutHolds
<1> QED
  BY <1>2, <1>3, <1>4

LEMMA ConsHolds ==
  ASSUME NEW D, NEW x \in D, NEW v \in Seq(D)
  PROVE  /\ <<x>> \o v \in Seq(D) /\ 1 \in 1 .. Len(<<x>> \o v) /\ (<<x>> \o v)[1] = x
<1> DEFINE w == <<x>>
<1>1. w \in Seq(D) /\ Len(w) = 1 /\ w[1] = x
  BY SingleHolds
<1> HIDE DEF w
<1>2. Len(v) \in Nat
  BY LenProperties
<1>3. /\ w \o v \in Seq(D) /\ Len(w \o v) = Len(w) + Len(v)
      /\ \A i \in 1 .. Len(w) + Len(v) : (w \o v)[i] = IF i <= Len(w) THEN w[i] ELSE v[i - Len(w)]
  BY <1>1, ConcatProperties
<1>4. 1 \in 1 .. Len(w) + Len(v) /\ 1 <= Len(w)
  BY <1>1, <1>2
<1> QED
  BY <1>1, <1>3, <1>4 DEF w

LEMMA OnlyFirst ==
  ASSUME NEW D, NEW s \in Seq(D), NEW S, 1 \in 1 .. Len(s), s[1] \in S
  PROVE  1 \in 1 .. Len(Only(s, S)) /\ Only(s, S)[1] = s[1]
<1> DEFINE x == s[1]
           u == From(s, 2)
           v == Only(u, S)
           w == <<x>>
<1>1. s = w \o u /\ u \in Seq(D) /\ x \in D
  BY HeadHolds
<1>2. w \in Seq(D) /\ Only(w, S) = w
  BY <1>1, SingleHolds
<1> HIDE DEF x, u, w
<1>3. Only(w \o u, S) = Only(w, S) \o Only(u, S)
  <2>1. w \in Seq(D) /\ u \in Seq(D)
    BY <1>1, <1>2
  <2> QED
    BY ONLY <2>1, OnlyConcat
<1>4. Only(s, S) = w \o v
  BY <1>1, <1>2, <1>3
<1>5. v \in Seq(D)
  BY <1>1, OnlyHolds
<1> HIDE DEF v
<1>6. 1 \in 1 .. Len(w \o v) /\ (w \o v)[1] = x
  BY <1>1, <1>5, ConsHolds DEF w
<1> QED
  BY <1>4, <1>6 DEF x

\* What a listing says of what rules see.
LEMMA ListingHolds ==
  ASSUME NEW all, NEW cs, NEW f, NEW b, Listing(all, cs, f, b)
  PROVE  /\ cs \in Seq(Nat) /\ IsInjective(cs)
         /\ ToSet(cs) = Shown(f) /\ Shown(f) \subseteq ToSet(all)
         /\ DOMAIN f = ToSet(all) /\ ToSet(all) \subseteq Nat
         /\ Len(all) \in Nat /\ Len(cs) \in Nat
         /\ 1 \in 1 .. Len(all) /\ 1 \in 1 .. Len(cs) /\ cs[1] = b
         /\ b \in Shown(f)
<1>1. /\ all \in Seq(Nat) /\ IsInjective(all) /\ DOMAIN f = ToSet(all)
      /\ all # <<>> /\ all[1] = b /\ f[b].type = {} /\ cs = Only(all, Shown(f))
  BY DEF Listing
<1>2. Len(all) \in Nat /\ DOMAIN all = 1 .. Len(all) /\ \A i \in 1 .. Len(all) : all[i] \in Nat
  BY <1>1, LenProperties
<1>3. Shown(f) \subseteq ToSet(all)
  BY <1>1 DEF Shown
<1>4. cs \in Seq(Nat) /\ IsInjective(cs) /\ ToSet(cs) = Shown(f)
  <2> DEFINE S == Shown(f)
  <2>1. all \in Seq(Nat) /\ IsInjective(all) /\ cs = Only(all, S) /\ S \subseteq ToSet(all)
    BY <1>1, <1>3
  <2> HIDE DEF S
  <2>2. Only(all, S) \in Seq(Nat) /\ IsInjective(Only(all, S)) /\ ToSet(Only(all, S)) = ToSet(all) \cap S
    BY ONLY <2>1, OnlyHolds
  <2> QED
    BY <2>1, <2>2 DEF S
<1>5. ToSet(all) \subseteq Nat
  BY <1>2 DEF ToSet
<1>6. Len(cs) \in Nat
  BY <1>4, LenProperties
<1>7. 1 \in 1 .. Len(all)
  BY <1>1, <1>2, EmptySeq
<1>8. b \in ToSet(all) /\ b \in Shown(f)
  BY <1>1, <1>2, <1>7 DEF ToSet, Shown
<1>9. 1 \in 1 .. Len(cs) /\ cs[1] = b
  <2> DEFINE V == Shown(f)
  <2>1. all \in Seq(Nat) /\ 1 \in 1 .. Len(all) /\ all[1] = b /\ b \in V /\ cs = Only(all, V)
    BY <1>1, <1>7, <1>8
  <2> HIDE DEF V
  <2> QED
    BY ONLY <2>1, OnlyFirst
<1> QED
  BY <1>1, <1>2, <1>3, <1>4, <1>5, <1>6, <1>7, <1>8, <1>9

\* Renumbering changes nothing but local_number, and makes it the place.
LEMMA RenumberedHolds ==
  ASSUME NEW X, NEW f \in [X -> Record], NEW cs \in Seq(Nat), IsInjective(cs),
         ToSet(cs) \subseteq X, NEW from \in Nat \ {0}
  PROVE  /\ Renumbered(f, cs, from) \in [X -> Record]
         /\ \A c \in X : /\ Renumbered(f, cs, from)[c].type = f[c].type
                         /\ Renumbered(f, cs, from)[c].enclosed = f[c].enclosed
                         /\ Renumbered(f, cs, from)[c].mark = f[c].mark
         /\ \A i \in 1 .. Len(cs) :
              Renumbered(f, cs, from)[cs[i]].local_number
                = IF i >= from THEN i - 1 ELSE f[cs[i]].local_number
<1> DEFINE n == Len(cs)
           g == Renumbered(f, cs, from)
           Latest(c) == CHOOSE i \in from .. n : cs[i] = c /\ \A j \in i + 1 .. n : cs[j] # c
           Put(c) == IF \E i \in from .. n : cs[i] = c
                     THEN [f[c] EXCEPT !.local_number = Latest(c) - 1]
                     ELSE f[c]
<1>1. DOMAIN cs = 1 .. n /\ n \in Nat
  BY LenProperties
<1>2. DOMAIN f = X
  OBVIOUS
<1>3. g = [c \in X |-> Put(c)]
  BY <1>2 DEF Renumbered
<1> HIDE DEF g, n
<1>4. ASSUME NEW i \in from .. n
      PROVE  Latest(cs[i]) = i
  <2>1. i \in 1 .. n /\ \A j \in from .. n : j \in 1 .. n
    BY <1>1
  <2>2. \A j \in 1 .. n : cs[j] = cs[i] => j = i
    BY <1>1, <2>1 DEF IsInjective
  <2>3. \A j \in i + 1 .. n : j \in 1 .. n /\ j # i
    BY <1>1
  <2> QED
    BY <2>1, <2>2, <2>3
<1> HIDE DEF Latest
<1>5. ASSUME NEW c \in X
      PROVE  /\ Put(c) \in Record
             /\ Put(c).type = f[c].type /\ Put(c).enclosed = f[c].enclosed
             /\ Put(c).mark = f[c].mark
  <2>1. f[c] \in Record
    OBVIOUS
  <2>2. CASE \E i \in from .. n : cs[i] = c
    <3>1. PICK i \in from .. n : cs[i] = c
      BY <2>2
    <3>2. Latest(c) = i /\ i - 1 \in Nat
      BY <1>1, <1>4, <3>1
    <3>3. Put(c) = [f[c] EXCEPT !.local_number = i - 1]
      BY <2>2, <3>2
    <3> QED
      BY <2>1, <3>2, <3>3 DEF Record
  <2>3. CASE ~ \E i \in from .. n : cs[i] = c
    BY <2>1, <2>3
  <2> QED
    BY <2>2, <2>3
<1>6. \A i \in 1 .. n : cs[i] \in X
  BY <1>1 DEF ToSet
<1>7. ASSUME NEW i \in 1 .. n, i >= from
      PROVE  Put(cs[i]).local_number = i - 1
  <2>1. i \in from .. n
    BY <1>1, <1>7
  <2>2. Put(cs[i]) = [f[cs[i]] EXCEPT !.local_number = i - 1]
    BY <1>4, <2>1
  <2>3. f[cs[i]] \in Record
    BY <1>6
  <2> QED
    BY <2>2, <2>3 DEF Record
<1>8. ASSUME NEW i \in 1 .. n, ~ (i >= from)
      PROVE  Put(cs[i]) = f[cs[i]]
  <2>1. \A j \in from .. n : j \in 1 .. n /\ j # i
    BY <1>1, <1>8
  <2>2. \A j \in from .. n : cs[j] # cs[i]
    BY <1>1, <2>1 DEF IsInjective
  <2> QED
    BY <2>2
<1> HIDE DEF Put
<1>9. \A c \in X : g[c] = Put(c)
  BY <1>3
<1>10. g \in [X -> Record]
  BY <1>3, <1>5
<1> QED
  BY <1>5, <1>6, <1>7, <1>8, <1>9, <1>10 DEF g, n

\* Renumbering the list keeps it a list of the same cohorts.
Relisted(all, cs, f, g, b) ==
  /\ Listing(all, cs, g, b) /\ Numbered(cs, g)
  /\ DOMAIN g = DOMAIN f
  /\ \A c \in DOMAIN f : /\ g[c].type = f[c].type /\ g[c].enclosed = f[c].enclosed
                         /\ g[c].mark = f[c].mark

LEMMA RelistedFrom ==
  ASSUME NEW all, NEW cs, NEW f, NEW b, Listing(all, cs, f, b), NEW k \in Nat \ {0},
         \A i \in 1 .. Len(cs) : i < k => f[cs[i]].local_number = i - 1
  PROVE  Relisted(all, cs, f, Renumbered(f, cs, k), b)
<1> DEFINE g == Renumbered(f, cs, k)
           X == ToSet(all)
<1>1. /\ cs \in Seq(Nat) /\ IsInjective(cs) /\ ToSet(cs) \subseteq X /\ DOMAIN f = X
      /\ b \in X /\ Len(cs) \in Nat
  BY ListingHolds
<1>2. f \in [X -> Record]
  BY DEF Listing
<1> HIDE DEF g, X
<1>3. /\ g \in [X -> Record]
      /\ \A c \in X : /\ g[c].type = f[c].type /\ g[c].enclosed = f[c].enclosed
                      /\ g[c].mark = f[c].mark
      /\ \A i \in 1 .. Len(cs) :
           g[cs[i]].local_number = IF i >= k THEN i - 1 ELSE f[cs[i]].local_number
  BY <1>1, <1>2, RenumberedHolds DEF g
<1>4. DOMAIN g = X
  BY <1>3
<1>5. Shown(g) = Shown(f)
  BY <1>1, <1>3, <1>4 DEF Shown
<1>6. Listing(all, cs, g, b)
  BY <1>1, <1>3, <1>5 DEF Listing, X
<1>7. Numbered(cs, g)
  <2> SUFFICES ASSUME NEW i \in 1 .. Len(cs)
               PROVE  g[cs[i]].local_number = i - 1
    BY DEF Numbered
  <2>1. i >= k \/ i < k
    BY <1>1
  <2>2. g[cs[i]].local_number = IF i >= k THEN i - 1 ELSE f[cs[i]].local_number
    BY <1>3
  <2>3. i < k => f[cs[i]].local_number = i - 1
    OBVIOUS
  <2> QED
    BY <2>1, <2>2, <2>3
<1> QED
  BY <1>1, <1>3, <1>4, <1>6, <1>7 DEF g, Relisted

LEMMA RelistedHolds ==
  ASSUME NEW all, NEW cs, NEW f, NEW b, Listing(all, cs, f, b)
  PROVE  Relisted(all, cs, f, Renumbered(f, cs, 1), b)
<1>1. 1 \in Nat \ {0} /\ \A i \in 1 .. Len(cs) : ~ (i < 1)
  BY ListingHolds
<1> QED
  BY <1>1, RelistedFrom

-----------------------------------------------------------------------------
(* The inductive invariant.  A cohort that a rule took out keeps its depth,  *)
(* which unpacking lowers by one each time it passes: modulo                 *)
(* EnclosedModulus, far from the depth at which it would be shown again.     *)

Deep(f, c, n) ==
  f[c].type \in Out => f[c].enclosed = 0 \/ f[c].enclosed >= EnclosedModulus - n

\* How often unpacking may have passed the position i so far.
Lowered(i) ==
  IF pc = "pass" THEN 2 * pass
  ELSE IF pc = "unpack"
  THEN (2 * pass - 2) + (IF did_final_enclosure THEN 1 ELSE 0) + (IF i < sweep THEN 1 ELSE 0)
  ELSE 2 * pass - 2

DepthsLow ==
  pc # "done" => \A i \in 1 .. Len(all_cohorts) : Deep(co, all_cohorts[i], Lowered(i))

\* What is visible is not deep.
DepthsHide ==
  pc # "done" => \A c \in DOMAIN co : co[c].enclosed # 0 => co[c].type # {}

\* A window that DELIMIT cuts is run again, with what was taken out of it still
\* in all_cohorts.  Grammars that do both are for windows without parentheses.
Cuts == {"REMCOHORT", "IGNORE", "MERGECOHORTS", "SPLITCOHORT"}
DoesBoth(rules) == "DELIMIT" \in rules /\ rules \cap Cuts # {}

Flat ==
  DoesBoth(grammar.rules) =>
    \A c \in DOMAIN co : co[c].mark = "word" /\ co[c].enclosed = 0

\* Otherwise nothing is taken out before a window is wrapped.
Whole ==
  ~DoesBoth(grammar.rules) /\ (pc = "wrap" \/ "DELIMIT" \in grammar.rules) =>
    \A c \in DOMAIN co : co[c].type \notin Out

\* The >>> cohort has no parenthesis.
Opened == pc = "wrap" => co[begin].mark = "word"

Controlled ==
  /\ pc \in {"wrap", "pass", "rules", "unpack", "done"}
  /\ did_final_enclosure \in BOOLEAN
  /\ pass \in Nat /\ sweep \in Nat \ {0}
  /\ pc \in {"rules", "unpack"} => pass \in 1 .. MaxPass
  /\ \E case \in Cases : grammar.rules = case.rules /\ grammar.subtree = case.subtree

CohortInv ==
  /\ Controlled
  /\ Listing(all_cohorts, cohorts, co, begin) /\ Numbered(cohorts, co)
  /\ DepthsHide /\ DepthsLow /\ Flat /\ Whole /\ Opened

\* The records f that a rule leaves: a cohort is as it was, or new, or taken out.
Edited(f) ==
  \A c \in DOMAIN f :
    /\ DoesBoth(grammar.rules) => f[c].mark = "word"
    /\ \/ c \in DOMAIN co /\ f[c].enclosed = co[c].enclosed /\ f[c].type = co[c].type
       \/ /\ f[c].enclosed = 0
          /\ f[c].type = {} \/ (f[c].type \in Out /\ grammar.rules \cap Cuts # {})

LEMMA RuleHolds ==
  ASSUME CohortInv, pc = "rules", Rewritten, grammar' = grammar,
         NEW f, Listing(all_cohorts', cohorts', f, begin), Edited(f),
         co' = Renumbered(f, cohorts', 1)
  PROVE  CohortInv'
<1>1. pc' = pc /\ pass' = pass /\ sweep' = sweep /\ begin' = begin
      /\ did_final_enclosure' = did_final_enclosure
  BY DEF Rewritten, control
<1>2. /\ Listing(all_cohorts', cohorts', co', begin) /\ Numbered(cohorts', co')
      /\ DOMAIN co' = DOMAIN f
      /\ \A c \in DOMAIN f : /\ co'[c].type = f[c].type /\ co'[c].enclosed = f[c].enclosed
                              /\ co'[c].mark = f[c].mark
  <2>1. Relisted(all_cohorts', cohorts', f, co', begin)
    BY RelistedHolds
  <2> QED
    BY <2>1 DEF Relisted
<1>3. DOMAIN co = ToSet(all_cohorts) /\ DOMAIN co' = ToSet(all_cohorts')
  BY <1>2, ListingHolds DEF CohortInv
<1>4. /\ DOMAIN all_cohorts = 1 .. Len(all_cohorts)
      /\ DOMAIN all_cohorts' = 1 .. Len(all_cohorts')
  BY <1>2, LenProperties DEF Listing, CohortInv
<1>5. Controlled'
  BY <1>1 DEF Controlled, CohortInv
<1>6. DepthsHide'
  <2> SUFFICES ASSUME NEW c \in DOMAIN f, f[c].enclosed # 0
               PROVE  f[c].type # {}
    BY <1>2 DEF DepthsHide
  <2> QED
    BY DEF Edited, CohortInv, DepthsHide
<1>7. Whole'
  <2> SUFFICES ASSUME ~DoesBoth(grammar.rules), "DELIMIT" \in grammar.rules, NEW c \in DOMAIN f
               PROVE  f[c].type \notin Out
    BY <1>1, <1>2 DEF Whole
  <2>1. {} \notin Out /\ grammar.rules \cap Cuts = {}
    BY DEF Out, DoesBoth
  <2>2. \A d \in DOMAIN co : co[d].type \notin Out
    BY DEF CohortInv, Whole
  <2> QED
    BY <2>1, <2>2 DEF Edited
<1>10. Flat'
  <2> SUFFICES ASSUME DoesBoth(grammar.rules), NEW c \in DOMAIN f
               PROVE  f[c].mark = "word" /\ f[c].enclosed = 0
    BY <1>2 DEF Flat
  <2>1. \A d \in DOMAIN co : co[d].enclosed = 0
    BY DEF CohortInv, Flat
  <2> QED
    BY <2>1 DEF Edited
<1>8. DepthsLow'
  <2> SUFFICES ASSUME NEW i \in 1 .. Len(all_cohorts')
               PROVE  Deep(co', all_cohorts'[i], Lowered(i)')
    BY DEF DepthsLow
  <2> DEFINE c == all_cohorts'[i]
  <2>1. c \in DOMAIN f
    BY <1>2, <1>3, <1>4 DEF ToSet
  <2>2. Lowered(i)' = 2 * pass - 2
    BY <1>1 DEF Lowered
  <2> HIDE DEF c
  <2>3. CASE c \in DOMAIN co /\ f[c].enclosed = co[c].enclosed /\ f[c].type = co[c].type
    <3>1. PICK j \in 1 .. Len(all_cohorts) : c = all_cohorts[j]
      BY <1>3, <1>4, <2>3 DEF ToSet
    <3>2. Deep(co, c, Lowered(j)) /\ Lowered(j) = 2 * pass - 2
      BY <3>1 DEF CohortInv, DepthsLow, Lowered
    <3> QED
      BY <1>2, <2>1, <2>2, <2>3, <3>2 DEF Deep, c
  <2>4. CASE f[c].enclosed = 0
    BY <1>2, <2>1, <2>4 DEF Deep, c
  <2> QED
    BY <2>1, <2>3, <2>4 DEF Edited
<1>9. Opened'
  BY <1>1 DEF Opened
<1> QED
  BY <1>1, <1>2, <1>5, <1>6, <1>7, <1>8, <1>9, <1>10 DEF CohortInv

-----------------------------------------------------------------------------
(* Targets, subtrees and their places.                                       *)

LEMMA VisibleHolds ==
  ASSUME CohortInv
  PROVE  /\ all_cohorts \in Seq(Nat) /\ IsInjective(all_cohorts)
         /\ cohorts \in Seq(Nat) /\ IsInjective(cohorts)
         /\ ToSet(cohorts) = Shown(co) /\ Shown(co) \subseteq ToSet(all_cohorts)
         /\ DOMAIN co = ToSet(all_cohorts) /\ ToSet(all_cohorts) \subseteq Nat
         /\ co \in [ToSet(all_cohorts) -> Record]
         /\ Len(all_cohorts) \in Nat /\ Len(cohorts) \in Nat
         /\ DOMAIN cohorts = 1 .. Len(cohorts) /\ DOMAIN all_cohorts = 1 .. Len(all_cohorts)
         /\ cohorts = Only(all_cohorts, Shown(co))
         /\ begin \in Shown(co) /\ cohorts[1] = begin /\ all_cohorts[1] = begin
         /\ 1 \in 1 .. Len(all_cohorts) /\ 1 \in 1 .. Len(cohorts)
<1>1. Listing(all_cohorts, cohorts, co, begin)
  BY DEF CohortInv
<1>2. /\ all_cohorts \in Seq(Nat) /\ IsInjective(all_cohorts) /\ all_cohorts[1] = begin
      /\ co \in [ToSet(all_cohorts) -> Record] /\ cohorts = Only(all_cohorts, Shown(co))
  BY <1>1 DEF Listing
<1>3. /\ cohorts \in Seq(Nat) /\ IsInjective(cohorts)
      /\ ToSet(cohorts) = Shown(co) /\ Shown(co) \subseteq ToSet(all_cohorts)
      /\ DOMAIN co = ToSet(all_cohorts) /\ ToSet(all_cohorts) \subseteq Nat
      /\ Len(all_cohorts) \in Nat /\ Len(cohorts) \in Nat
      /\ 1 \in 1 .. Len(all_cohorts) /\ 1 \in 1 .. Len(cohorts) /\ cohorts[1] = begin
      /\ begin \in Shown(co)
  BY <1>1, ListingHolds
<1>4. DOMAIN cohorts = 1 .. Len(cohorts) /\ DOMAIN all_cohorts = 1 .. Len(all_cohorts)
  BY <1>2, <1>3, LenProperties
<1> QED
  BY <1>2, <1>3, <1>4

LEMMA LocalHolds ==
  ASSUME CohortInv, NEW c \in Shown(co)
  PROVE  /\ Local(c) \in 1 .. Len(cohorts) /\ cohorts[Local(c)] = c
         /\ \A i \in 1 .. Len(cohorts) : cohorts[i] = c => i = Local(c)
<1>1. /\ ToSet(cohorts) = Shown(co) /\ DOMAIN cohorts = 1 .. Len(cohorts)
      /\ Len(cohorts) \in Nat
  BY VisibleHolds
<1>2. \A i \in 1 .. Len(cohorts) : co[cohorts[i]].local_number = i - 1
  BY DEF CohortInv, Numbered
<1>3. PICK i \in 1 .. Len(cohorts) : cohorts[i] = c
  BY <1>1 DEF ToSet
<1>4. \A j \in 1 .. Len(cohorts) : cohorts[j] = c => Local(c) = j
  <2> SUFFICES ASSUME NEW j \in 1 .. Len(cohorts), cohorts[j] = c
               PROVE  Local(c) = j
    OBVIOUS
  <2>1. co[c].local_number = j - 1
    BY <1>2
  <2> QED
    BY <1>1, <2>1 DEF Local
<1>5. Local(c) = i
  BY <1>3, <1>4
<1> QED
  BY <1>3, <1>4, <1>5

LEMMA TargetHolds ==
  ASSUME CohortInv, NEW c \in Targets
  PROVE  c \in Shown(co) /\ c # begin
<1>1. c \in ToSet(cohorts) /\ co[c].local_number # 0
  BY DEF Targets
<1>2. /\ ToSet(cohorts) = Shown(co) /\ begin = cohorts[1] /\ 1 \in 1 .. Len(cohorts)
  BY VisibleHolds
<1>3. co[begin].local_number = 1 - 1
  BY <1>2 DEF CohortInv, Numbered
<1> QED
  BY <1>1, <1>2, <1>3

LEMMA SubtreeHolds ==
  ASSUME CohortInv, NEW c \in Shown(co), NEW S \in Subtrees(c)
  PROVE  c \in S /\ S \subseteq Shown(co) /\ (begin \in S => c = begin)
<1>1. ToSet(cohorts) = Shown(co)
  BY VisibleHolds
<1> DEFINE others == (ToSet(cohorts) \ {begin}) \cup {c}
           n == grammar.subtree - 1
<1>2. PICK f \in [1 .. n -> others] : S = {c} \cup {f[i] : i \in 1 .. n}
  BY DEF Subtrees
<1>3. \A i \in 1 .. n : f[i] \in others
  BY <1>2
<1> QED
  BY <1>1, <1>2, <1>3

\* Some cohorts of the list leave it.
LEMMA TakenOutHolds ==
  ASSUME CohortInv, NEW S, S \subseteq Shown(co)
  PROVE  Without(cohorts, {Local(d) : d \in S}) = Only(all_cohorts, Shown(co) \ S)
<1> DEFINE P == {Local(d) : d \in S}
           R == Nat \ S
           V == Shown(co)
<1>1. /\ all_cohorts \in Seq(Nat) /\ cohorts \in Seq(Nat) /\ V \subseteq Nat
      /\ DOMAIN cohorts = 1 .. Len(cohorts) /\ cohorts = Only(all_cohorts, V)
      /\ ToSet(cohorts) = V
  BY VisibleHolds
<1>2. \A i \in 1 .. Len(cohorts) : i \in P <=> cohorts[i] \notin R
  <2> TAKE i \in 1 .. Len(cohorts)
  <2>1. cohorts[i] \in V
    BY <1>1 DEF ToSet
  <2>2. ASSUME i \in P
        PROVE  cohorts[i] \in S
    <3>1. PICK d \in S : i = Local(d)
      BY <2>2
    <3> QED
      BY <3>1, LocalHolds
  <2>3. ASSUME cohorts[i] \in S
        PROVE  i \in P
    <3>1. i = Local(cohorts[i])
      BY <2>1, LocalHolds
    <3> QED
      BY <2>3, <3>1
  <2> QED
    BY <1>1, <2>1, <2>2, <2>3
<1> HIDE DEF P, R, V
<1>3. Without(cohorts, P) = Only(cohorts, R)
  BY <1>1, <1>2, WithoutIsOnly
<1>4. Only(Only(all_cohorts, V), R) = Only(all_cohorts, V \cap R)
  BY ONLY <1>1, OnlyOnly
<1>5. V \cap R = V \ S
  BY <1>1 DEF R
<1> QED
  BY <1>1, <1>3, <1>4, <1>5 DEF P, V

LEMMA FirstOfHolds ==
  ASSUME CohortInv, NEW S, S \subseteq Shown(co), S # {}
  PROVE  FirstOf(S) \in S /\ LastOf(S) \in S
<1>1. Len(cohorts) \in Nat
  BY VisibleHolds
<1>2. \A c \in S : Local(c) \in 1 .. Len(cohorts)
  BY LocalHolds
<1>3. \E c \in S : \A d \in S : Local(c) <= Local(d)
  <2> DEFINE T == {Local(c) : c \in S}
  <2>1. T \subseteq Nat /\ T # {}
    BY <1>2
  <2>2. PICK n \in T : \A m \in T : n <= m
    BY <2>1, LeastNatural
  <2> QED
    BY <2>2
<1>4. \E c \in S : \A d \in S : Local(c) >= Local(d)
  <2> DEFINE T == {Len(cohorts) - Local(c) : c \in S}
  <2>1. T \subseteq Nat /\ T # {}
    BY <1>1, <1>2
  <2>2. PICK n \in T : \A m \in T : n <= m
    BY <2>1, LeastNatural
  <2>3. PICK c \in S : n = Len(cohorts) - Local(c)
    BY <2>2
  <2>4. ASSUME NEW d \in S
        PROVE  Local(c) >= Local(d)
    <3>1. n <= Len(cohorts) - Local(d)
      BY <2>2
    <3>2. Local(c) \in Int /\ Local(d) \in Int
      BY <1>2
    <3> HIDE DEF T
    <3> QED
      BY <1>1, <2>3, <3>1, <3>2
  <2> QED
    BY <2>4
<1> QED
  BY <1>3, <1>4 DEF FirstOf, LastOf

LEMMA ElementsBounded ==
  ASSUME NEW s \in Seq(Nat)
  PROVE  \E m \in Nat : \A c \in ToSet(s) : c <= m
<1> DEFINE Good(u) == \E m \in Nat : \A c \in ToSet(u) : c <= m
           Bad == {u \in Seq(Nat) : ~Good(u)}
<1> SUFFICES ASSUME Bad # {}
             PROVE  FALSE
  OBVIOUS
<1>1. <<>> \notin Bad
  BY EmptyHolds
<1>2. PICK u \in Seq(Nat), x \in Nat : u \notin Bad /\ Append(u, x) \in Bad
  <2> HIDE DEF Good
  <2>1. Bad \subseteq Seq(Nat) /\ Bad # {}
    OBVIOUS
  <2> HIDE DEF Bad
  <2> QED
    BY <1>1, <2>1, ShortestBad
<1>3. PICK m \in Nat : \A c \in ToSet(u) : c <= m
  BY <1>2
<1>4. /\ ToSet(Append(u, x)) = ToSet(u) \cup {x}
      /\ ToSet(u) \subseteq Nat
  <2>1. ToSet(Append(u, x)) = ToSet(u) \cup {x}
    BY AppendedHolds
  <2>2. DOMAIN u = 1 .. Len(u) /\ \A i \in 1 .. Len(u) : u[i] \in Nat
    BY LenProperties
  <2> QED
    BY <2>1, <2>2 DEF ToSet
<1>5. m + x \in Nat /\ \A c \in ToSet(Append(u, x)) : c <= m + x
  BY <1>3, <1>4
<1>6. Good(Append(u, x))
  BY <1>5
<1> QED
  BY <1>2, <1>6

\* The numbers of new cohorts are not in use.
LEMMA FreshHolds ==
  ASSUME CohortInv
  PROVE  Fresh \in Nat /\ \A c \in DOMAIN co : c < Fresh
<1> DEFINE X == DOMAIN co
           U == {m \in Nat : \A c \in X : c <= m}
<1>1. /\ all_cohorts \in Seq(Nat) /\ X = ToSet(all_cohorts) /\ X \subseteq Nat
      /\ X # {}
  BY VisibleHolds
<1>2. U # {} /\ U \subseteq Nat
  BY <1>1, ElementsBounded
<1>3. PICK m \in U : \A n \in U : m <= n
  BY <1>2, LeastNatural
<1>4. m \in Nat /\ \A c \in X : c <= m
  BY <1>3
<1>5. m \in X
  <2> SUFFICES ASSUME m \notin X
               PROVE  FALSE
    OBVIOUS
  <2> HIDE DEF X
  <2>1. \A c \in X : c \in Nat /\ c < m
    BY <1>1, <1>4
  <2>2. m - 1 \in Nat /\ \A c \in X : c <= m - 1
    BY <1>1, <1>4, <2>1
  <2>3. m - 1 \in U
    BY <2>2
  <2>4. m <= m - 1
    BY <1>3, <2>3
  <2> QED
    BY <1>4, <2>4
<1>6. \A c \in X : m >= c
  BY <1>1, <1>4
<1>7. Max(X) \in X /\ \A c \in X : Max(X) >= c
  BY <1>5, <1>6 DEF Max
<1> HIDE DEF X
<1>8. Fresh = 1 + Max(X)
  BY DEF Fresh, X
<1>9. Max(X) \in Nat
  BY <1>1, <1>7
<1>10. \A c \in X : c < Fresh
  BY <1>1, <1>7, <1>8, <1>9
<1> QED
  BY <1>8, <1>9, <1>10 DEF X

-----------------------------------------------------------------------------
(* Rules that take cohorts out.                                              *)

FlagSet(f, S, flag) ==
  /\ f \in [DOMAIN co -> Record]
  /\ \A c \in DOMAIN co : /\ f[c].type = IF c \in S THEN {flag} ELSE co[c].type
                          /\ f[c].enclosed = co[c].enclosed
                          /\ f[c].mark = co[c].mark
                          /\ c \in S => co[c].enclosed = 0

LEMMA WithFlagHolds ==
  ASSUME CohortInv, pc = "rules", NEW S, S \subseteq Shown(co), NEW flag, {flag} \in Out
  PROVE  FlagSet(WithFlag(co, S, flag), S, flag)
<1> DEFINE f == WithFlag(co, S, flag)
           Put(c) == IF c \in S THEN [co[c] EXCEPT !.type = @ \cup {flag}] ELSE co[c]
<1>1. f = [c \in DOMAIN co |-> Put(c)]
  BY DEF WithFlag
<1>2. co \in [DOMAIN co -> Record]
  BY VisibleHolds
<1>3. ASSUME NEW c \in DOMAIN co
      PROVE  /\ Put(c) \in Record /\ Put(c).type = IF c \in S THEN {flag} ELSE co[c].type
             /\ Put(c).enclosed = co[c].enclosed /\ Put(c).mark = co[c].mark
             /\ c \in S => co[c].enclosed = 0
  <2>1. co[c] \in Record
    BY <1>2
  <2>2. CASE c \in S
    <3>1. co[c].type = {} /\ {} \cup {flag} = {flag}
      BY <2>2 DEF Shown
    <3>2. Put(c) = [co[c] EXCEPT !.type = {flag}]
      BY <2>2, <3>1
    <3>3. co[c].enclosed = 0
      BY <3>1 DEF CohortInv, DepthsHide
    <3> QED
      BY <2>1, <2>2, <3>2, <3>3 DEF Record
  <2>3. CASE c \notin S
    BY <2>1, <2>3
  <2> QED
    BY <2>2, <2>3
<1> HIDE DEF Put
<1>4. \A c \in DOMAIN co : f[c] = Put(c)
  BY <1>1
<1>5. f \in [DOMAIN co -> Record]
  BY <1>1, <1>3
<1> QED
  BY <1>3, <1>4, <1>5 DEF FlagSet

LEMMA TakeOutHolds ==
  ASSUME CohortInv, pc = "rules", Rewritten, grammar' = grammar,
         grammar.rules \cap Cuts # {},
         NEW S, S \subseteq Shown(co), begin \notin S, NEW flag, {flag} \in Out,
         all_cohorts' = all_cohorts,
         cohorts' = Without(cohorts, {Local(d) : d \in S}),
         co' = Renumbered(WithFlag(co, S, flag), cohorts', 1)
  PROVE  CohortInv'
<1> DEFINE f == WithFlag(co, S, flag)
<1>1. FlagSet(f, S, flag)
  BY WithFlagHolds
<1>2. co' = Renumbered(f, cohorts', 1)
  OBVIOUS
<1> HIDE DEF f
<1>3. DOMAIN f = DOMAIN co
  BY <1>1 DEF FlagSet
<1>4. Shown(f) = Shown(co) \ S
  BY <1>1, <1>3 DEF Shown, FlagSet, Out
<1>5. cohorts' = Only(all_cohorts', Shown(f))
  BY <1>4, TakenOutHolds
<1>6. Listing(all_cohorts', cohorts', f, begin)
  <2>1. Listing(all_cohorts, cohorts, co, begin) /\ DOMAIN co = ToSet(all_cohorts)
        /\ begin \in DOMAIN co
    BY VisibleHolds DEF CohortInv
  <2>2. f[begin].type = {}
    BY <1>1, <2>1 DEF Listing, FlagSet
  <2> QED
    BY <1>1, <1>5, <2>1, <2>2 DEF Listing, FlagSet
<1>7. Edited(f)
  BY <1>1, <1>3 DEF Edited, FlagSet, CohortInv, Flat
<1> QED
  BY <1>2, <1>6, <1>7, RuleHolds

LEMMA RemCohortHolds ==
  ASSUME CohortInv, RemCohort, grammar' = grammar
  PROVE  CohortInv'
<1>1. PICK c \in Targets :
        /\ cohorts' = Without(cohorts, {Local(c)})
        /\ co' = Renumbered(WithFlag(co, {c}, "removed"), cohorts', 1)
  BY DEF RemCohort
<1>2. pc = "rules" /\ "REMCOHORT" \in grammar.rules /\ all_cohorts' = all_cohorts /\ Rewritten
  BY DEF RemCohort, Fires
<1>3. {c} \subseteq Shown(co) /\ begin \notin {c}
  BY TargetHolds
<1>4. {Local(c)} = {Local(d) : d \in {c}}
  OBVIOUS
<1>5. grammar.rules \cap Cuts # {} /\ {"removed"} \in Out
  BY <1>2 DEF Cuts, Out
<1> QED
  BY <1>1, <1>2, <1>3, <1>4, <1>5, TakeOutHolds

LEMMA IgnoreHolds ==
  ASSUME CohortInv, IgnoreSubtree, grammar' = grammar
  PROVE  CohortInv'
<1>0. PICK c \in Targets : \E S \in Subtrees(c) :
        /\ cohorts' = Without(cohorts, {Local(d) : d \in S})
        /\ co' = Renumbered(WithFlag(co, S, "ignored"), cohorts', 1)
  BY DEF IgnoreSubtree
<1>1. PICK S \in Subtrees(c) :
        /\ cohorts' = Without(cohorts, {Local(d) : d \in S})
        /\ co' = Renumbered(WithFlag(co, S, "ignored"), cohorts', 1)
  BY <1>0
<1>2. pc = "rules" /\ "IGNORE" \in grammar.rules /\ all_cohorts' = all_cohorts /\ Rewritten
  BY DEF IgnoreSubtree, Fires
<1>3. S \subseteq Shown(co) /\ begin \notin S
  BY TargetHolds, SubtreeHolds
<1>4. grammar.rules \cap Cuts # {} /\ {"ignored"} \in Out
  BY <1>2 DEF Cuts, Out
<1> QED
  BY <1>1, <1>2, <1>3, <1>4, TakeOutHolds

-----------------------------------------------------------------------------
(* Rules that put new cohorts in.                                            *)

LEMMA FirstKept ==
  ASSUME NEW D, NEW a \in Seq(D), NEW b \in Seq(D), 1 \in 1 .. Len(a)
  PROVE  (a \o b)[1] = a[1] /\ 1 \in 1 .. Len(a \o b) /\ a \o b # <<>>
<1>1. Len(a) \in Nat /\ Len(b) \in Nat
  BY LenProperties
<1>2. /\ a \o b \in Seq(D) /\ Len(a \o b) = Len(a) + Len(b)
      /\ \A i \in 1 .. Len(a) + Len(b) : (a \o b)[i] = IF i <= Len(a) THEN a[i] ELSE b[i - Len(a)]
  BY ConcatProperties
<1>3. 1 \in 1 .. Len(a) + Len(b) /\ 1 <= Len(a)
  BY <1>1
<1>4. a \o b # <<>>
  <2> DEFINE s == a \o b
  <2>1. Len(s) # 0
    BY <1>2, <1>3
  <2> HIDE DEF s
  <2>2. s # <<>>
    BY <2>1
  <2> QED
    BY <2>2 DEF s
<1> QED
  BY <1>2, <1>3, <1>4

LEMMA InsertedFirst ==
  ASSUME NEW D, NEW s \in Seq(D), NEW b \in Seq(D), NEW q \in 1 .. Len(s) + 1, q # 1
  PROVE  Inserted(s, q, b)[1] = s[1] /\ Inserted(s, q, b) # <<>>
<1> DEFINE u == Before(s, q)
           v == From(s, q)
           w == u \o b
<1>1. u \in Seq(D) /\ v \in Seq(D) /\ s = u \o v /\ Len(u) = q - 1 /\ Len(s) \in Nat
  BY CutHolds, LenProperties
<1>2. Inserted(s, q, b) = w \o v
  BY DEF Inserted, Before, From
<1>3. 1 \in 1 .. Len(u)
  BY <1>1
<1> HIDE DEF u, v
<1>4. s[1] = u[1]
  BY <1>1, <1>3, FirstKept
<1>5. w \in Seq(D) /\ w[1] = u[1] /\ 1 \in 1 .. Len(w)
  BY <1>1, <1>3, FirstKept, ConcatProperties
<1> HIDE DEF w
<1>6. (w \o v)[1] = w[1] /\ w \o v # <<>>
  BY <1>1, <1>5, FirstKept
<1> QED
  BY <1>2, <1>4, <1>5, <1>6

\* The records after the cohorts B are added, and S are taken out.
Extended(f, S, B) ==
  /\ f \in [DOMAIN co \cup B -> Record]
  /\ \A c \in B : f[c].type = {} /\ f[c].enclosed = 0
  /\ \A c \in DOMAIN co \ B : /\ f[c].type = IF c \in S THEN {"removed"} ELSE co[c].type
                              /\ f[c].enclosed = co[c].enclosed
                              /\ c \in S => co[c].enclosed = 0
  /\ DoesBoth(grammar.rules) => \A c \in DOMAIN co \cup B : f[c].mark = "word"

LEMMA AddedHolds ==
  ASSUME CohortInv, NEW S, NEW g, FlagSet(g, S, "removed"), NEW B, NEW mark \in Marks,
         DoesBoth(grammar.rules) => mark = "word"
  PROVE  Extended(Added(g, B, mark), S, B)
<1> DEFINE f == Added(g, B, mark)
           X == DOMAIN co
           Put(c) == IF c \in B THEN NewRecord(mark) ELSE g[c]
<1>1. g \in [X -> Record]
  BY DEF FlagSet
<1>2. f = [c \in X \cup B |-> Put(c)]
  BY <1>1 DEF Added
<1>3. NewRecord(mark) \in Record /\ NewRecord(mark).type = {} /\ NewRecord(mark).enclosed = 0
      /\ NewRecord(mark).mark = mark
  BY ModulusHolds DEF NewRecord, Record
<1> HIDE DEF f
<1>4. \A c \in X \cup B : Put(c) \in Record
  BY <1>1, <1>3
<1>5. f \in [X \cup B -> Record]
  BY <1>2, <1>4
<1>6. \A c \in B : f[c] = NewRecord(mark)
  BY <1>2
<1>7. \A c \in X \ B : f[c] = g[c]
  BY <1>2
<1>8. DoesBoth(grammar.rules) => \A c \in X \cup B : f[c].mark = "word"
  <2>1. DoesBoth(grammar.rules) => \A c \in X : g[c].mark = "word"
    BY DEF FlagSet, CohortInv, Flat
  <2> QED
    BY <1>3, <1>6, <1>7, <2>1
<1> QED
  BY <1>3, <1>5, <1>6, <1>7, <1>8 DEF Extended, FlagSet, f

LEMMA NoneFlagged ==
  ASSUME CohortInv
  PROVE  FlagSet(co, {}, "removed")
  BY VisibleHolds DEF FlagSet

\* The numbers in a block of new cohorts.
NewBlock(block) ==
  /\ block \in Seq(Nat) /\ IsInjective(block)
  /\ ToSet(block) \cap DOMAIN co = {}

LEMMA PutListing ==
  ASSUME CohortInv, NEW S, S \subseteq Shown(co), begin \notin S,
         NEW block, NewBlock(block),
         NEW f, Extended(f, S, ToSet(block)),
         NEW p, NEW q, Fits(all_cohorts, cohorts, Shown(co), q, p), q # 1
  PROVE  Listing(Inserted(all_cohorts, q, block),
                 Only(Inserted(cohorts, p, block), Nat \ S), f, begin)
<1> DEFINE V == Shown(co)
           B == ToSet(block)
           R == V \cup B
           all == Inserted(all_cohorts, q, block)
<1>1. /\ all_cohorts \in Seq(Nat) /\ IsInjective(all_cohorts) /\ all_cohorts[1] = begin
      /\ DOMAIN co = ToSet(all_cohorts) /\ V \subseteq DOMAIN co /\ V \subseteq Nat
      /\ begin \in V
  BY VisibleHolds
<1>2. block \in Seq(Nat) /\ IsInjective(block) /\ B \cap DOMAIN co = {} /\ B \subseteq Nat
  <2>1. block \in Seq(Nat) /\ IsInjective(block) /\ B \cap DOMAIN co = {}
    BY DEF NewBlock
  <2>2. DOMAIN block = 1 .. Len(block) /\ \A i \in 1 .. Len(block) : block[i] \in Nat
    BY <2>1, LenProperties
  <2> QED
    BY <2>1, <2>2 DEF ToSet
<1>3. q \in 1 .. Len(all_cohorts) + 1
  BY DEF Fits
<1> HIDE DEF V
<1>4. ToSet(all_cohorts) \cap V = ToSet(all_cohorts) \cap R /\ B \subseteq R
  BY <1>1, <1>2
<1>5. Only(all, R) = Inserted(cohorts, p, block)
  <2>1. Fits(all_cohorts, cohorts, V, q, p)
    BY DEF V
  <2> HIDE DEF R
  <2> QED
    BY <1>1, <1>2, <1>4, <2>1, FitsInsert
<1>6. /\ all \in Seq(Nat) /\ ToSet(all) = ToSet(all_cohorts) \cup B /\ IsInjective(all)
  BY <1>1, <1>2, <1>3, InsertedHolds
<1>7. all[1] = begin /\ all # <<>>
  BY <1>1, <1>2, <1>3, InsertedFirst
<1> HIDE DEF all, R
<1>8. Only(Only(all, R), Nat \ S) = Only(all, R \cap (Nat \ S))
  BY <1>6, OnlyOnly
<1>9. Shown(f) = R \cap (Nat \ S)
  <2>1. /\ DOMAIN f = DOMAIN co \cup B
        /\ \A c \in B : f[c].type = {}
        /\ \A c \in DOMAIN co \ B : f[c].type = IF c \in S THEN {"removed"} ELSE co[c].type
    BY DEF Extended
  <2>2. S \subseteq V /\ V = {c \in DOMAIN co : co[c].type = {}}
    BY DEF V, Shown
  <2>3. Shown(f) = {c \in DOMAIN f : f[c].type = {}}
    BY DEF Shown
  <2>4. {"removed"} # {}
    OBVIOUS
  <2>5. ASSUME NEW c \in Shown(f)
        PROVE  c \in R \cap (Nat \ S)
    BY <1>1, <1>2, <2>1, <2>2, <2>3, <2>4 DEF R
  <2>6. ASSUME NEW c \in R \cap (Nat \ S)
        PROVE  c \in Shown(f)
    BY <1>1, <1>2, <2>1, <2>2, <2>3 DEF R
  <2> QED
    BY <2>5, <2>6
<1>10. f \in [ToSet(all) -> Record] /\ f[begin].type = {}
  <2>1. begin \in DOMAIN co \ B /\ co[begin].type = {}
    BY <1>1, <1>2 DEF V, Shown
  <2> QED
    BY <1>1, <1>6, <2>1 DEF Extended
<1>11. Only(Inserted(cohorts, p, block), Nat \ S) = Only(all, Shown(f))
  BY <1>5, <1>8, <1>9
<1> QED
  BY <1>6, <1>7, <1>10, <1>11 DEF Listing, all

LEMMA PutHolds ==
  ASSUME CohortInv, pc = "rules", Rewritten, grammar' = grammar,
         NEW S, S \subseteq Shown(co), begin \notin S,
         S = {} \/ grammar.rules \cap Cuts # {},
         NEW block, NewBlock(block),
         NEW f, Extended(f, S, ToSet(block)),
         NEW p, NEW q, Fits(all_cohorts, cohorts, Shown(co), q, p), q # 1,
         all_cohorts' = Inserted(all_cohorts, q, block),
         cohorts' = Only(Inserted(cohorts, p, block), Nat \ S),
         co' = Renumbered(f, cohorts', 1)
  PROVE  CohortInv'
<1>1. Listing(all_cohorts', cohorts', f, begin)
  BY PutListing
<1>2. Edited(f)
  <2>1. ToSet(block) \cap DOMAIN co = {}
    BY DEF NewBlock
  <2>2. {"removed"} \in Out
    BY DEF Out
  <2> QED
    BY <2>1, <2>2 DEF Edited, Extended
<1> QED
  BY <1>1, <1>2, RuleHolds

\* The places before and after a visible cohort.
LEMMA AnchorHolds ==
  ASSUME CohortInv, NEW c \in Shown(co)
  PROVE  /\ Fits(all_cohorts, cohorts, Shown(co), PlaceIn(all_cohorts, c), Local(c))
         /\ Fits(all_cohorts, cohorts, Shown(co), PlaceIn(all_cohorts, c) + 1, Local(c) + 1)
         /\ c # begin => PlaceIn(all_cohorts, c) # 1
         /\ PlaceIn(all_cohorts, c) + 1 # 1
<1> DEFINE q == PlaceIn(all_cohorts, c)
           V == Shown(co)
<1>1. /\ all_cohorts \in Seq(Nat) /\ IsInjective(all_cohorts) /\ cohorts = Only(all_cohorts, V)
      /\ c \in ToSet(all_cohorts) /\ all_cohorts[1] = begin
  BY VisibleHolds
<1>2. Local(c) \in 1 .. Len(cohorts) /\ cohorts[Local(c)] = c
  BY LocalHolds
<1>3. q \in 1 .. Len(all_cohorts) /\ all_cohorts[q] = c
  BY <1>1, PlaceInHolds
<1> DEFINE k == Local(c)
<1> HIDE DEF q, V, k
<1>4. Answers(all_cohorts, cohorts, V, q, k)
  BY <1>1, <1>2, <1>3 DEF Answers, k
<1>5. Fits(all_cohorts, cohorts, V, q, k) /\ Fits(all_cohorts, cohorts, V, q + 1, k + 1)
  BY <1>1, <1>4, FitsAt
<1>6. c # begin => q # 1
  BY <1>1, <1>3
<1>7. q + 1 # 1
  BY <1>3
<1> QED
  BY <1>5, <1>6, <1>7 DEF q, V, k

LEMMA KeepsAll ==
  ASSUME CohortInv, NEW block, NewBlock(block), NEW p \in 1 .. Len(cohorts) + 1
  PROVE  Only(Inserted(cohorts, p, block), Nat \ {}) = Inserted(cohorts, p, block)
<1> DEFINE s == Inserted(cohorts, p, block)
<1>1. cohorts \in Seq(Nat) /\ block \in Seq(Nat)
  BY VisibleHolds DEF NewBlock
<1>2. s \in Seq(Nat)
  BY <1>1, InsertedHolds
<1> HIDE DEF s
<1>3. ToSet(s) \subseteq Nat \ {}
  <2>1. DOMAIN s = 1 .. Len(s) /\ \A i \in 1 .. Len(s) : s[i] \in Nat
    BY <1>2, LenProperties
  <2> QED
    BY <2>1 DEF ToSet
<1>4. Only(s, Nat \ {}) = s
  BY <1>2, <1>3, OnlyAll
<1> QED
  BY <1>4 DEF s

LEMMA FreshBlock ==
  ASSUME CohortInv
  PROVE  NewBlock(<<Fresh>>) /\ ToSet(<<Fresh>>) = {Fresh}
<1>1. Fresh \in Nat /\ \A c \in DOMAIN co : c < Fresh
  BY FreshHolds
<1>2. DOMAIN co \subseteq Nat
  BY VisibleHolds
<1> DEFINE x == Fresh
<1> HIDE DEF x
<1>3. <<x>> \in Seq(Nat) /\ ToSet(<<x>>) = {x} /\ IsInjective(<<x>>)
  BY <1>1, SingleHolds DEF x
<1>4. x \notin DOMAIN co
  BY <1>1, <1>2 DEF x
<1> QED
  BY <1>3, <1>4 DEF NewBlock, x

LEMMA NewCohortHolds ==
  ASSUME CohortInv, pc = "rules", Rewritten, grammar' = grammar,
         NEW S, S \subseteq Shown(co), S # {},
         \/ PutBefore(S, <<Fresh>>) /\ FirstOf(S) # begin
         \/ PutAfter(S, <<Fresh>>),
         NEW mark \in Marks, DoesBoth(grammar.rules) => mark = "word",
         co' = Renumbered(Added(co, {Fresh}, mark), cohorts', 1)
  PROVE  CohortInv'
<1> DEFINE b == <<Fresh>>
           f == Added(co, {Fresh}, mark)
           E == {}
<1>1. NewBlock(b) /\ ToSet(b) = {Fresh}
  BY FreshBlock
<1>2. FlagSet(co, E, "removed")
  BY NoneFlagged
<1> HIDE DEF E
<1>3. Extended(f, E, ToSet(b))
  BY <1>1, <1>2, AddedHolds
<1>4. E \subseteq Shown(co) /\ begin \notin E /\ E = {}
  BY DEF E
<1>5. FirstOf(S) \in Shown(co) /\ LastOf(S) \in Shown(co)
  BY FirstOfHolds
<1>6. \E p, q : /\ Fits(all_cohorts, cohorts, Shown(co), q, p) /\ q # 1
                /\ all_cohorts' = Inserted(all_cohorts, q, b)
                /\ cohorts' = Inserted(cohorts, p, b)
  <2>1. CASE PutBefore(S, b) /\ FirstOf(S) # begin
    BY <1>5, <2>1, AnchorHolds DEF PutBefore
  <2>2. CASE PutAfter(S, b)
    BY <1>5, <2>2, AnchorHolds DEF PutAfter
  <2> QED
    BY <2>1, <2>2
<1> HIDE DEF b, f
<1>7. PICK p, q : /\ Fits(all_cohorts, cohorts, Shown(co), q, p) /\ q # 1
                  /\ all_cohorts' = Inserted(all_cohorts, q, b)
                  /\ cohorts' = Inserted(cohorts, p, b)
  BY <1>6
<1>8. p \in 1 .. Len(cohorts) + 1
  BY <1>7 DEF Fits
<1>9. cohorts' = Only(Inserted(cohorts, p, b), Nat \ E)
  BY <1>1, <1>4, <1>7, <1>8, KeepsAll
<1>10. co' = Renumbered(f, cohorts', 1)
  BY DEF f
<1> QED
  BY <1>1, <1>3, <1>4, <1>7, <1>9, <1>10, PutHolds

LEMMA AddCohortHolds ==
  ASSUME CohortInv, AddCohort, grammar' = grammar
  PROVE  CohortInv'
<1>1. PICK c \in Targets : \E S \in Subtrees(c) :
        PutBefore(S, <<Fresh>>) \/ PutAfter(S, <<Fresh>>)
  BY DEF AddCohort
<1>2. PICK S \in Subtrees(c) : PutBefore(S, <<Fresh>>) \/ PutAfter(S, <<Fresh>>)
  BY <1>1
<1>3. pc = "rules" /\ Rewritten
  BY DEF AddCohort, Fires
<1>4. co' = Renumbered(Added(co, {Fresh}, "word"), cohorts', 1)
  BY DEF AddCohort
<1>5. S \subseteq Shown(co) /\ S # {} /\ begin \notin S
  BY TargetHolds, SubtreeHolds
<1>6. FirstOf(S) # begin
  BY <1>5, FirstOfHolds
<1>7. "word" \in Marks
  BY DEF Marks
<1> QED
  BY <1>2, <1>3, <1>4, <1>5, <1>6, <1>7, NewCohortHolds

LEMMA CopyCohortHolds ==
  ASSUME CohortInv, ~BeforeBegin, CopyCohort, grammar' = grammar
  PROVE  CohortInv'
<1> DEFINE Copied(from, S) ==
             /\ \/ /\ FirstOf(S) = begin => BeforeBegin
                   /\ PutBefore(S, <<Fresh>>)
                \/ PutAfter(S, <<Fresh>>)
             /\ co' = Renumbered(Added(co, {Fresh}, co[from].mark), cohorts', 1)
<1>1. PICK c \in Targets : \E a \in ToSet(cohorts) \ {c} :
        \E from \in {c, a} : \E S \in Subtrees(IF from = c THEN a ELSE c) : Copied(from, S)
  BY DEF CopyCohort
<1>1a. PICK a \in ToSet(cohorts) \ {c} :
        \E from \in {c, a} : \E S \in Subtrees(IF from = c THEN a ELSE c) : Copied(from, S)
  BY <1>1
<1>2. PICK from \in {c, a} : \E S \in Subtrees(IF from = c THEN a ELSE c) : Copied(from, S)
  BY <1>1a
<1> DEFINE head == IF from = c THEN a ELSE c
<1>3. PICK S \in Subtrees(head) : Copied(from, S)
  BY <1>2
<1>4. pc = "rules" /\ Rewritten
  BY DEF CopyCohort, Fires
<1>5. c \in Shown(co) /\ a \in Shown(co)
  BY TargetHolds, VisibleHolds
<1>6. head \in Shown(co) /\ from \in DOMAIN co
  BY <1>5 DEF Shown
<1> HIDE DEF head
<1>7. S \subseteq Shown(co) /\ S # {}
  BY <1>6, SubtreeHolds
<1>8. co[from].mark \in Marks /\ (DoesBoth(grammar.rules) => co[from].mark = "word")
  <2>1. co[from] \in Record
    BY <1>6, VisibleHolds
  <2> QED
    BY <1>6, <2>1 DEF Record, CohortInv, Flat
<1> QED
  BY <1>3, <1>4, <1>7, <1>8, NewCohortHolds

LEMMA LessInserted ==
  ASSUME CohortInv, NEW b, NewBlock(b), NEW p \in 1 .. Len(cohorts) + 1, NEW S
  PROVE  Less(Inserted(cohorts, p, b), S) = Only(Inserted(cohorts, p, b), Nat \ S)
<1> DEFINE s == Inserted(cohorts, p, b)
<1>1. cohorts \in Seq(Nat) /\ b \in Seq(Nat)
  BY VisibleHolds DEF NewBlock
<1>2. s \in Seq(Nat)
  BY <1>1, InsertedHolds
<1> HIDE DEF s
<1>3. ToSet(s) \subseteq Nat
  <2>1. DOMAIN s = 1 .. Len(s) /\ \A i \in 1 .. Len(s) : s[i] \in Nat
    BY <1>2, LenProperties
  <2> QED
    BY <2>1 DEF ToSet
<1>4. ToSet(s) \cap (Nat \ S) = ToSet(s) \ S
  BY <1>3
<1>5. Less(s, S) = Only(s, Nat \ S)
  BY <1>2, <1>4, LessIsOnly
<1> QED
  BY <1>5 DEF s

LEMMA MergeCohortsHolds ==
  ASSUME CohortInv, ~BeforeBegin, MergeCohorts, grammar' = grammar
  PROVE  CohortInv'
<1> DEFINE b == <<Fresh>>
           Merged(withs, S) ==
             /\ cohorts' = Less(Inserted(cohorts, Local(LastOf(S)) + 1, b), withs)
             /\ all_cohorts' =
                  Inserted(all_cohorts, PlaceIn(all_cohorts, LastOf(S)) + 1, b)
             /\ co' = Renumbered(Added(WithFlag(co, withs, "removed"), {Fresh}, "word"),
                                 cohorts', 1)
<1>1. PICK c \in Targets : \E withs \in Subtrees(c) :
        \E at \in ToSet(cohorts) : \E S \in Subtrees(at) : Merged(withs, S)
  <2>1. \A c \in Targets : Withs(c) = Subtrees(c)
    BY DEF Withs
  <2> QED
    BY <2>1 DEF MergeCohorts
<1>2. PICK withs \in Subtrees(c) :
        \E at \in ToSet(cohorts) : \E S \in Subtrees(at) : Merged(withs, S)
  BY <1>1
<1>3. PICK at \in ToSet(cohorts) : \E S \in Subtrees(at) : Merged(withs, S)
  BY <1>2
<1>4. PICK S \in Subtrees(at) : Merged(withs, S)
  BY <1>3
<1>5. pc = "rules" /\ Rewritten /\ "MERGECOHORTS" \in grammar.rules
  BY DEF MergeCohorts, Fires
<1>6. grammar.rules \cap Cuts # {} /\ {"removed"} \in Out /\ "word" \in Marks
  BY <1>5 DEF Cuts, Out, Marks
<1>7. withs \subseteq Shown(co) /\ begin \notin withs
  BY TargetHolds, SubtreeHolds
<1>8. S \subseteq Shown(co) /\ S # {}
  BY VisibleHolds, SubtreeHolds
<1> DEFINE a == LastOf(S)
           p == Local(a) + 1
           q == PlaceIn(all_cohorts, a) + 1
           f == Added(WithFlag(co, withs, "removed"), {Fresh}, "word")
<1>9. a \in Shown(co)
  BY <1>8, FirstOfHolds
<1>10. Fits(all_cohorts, cohorts, Shown(co), q, p) /\ q # 1
  BY <1>9, AnchorHolds
<1>11. NewBlock(b) /\ ToSet(b) = {Fresh}
  BY FreshBlock
<1>12. Extended(f, withs, ToSet(b))
  BY <1>5, <1>6, <1>7, <1>11, WithFlagHolds, AddedHolds
<1> HIDE DEF b, f
<1>13. /\ cohorts' = Less(Inserted(cohorts, p, b), withs)
       /\ all_cohorts' = Inserted(all_cohorts, q, b)
       /\ co' = Renumbered(f, cohorts', 1)
  BY <1>4 DEF b, f
<1> HIDE DEF p, q, a
<1>14. cohorts' = Only(Inserted(cohorts, p, b), Nat \ withs)
  <2>1. p \in 1 .. Len(cohorts) + 1
    BY <1>10 DEF Fits
  <2> QED
    BY <1>11, <1>13, <2>1, LessInserted
<1> QED
  BY <1>5, <1>6, <1>7, <1>10, <1>11, <1>12, <1>13, <1>14, PutHolds

LEMMA SplitCohortHolds ==
  ASSUME CohortInv, SplitCohort, grammar' = grammar
  PROVE  CohortInv'
<1>1. PICK c \in Targets : \E n \in 1 .. 2 :
        LET b == [i \in 1 .. n |-> Fresh + i - 1] IN
        /\ cohorts' = Less(Inserted(cohorts, Local(c) + 1, b), {c})
        /\ all_cohorts' = Inserted(all_cohorts, PlaceIn(all_cohorts, c) + 1, b)
        /\ co' = Renumbered(Added(WithFlag(co, {c}, "removed"), ToSet(b), "word"), cohorts', 1)
  BY DEF SplitCohort
<1>2. PICK n \in 1 .. 2 :
        LET b == [i \in 1 .. n |-> Fresh + i - 1] IN
        /\ cohorts' = Less(Inserted(cohorts, Local(c) + 1, b), {c})
        /\ all_cohorts' = Inserted(all_cohorts, PlaceIn(all_cohorts, c) + 1, b)
        /\ co' = Renumbered(Added(WithFlag(co, {c}, "removed"), ToSet(b), "word"), cohorts', 1)
  BY <1>1
<1> DEFINE b == [i \in 1 .. n |-> Fresh + i - 1]
           p == Local(c) + 1
           q == PlaceIn(all_cohorts, c) + 1
           S == {c}
           f == Added(WithFlag(co, S, "removed"), ToSet(b), "word")
<1>3. pc = "rules" /\ Rewritten /\ "SPLITCOHORT" \in grammar.rules
  BY DEF SplitCohort, Fires
<1>4. grammar.rules \cap Cuts # {} /\ {"removed"} \in Out /\ "word" \in Marks
  BY <1>3 DEF Cuts, Out, Marks
<1>5. c \in Shown(co) /\ S \subseteq Shown(co) /\ begin \notin S
  BY TargetHolds
<1>6. Fits(all_cohorts, cohorts, Shown(co), q, p) /\ q # 1
  BY <1>5, AnchorHolds
<1>7. NewBlock(b)
  <2> DEFINE x == Fresh
  <2>1. x \in Nat /\ (\A d \in DOMAIN co : d < x) /\ DOMAIN co \subseteq Nat
    BY FreshHolds, VisibleHolds
  <2> HIDE DEF x
  <2>2. b = [i \in 1 .. n |-> x + i - 1] /\ n \in Nat
    BY DEF x
  <2> HIDE DEF b
  <2>3. \A i \in 1 .. n : b[i] = x + i - 1 /\ b[i] \in Nat /\ b[i] >= x
    BY <2>1, <2>2
  <2>4. b \in Seq(Nat) /\ DOMAIN b = 1 .. n
    BY <2>2, <2>3
  <2>5. IsInjective(b)
    BY <2>1, <2>2, <2>3, <2>4 DEF IsInjective
  <2>6. ToSet(b) \cap DOMAIN co = {}
    <3> SUFFICES ASSUME NEW d \in DOMAIN co, d \in ToSet(b)
                 PROVE  FALSE
      OBVIOUS
    <3>1. PICK i \in 1 .. n : d = b[i]
      BY <2>4 DEF ToSet
    <3>2. d \in Nat /\ d < x /\ d >= x
      BY <2>1, <2>3, <3>1
    <3> QED
      BY <2>1, <3>2
  <2> QED
    BY <2>4, <2>5, <2>6 DEF NewBlock
<1>8. Extended(f, S, ToSet(b))
  BY <1>3, <1>4, <1>5, WithFlagHolds, AddedHolds
<1> HIDE DEF b, f, S
<1>9. /\ cohorts' = Less(Inserted(cohorts, p, b), S)
      /\ all_cohorts' = Inserted(all_cohorts, q, b)
      /\ co' = Renumbered(f, cohorts', 1)
  BY <1>2 DEF b, f, S
<1> HIDE DEF p, q
<1>10. cohorts' = Only(Inserted(cohorts, p, b), Nat \ S)
  <2>1. p \in 1 .. Len(cohorts) + 1
    BY <1>6 DEF Fits
  <2> QED
    BY <1>7, <1>9, <2>1, LessInserted
<1> QED
  BY <1>3, <1>4, <1>5, <1>6, <1>7, <1>8, <1>9, <1>10, PutHolds

-----------------------------------------------------------------------------
(* Rules that move cohorts.                                                  *)

\* Records that did not change.
LEMMA SameEdited ==
  ASSUME CohortInv
  PROVE  Edited(co)
  BY DEF Edited, CohortInv, Flat

LEMMA SwitchHolds ==
  ASSUME CohortInv, SwitchCohorts, grammar' = grammar
  PROVE  CohortInv'
<1>1. PICK c \in Targets, a \in ToSet(cohorts) :
        /\ co[a].local_number # 0
        /\ cohorts' = Exchanged(cohorts, c, a)
        /\ all_cohorts' = Exchanged(all_cohorts, c, a)
  BY DEF SwitchCohorts
<1>2. /\ pc = "rules" /\ Rewritten /\ co' = Renumbered(co, cohorts', 1)
  BY DEF SwitchCohorts, Fires
<1> DEFINE V == Shown(co)
<1>3. /\ all_cohorts \in Seq(Nat) /\ IsInjective(all_cohorts) /\ all_cohorts[1] = begin
      /\ cohorts = Only(all_cohorts, V) /\ V \subseteq ToSet(all_cohorts)
      /\ ToSet(all_cohorts) \subseteq Nat /\ ToSet(cohorts) = V
      /\ 1 \in 1 .. Len(all_cohorts) /\ 1 \in 1 .. Len(cohorts) /\ cohorts[1] = begin
      /\ DOMAIN all_cohorts = 1 .. Len(all_cohorts) /\ begin \in V
      /\ co \in [ToSet(all_cohorts) -> Record]
  BY VisibleHolds
<1>4. c \in V /\ c # begin /\ a \in V /\ a # begin
  <2>1. co[begin].local_number = 1 - 1
    BY <1>3 DEF CohortInv, Numbered
  <2> QED
    BY <1>1, <1>3, <2>1, TargetHolds
<1>5. co[begin].type = {}
  BY <1>3 DEF Shown
<1> DEFINE all == Exchanged(all_cohorts, c, a)
<1> HIDE DEF V
<1>6. c \in Nat /\ a \in Nat
  BY <1>3, <1>4
<1>7. /\ all \in Seq(Nat) /\ Len(all) = Len(all_cohorts) /\ IsInjective(all)
      /\ ToSet(all) = {Other(x, c, a) : x \in ToSet(all_cohorts)}
      /\ Only(all, V) = Exchanged(cohorts, c, a)
  <2>1. all_cohorts \in Seq(Nat) /\ c \in Nat /\ a \in Nat /\ c \in V /\ a \in V
    BY <1>3, <1>4, <1>6
  <2>2. all \in Seq(Nat) /\ Exchange(all_cohorts, V, c, a, all)
    BY ONLY <2>1, ExchangedHolds
  <2> QED
    BY <1>3, <2>2 DEF Exchange
<1>8. all[1] = begin
  BY <1>3, <1>4 DEF Exchanged
<1> HIDE DEF all
<1>9. ToSet(all) = ToSet(all_cohorts)
  <2>1. c \in ToSet(all_cohorts) /\ a \in ToSet(all_cohorts)
    BY <1>3, <1>4
  <2>2. \A x \in ToSet(all_cohorts) : Other(x, c, a) \in ToSet(all_cohorts)
    BY <2>1 DEF Other
  <2>3. \A x : Other(Other(x, c, a), c, a) = x
    BY DEF Other
  <2> QED
    BY <1>7, <2>2, <2>3
<1>10. all # <<>>
  BY <1>3, <1>7
<1>11. Listing(all_cohorts', cohorts', co, begin)
  BY <1>1, <1>3, <1>5, <1>7, <1>8, <1>9, <1>10 DEF Listing, all, V
<1> QED
  BY <1>2, <1>11, SameEdited, RuleHolds

\* S is put at a spot of the rest that is not before >>>.
LEMMA MovedListing ==
  ASSUME CohortInv, NEW S, S \subseteq Shown(co), begin \notin S,
         NEW rest, rest = Without(cohorts, {Local(d) : d \in S}),
         NEW spot \in 1 .. Len(rest) + 1, spot # 1, MovedTo(S, rest, spot)
  PROVE  Listing(all_cohorts', cohorts', co, begin)
<1> DEFINE V == Shown(co)
           R == Nat \ S
           others == Less(all_cohorts, S)
           block == Only(cohorts, S)
           q == IF spot <= Len(rest) THEN PlaceIn(others, rest[spot]) ELSE Len(others) + 1
<1>1. /\ all_cohorts \in Seq(Nat) /\ IsInjective(all_cohorts) /\ all_cohorts[1] = begin
      /\ cohorts \in Seq(Nat) /\ IsInjective(cohorts) /\ ToSet(cohorts) = V
      /\ V \subseteq ToSet(all_cohorts) /\ ToSet(all_cohorts) \subseteq Nat
      /\ 1 \in 1 .. Len(all_cohorts) /\ begin \in V
      /\ co \in [ToSet(all_cohorts) -> Record]
  BY VisibleHolds
<1>2. co[begin].type = {}
  BY <1>1 DEF Shown
<1>3. rest = Only(all_cohorts, V \ S)
  BY TakenOutHolds
<1>4. all_cohorts' = Inserted(others, q, block) /\ cohorts' = Inserted(rest, spot, block)
  BY DEF MovedTo
<1> HIDE DEF V
<1>5. S \subseteq V
  BY DEF V
<1>6. others = Only(all_cohorts, R)
  <2>1. ToSet(all_cohorts) \cap R = ToSet(all_cohorts) \ S
    BY <1>1
  <2> HIDE DEF R
  <2> QED
    BY <1>1, <2>1, LessIsOnly
<1>7. /\ others \in Seq(Nat) /\ IsInjective(others) /\ ToSet(others) = ToSet(all_cohorts) \ S
      /\ 1 \in 1 .. Len(others) /\ others[1] = begin
  <2> HIDE DEF others
  <2>1. begin \in R /\ ToSet(all_cohorts) \cap R = ToSet(all_cohorts) \ S
    BY <1>1
  <2> HIDE DEF R
  <2>2. others \in Seq(Nat) /\ IsInjective(others) /\ ToSet(others) = ToSet(all_cohorts) \cap R
    BY <1>1, <1>6, OnlyHolds
  <2>3. 1 \in 1 .. Len(others) /\ others[1] = begin
    BY <1>1, <1>6, <2>1, OnlyFirst
  <2> QED
    BY <2>1, <2>2, <2>3
<1>8. rest = Only(others, V)
  <2>1. Only(Only(all_cohorts, R), V) = Only(all_cohorts, R \cap V)
    <3> HIDE DEF R
    <3> QED
      BY <1>1, OnlyOnly
  <2>2. R \cap V = V \ S
    BY <1>1
  <2> QED
    BY <1>3, <1>6, <2>1, <2>2
<1> HIDE DEF others
<1>9. /\ rest \in Seq(Nat) /\ IsInjective(rest) /\ ToSet(rest) = ToSet(others) \cap V
      /\ 1 \in 1 .. Len(rest) /\ rest[1] = begin
  <2>1. others \in Seq(Nat) /\ 1 \in 1 .. Len(others) /\ others[1] \in V
    BY <1>1, <1>7
  <2>2. Only(others, V) \in Seq(Nat) /\ ToSet(Only(others, V)) = ToSet(others) \cap V
        /\ (IsInjective(others) => IsInjective(Only(others, V)))
    BY ONLY <2>1, OnlyHolds
  <2>3. 1 \in 1 .. Len(Only(others, V)) /\ Only(others, V)[1] = others[1]
    BY ONLY <2>1, OnlyFirst
  <2> QED
    BY <1>7, <1>8, <2>2, <2>3
<1>10. block \in Seq(Nat) /\ IsInjective(block) /\ ToSet(block) = S
  <2>1. cohorts \in Seq(Nat)
    BY <1>1
  <2>2. block \in Seq(Nat) /\ ToSet(block) = ToSet(cohorts) \cap S
        /\ (IsInjective(cohorts) => IsInjective(block))
    BY ONLY <2>1, OnlyHolds
  <2> QED
    BY <1>1, <1>5, <2>2
<1> HIDE DEF block
<1>11. Fits(others, rest, V, q, spot) /\ q # 1
  <2>1. Len(rest) \in Nat /\ DOMAIN rest = 1 .. Len(rest) /\ Len(others) \in Nat
    BY <1>7, <1>9, LenProperties
  <2>2. CASE spot <= Len(rest)
    <3>1. spot \in 1 .. Len(rest) /\ q = PlaceIn(others, rest[spot])
      BY <2>1, <2>2
    <3>2. rest[spot] \in ToSet(others) /\ rest[spot] # begin
      <4>1. rest[spot] \in ToSet(rest)
        BY <2>1, <3>1 DEF ToSet
      <4>2. rest[spot] # rest[1]
        BY <1>9, <2>1, <3>1 DEF IsInjective
      <4> QED
        BY <1>9, <4>1, <4>2
    <3> HIDE DEF q
    <3>3. q \in 1 .. Len(others) /\ others[q] = rest[spot]
      BY <1>7, <3>1, <3>2, PlaceInHolds
    <3>4. Answers(others, rest, V, q, spot)
      BY <1>7, <1>8, <3>1, <3>3 DEF Answers
    <3>5. Fits(others, rest, V, q, spot)
      BY <1>7, <3>4, FitsAt
    <3> QED
      BY <1>7, <3>2, <3>3, <3>5
  <2>3. CASE ~ (spot <= Len(rest))
    <3>1. spot = Len(rest) + 1 /\ q = Len(others) + 1
      BY <2>1, <2>3
    <3> HIDE DEF q
    <3>2. Fits(others, rest, V, q, spot)
      BY <1>7, <1>8, <3>1, FitsEnd
    <3> QED
      BY <1>7, <2>1, <3>1, <3>2
  <2> QED
    BY <2>2, <2>3
<1> DEFINE all == Inserted(others, q, block)
<1> HIDE DEF q
<1>12. Only(all, V) = Inserted(rest, spot, block)
  BY <1>5, <1>7, <1>10, <1>11, FitsInsert
<1>13. q \in 1 .. Len(others) + 1
  BY <1>11 DEF Fits
<1>14. all \in Seq(Nat) /\ ToSet(all) = ToSet(others) \cup S /\ IsInjective(all)
  <2>1. ToSet(others) \cap ToSet(block) = {}
    BY <1>7, <1>10
  <2> QED
    BY <1>7, <1>10, <1>13, <2>1, InsertedHolds
<1>15. all[1] = begin /\ all # <<>>
  BY <1>7, <1>10, <1>11, <1>13, InsertedFirst
<1> HIDE DEF all
<1>16. ToSet(all) = ToSet(all_cohorts)
  BY <1>1, <1>5, <1>7, <1>14
<1> QED
  BY <1>1, <1>2, <1>4, <1>12, <1>14, <1>15, <1>16 DEF Listing, all, V

LEMMA MoveHolds ==
  ASSUME CohortInv, ~BeforeBegin, MoveCohort, grammar' = grammar
  PROVE  CohortInv'
<1> DEFINE Rest(S) == Without(cohorts, {Local(d) : d \in S})
           Moved(S, edges) ==
             /\ S \cap edges = {}
             /\ begin \in S => BeforeBegin
             /\ \/ MovedTo(S, Rest(S), SpotBefore(Rest(S), edges))
                \/ MovedTo(S, Rest(S), PlaceIn(Rest(S), LastOf(edges)) + 1)
<1>1. PICK c \in Targets : \E a \in ToSet(cohorts) \ {c} : \E mover \in {c, a} :
        \E S \in Subtrees(mover) :
          \E edges \in Subtrees(IF mover = c THEN a ELSE c) : Moved(S, edges)
  BY DEF MoveCohort
<1>2. PICK a \in ToSet(cohorts) \ {c} : \E mover \in {c, a} :
        \E S \in Subtrees(mover) :
          \E edges \in Subtrees(IF mover = c THEN a ELSE c) : Moved(S, edges)
  BY <1>1
<1>3. PICK mover \in {c, a} :
        \E S \in Subtrees(mover) :
          \E edges \in Subtrees(IF mover = c THEN a ELSE c) : Moved(S, edges)
  BY <1>2
<1> DEFINE still == IF mover = c THEN a ELSE c
<1>4. PICK S \in Subtrees(mover) : \E edges \in Subtrees(still) : Moved(S, edges)
  BY <1>3
<1>5. PICK edges \in Subtrees(still) : Moved(S, edges)
  BY <1>4
<1>6. mover \in Shown(co) /\ still \in Shown(co)
  BY TargetHolds, VisibleHolds
<1> HIDE DEF still
<1>7. S \subseteq Shown(co) /\ begin \notin S /\ edges \subseteq Shown(co) \ S /\ edges # {}
  BY <1>5, <1>6, SubtreeHolds
<1>8. pc = "rules" /\ Rewritten /\ co' = Renumbered(co, cohorts', 1)
  BY DEF MoveCohort, Fires
<1> DEFINE rest == Rest(S)
<1>9. rest = Only(all_cohorts, Shown(co) \ S)
  BY <1>7, TakenOutHolds
<1> HIDE DEF rest
<1>10. /\ rest \in Seq(Nat) /\ Len(rest) \in Nat
       /\ FirstOf(edges) \in ToSet(rest) /\ LastOf(edges) \in ToSet(rest)
  <2> DEFINE W == Shown(co) \ S
  <2>1. all_cohorts \in Seq(Nat) /\ W \subseteq ToSet(all_cohorts)
    BY VisibleHolds
  <2>2. FirstOf(edges) \in W /\ LastOf(edges) \in W
    BY <1>7, FirstOfHolds
  <2> HIDE DEF W
  <2>3. rest \in Seq(Nat) /\ ToSet(rest) = ToSet(all_cohorts) \cap W
    BY <1>9, <2>1, OnlyHolds DEF W
  <2> QED
    BY <2>1, <2>2, <2>3, LenProperties
<1>11. /\ PlaceIn(rest, FirstOf(edges)) \in 1 .. Len(rest)
       /\ PlaceIn(rest, LastOf(edges)) \in 1 .. Len(rest)
  BY <1>10, PlaceInHolds
<1>12. \E spot \in 1 .. Len(rest) + 1 : spot # 1 /\ MovedTo(S, rest, spot)
  <2>1. /\ SpotBefore(rest, edges) \in 1 .. Len(rest) + 1 /\ SpotBefore(rest, edges) # 1
        /\ PlaceIn(rest, LastOf(edges)) + 1 \in 1 .. Len(rest) + 1
        /\ PlaceIn(rest, LastOf(edges)) + 1 # 1
    BY <1>10, <1>11 DEF SpotBefore
  <2>2. \/ MovedTo(S, rest, SpotBefore(rest, edges))
        \/ MovedTo(S, rest, PlaceIn(rest, LastOf(edges)) + 1)
    BY <1>5 DEF rest
  <2> QED
    BY <2>1, <2>2
<1>13. Listing(all_cohorts', cohorts', co, begin)
  <2>1. PICK spot \in 1 .. Len(rest) + 1 : spot # 1 /\ MovedTo(S, rest, spot)
    BY <1>12
  <2>2. rest = Without(cohorts, {Local(d) : d \in S})
    BY DEF rest
  <2> QED
    BY <1>7, <2>1, <2>2, MovedListing
<1> QED
  BY <1>8, <1>13, SameEdited, RuleHolds

-----------------------------------------------------------------------------
(* DELIMIT.                                                                  *)

\* Nothing is taken out, or nothing can be hidden; only hidden cohorts are deep.
Untouched(f) ==
  \A c \in DOMAIN f :
    /\ f[c].enclosed # 0 => f[c].type # {}
    /\ IF DoesBoth(grammar.rules) THEN f[c].mark = "word" /\ f[c].enclosed = 0
       ELSE f[c].type \notin Out

LEMMA UntouchedHolds ==
  ASSUME Controlled', Listing(all_cohorts', cohorts', co', begin'), Numbered(cohorts', co'),
         Untouched(co'), Opened', grammar' = grammar
  PROVE  CohortInv'
<1>1. /\ DOMAIN co' = ToSet(all_cohorts') /\ all_cohorts' \in Seq(Nat)
  BY ListingHolds DEF Listing
<1>2. \A i \in 1 .. Len(all_cohorts') : all_cohorts'[i] \in DOMAIN co'
  <2>1. DOMAIN all_cohorts' = 1 .. Len(all_cohorts')
    BY <1>1, LenProperties
  <2> QED
    BY <1>1, <2>1 DEF ToSet
<1>3. DepthsLow'
  BY <1>2 DEF DepthsLow, Deep, Untouched
<1>4. DepthsHide' /\ Flat' /\ Whole'
  BY DEF DepthsHide, Flat, Whole, Untouched
<1> QED
  BY <1>3, <1>4 DEF CohortInv

LEMMA DelimitHeadHolds ==
  ASSUME CohortInv, DelimitHead, grammar' = grammar
  PROVE  CohortInv'
<1>1. PICK c \in Targets :
        /\ cohorts' = SubSeq(cohorts, 1, Local(c))
        /\ all_cohorts' = SubSeq(all_cohorts, 1, PlaceIn(all_cohorts, c))
  BY DEF DelimitHead
<1>2. /\ pc = "rules" /\ pc' = "pass" /\ "DELIMIT" \in grammar.rules
      /\ co' = Restricted(co, ToSet(all_cohorts'))
      /\ begin' = begin /\ pass' = pass /\ sweep' = sweep
      /\ did_final_enclosure' = did_final_enclosure
  BY DEF DelimitHead, Fires
<1> DEFINE V == Shown(co)
           k == Local(c)
           q == PlaceIn(all_cohorts, c)
           all == Before(all_cohorts, q + 1)
           cs == Before(cohorts, k + 1)
<1>3. c \in V
  BY TargetHolds
<1>4. Fits(all_cohorts, cohorts, V, q + 1, k + 1) /\ q + 1 # 1
  BY <1>3, AnchorHolds
<1>5. /\ all_cohorts \in Seq(Nat) /\ IsInjective(all_cohorts) /\ all_cohorts[1] = begin
      /\ cohorts \in Seq(Nat) /\ co \in [ToSet(all_cohorts) -> Record] /\ begin \in V
      /\ DOMAIN co = ToSet(all_cohorts)
  BY VisibleHolds
<1>6. k \in 1 .. Len(cohorts) /\ q \in 1 .. Len(all_cohorts)
  <2>1. c \in ToSet(all_cohorts)
    BY <1>3, <1>5 DEF Shown
  <2> QED
    BY <1>3, <1>5, <2>1, LocalHolds, PlaceInHolds
<1> HIDE DEF k, q
<1>7. all_cohorts' = all /\ cohorts' = cs
  <2>1. (k + 1) - 1 = k /\ (q + 1) - 1 = q
    BY <1>6
  <2> QED
    BY <1>1, <2>1 DEF Before, k, q
<1>8. Only(all, V) = cs /\ q + 1 \in 1 .. Len(all_cohorts) + 1 /\ k + 1 \in 1 .. Len(cohorts) + 1
  BY <1>4 DEF Fits
<1> DEFINE rest == From(all_cohorts, q + 1)
<1>9. all \in Seq(Nat) /\ rest \in Seq(Nat) /\ all_cohorts = all \o rest /\ Len(all) = (q + 1) - 1
  BY <1>5, <1>8, CutHolds
<1>10. 1 \in 1 .. Len(all)
  BY <1>6, <1>9
<1> HIDE DEF V, all, rest
<1>11. IsInjective(all) /\ ToSet(all) \subseteq ToSet(all_cohorts) /\ all[1] = begin
  BY <1>5, <1>9, <1>10, ConcatHolds, FirstKept
<1>12. begin \in ToSet(all) /\ all # <<>>
  <2>1. DOMAIN all = 1 .. Len(all)
    BY <1>9, LenProperties
  <2>2. Len(all) # 0
    BY <1>10
  <2> QED
    BY <1>10, <1>11, <2>1, <2>2 DEF ToSet
<1>13. co' = [d \in ToSet(all) |-> co[d]]
  BY <1>2, <1>7 DEF Restricted
<1>14. /\ co' \in [ToSet(all) -> Record] /\ DOMAIN co' = ToSet(all)
       /\ \A d \in ToSet(all) : co'[d] = co[d]
  BY <1>5, <1>11, <1>13
<1>15. ToSet(all) \cap Shown(co') = ToSet(all) \cap V
  BY <1>5, <1>11, <1>14 DEF Shown, V
<1>16. cs = Only(all, Shown(co'))
  BY <1>8, <1>9, <1>15, OnlyAgree
<1>17. Listing(all_cohorts', cohorts', co', begin')
  <2>1. co'[begin].type = {}
    BY <1>5, <1>12, <1>14 DEF V, Shown
  <2> QED
    BY <1>2, <1>7, <1>9, <1>11, <1>12, <1>14, <1>16, <2>1 DEF Listing
<1>18. Numbered(cohorts', co')
  <2> SUFFICES ASSUME NEW i \in 1 .. Len(cs)
               PROVE  co'[cs[i]].local_number = i - 1
    BY <1>7 DEF Numbered
  <2>1. /\ cs \in Seq(Nat) /\ From(cohorts, k + 1) \in Seq(Nat)
        /\ cohorts = cs \o From(cohorts, k + 1) /\ Len(cs) = (k + 1) - 1
    BY <1>5, <1>8, CutHolds
  <2>2. ToSet(cs) \subseteq ToSet(all) /\ cs[i] \in ToSet(cs)
    <3>1. DOMAIN cs = 1 .. Len(cs)
      BY <2>1, LenProperties
    <3> HIDE DEF cs
    <3>2. ToSet(cs) = ToSet(all) \cap V
      BY <1>8, <1>9, OnlyHolds
    <3> QED
      BY <3>1, <3>2 DEF ToSet
  <2> DEFINE u == From(cohorts, k + 1)
  <2>3. u \in Seq(Nat) /\ cohorts = cs \o u
    BY <2>1
  <2>4. i \in 1 .. k
    BY <1>6, <2>1
  <2>5. Len(cs) = k
    BY <1>6, <2>1
  <2> HIDE DEF u, cs
  <2>6. cohorts[i] = cs[i] /\ i \in 1 .. Len(cohorts)
    <3>1. /\ Len(cs \o u) = Len(cs) + Len(u)
          /\ \A j \in 1 .. Len(cs) + Len(u) : (cs \o u)[j] = IF j <= Len(cs) THEN cs[j] ELSE u[j - Len(cs)]
      BY <2>1, <2>3, ConcatProperties
    <3>2. Len(u) \in Nat
      BY <2>3, LenProperties
    <3>3. i \in 1 .. Len(cs) + Len(u) /\ i <= Len(cs)
      BY <1>6, <2>4, <2>5, <3>2
    <3> QED
      BY <2>3, <3>1, <3>3
  <2>7. co[cohorts[i]].local_number = i - 1
    BY <2>6 DEF CohortInv, Numbered
  <2> QED
    BY <1>14, <2>2, <2>6, <2>7
<1>19. Untouched(co')
  <2>1. \A d \in DOMAIN co : IF DoesBoth(grammar.rules) THEN co[d].mark = "word" /\ co[d].enclosed = 0
                             ELSE co[d].type \notin Out
    BY <1>2 DEF CohortInv, Flat, Whole
  <2>2. \A d \in DOMAIN co : co[d].enclosed # 0 => co[d].type # {}
    BY <1>2 DEF CohortInv, DepthsHide
  <2> QED
    BY <1>5, <1>11, <1>14, <2>1, <2>2 DEF Untouched
<1>20. Controlled'
  BY <1>2 DEF CohortInv, Controlled
<1>21. Opened'
  BY <1>2 DEF Opened
<1> QED
  BY <1>17, <1>18, <1>19, <1>20, <1>21, UntouchedHolds

LEMMA DelimitTailHolds ==
  ASSUME CohortInv, DelimitTail, grammar' = grammar
  PROVE  CohortInv'
<1> DEFINE Tail1(c) == SubSeq(all_cohorts, PlaceIn(all_cohorts, c) + 1, Len(all_cohorts))
<1>1. PICK c \in Targets :
        /\ all_cohorts' = <<Fresh>> \o Tail1(c)
        /\ cohorts' = <<Fresh>> \o Appended(Tail1(c))
        /\ co' = Renumbered(Restricted(Added(co, {Fresh}, "word"), ToSet(all_cohorts')), cohorts', 1)
  BY DEF DelimitTail
<1>2. /\ pc = "rules" /\ pc' = "wrap" /\ "DELIMIT" \in grammar.rules
      /\ begin' = Fresh /\ pass' = 0 /\ sweep' = sweep
      /\ did_final_enclosure' = FALSE
  BY DEF DelimitTail, Fires
<1> DEFINE V == Shown(co)
           tail == Tail1(c)
           g == Added(co, {Fresh}, "word")
           x == Fresh
           b == <<x>>
           all == b \o tail
           f == Restricted(g, ToSet(all))
           E == {}
<1>3. /\ all_cohorts \in Seq(Nat) /\ IsInjective(all_cohorts)
      /\ DOMAIN co = ToSet(all_cohorts) /\ c \in ToSet(all_cohorts)
  BY TargetHolds, VisibleHolds DEF Shown
<1>4. tail \in Seq(Nat) /\ IsInjective(tail) /\ ToSet(tail) \subseteq DOMAIN co
  <2> DEFINE q == PlaceIn(all_cohorts, c)
             u == Before(all_cohorts, q + 1)
             v == From(all_cohorts, q + 1)
  <2>1. q \in 1 .. Len(all_cohorts) /\ Len(all_cohorts) \in Nat
    BY <1>3, PlaceInHolds, LenProperties
  <2> HIDE DEF q
  <2>2. q + 1 \in 1 .. Len(all_cohorts) + 1
    BY <2>1
  <2>3. u \in Seq(Nat) /\ v \in Seq(Nat) /\ all_cohorts = u \o v
    BY <1>3, <2>2, CutHolds
  <2> HIDE DEF u, v
  <2>4. IsInjective(v) /\ ToSet(v) \subseteq DOMAIN co
    BY <1>3, <2>3, ConcatHolds
  <2>5. tail = v
    BY DEF From, q, v
  <2> QED
    BY <2>3, <2>4, <2>5
<1>5. x \in Nat /\ x \notin DOMAIN co /\ NewBlock(b) /\ ToSet(b) = {x}
  BY FreshBlock, FreshHolds DEF NewBlock
<1>6. b \in Seq(Nat) /\ IsInjective(b) /\ \A S : Only(b, S) = IF x \in S THEN b ELSE <<>>
  BY <1>5, SingleHolds
<1>7. Extended(g, E, {x})
  <2>1. FlagSet(co, E, "removed") /\ "word" \in Marks
    BY NoneFlagged DEF Marks
  <2> HIDE DEF E
  <2> QED
    BY <2>1, AddedHolds
<1>8. /\ g \in [DOMAIN co \cup {x} -> Record] /\ g[x].type = {} /\ g[x].enclosed = 0
      /\ \A d \in DOMAIN co : g[d].type = co[d].type /\ g[d].enclosed = co[d].enclosed
  <2>1. \A d \in DOMAIN co \ {x} : d \notin E
    OBVIOUS
  <2> HIDE DEF g, x
  <2> QED
    BY <1>5, <1>7, <2>1 DEF Extended
<1>9. {d \in DOMAIN co : ~Flagged(d)} = V
  BY DEF Shown, Flagged
<1>10. Appended(tail) = Only(tail, V)
  BY <1>9 DEF Appended
<1>11. all_cohorts' = all /\ cohorts' = b \o Only(tail, V) /\ co' = Renumbered(f, cohorts', 1)
  BY <1>1, <1>10
<1> HIDE DEF tail, g, x, b, V
<1>12. /\ all \in Seq(Nat) /\ ToSet(all) = {x} \cup ToSet(tail) /\ IsInjective(all)
  <2>1. ToSet(b) \cap ToSet(tail) = {}
    BY <1>4, <1>5
  <2> QED
    BY <1>4, <1>5, <1>6, <2>1, ConcatHolds
<1>13. all[1] = x /\ all # <<>>
  <2>1. 1 \in 1 .. Len(all) /\ all[1] = x
    BY <1>4, <1>5, ConsHolds DEF b
  <2> HIDE DEF all
  <2>2. Len(all) # 0
    BY <2>1
  <2> QED
    BY <2>1, <2>2
<1> HIDE DEF all
<1>14. /\ f \in [ToSet(all) -> Record] /\ DOMAIN f = ToSet(all)
       /\ \A d \in ToSet(all) : f[d] = g[d]
  <2>1. f = [d \in ToSet(all) |-> g[d]]
    BY DEF Restricted
  <2>2. ToSet(all) \subseteq DOMAIN co \cup {x}
    BY <1>4, <1>12
  <2> HIDE DEF f
  <2> QED
    BY <1>8, <2>1, <2>2
<1> HIDE DEF f
<1>15. /\ x \in Shown(f) /\ ToSet(tail) \cap Shown(f) = ToSet(tail) \cap V
  BY <1>4, <1>8, <1>12, <1>14 DEF Shown, V
<1>16. cohorts' = Only(all, Shown(f))
  <2>1. Only(tail, Shown(f)) = Only(tail, V)
    BY <1>4, <1>15, OnlyAgree
  <2>2. Only(b \o tail, Shown(f)) = Only(b, Shown(f)) \o Only(tail, Shown(f))
    BY ONLY <1>4, <1>6, OnlyConcat
  <2> QED
    BY <1>6, <1>11, <1>15, <2>1, <2>2 DEF all
<1>17. Listing(all_cohorts', cohorts', f, x)
  <2>1. f[x].type = {}
    BY <1>8, <1>12, <1>14
  <2> QED
    BY <1>11, <1>12, <1>13, <1>14, <1>16, <2>1 DEF Listing
<1>18. Relisted(all_cohorts', cohorts', f, co', x)
  BY <1>11, <1>17, RelistedHolds
<1>19. Listing(all_cohorts', cohorts', co', begin') /\ Numbered(cohorts', co')
  BY <1>2, <1>18 DEF Relisted, x
<1>20. Untouched(co')
  <2>1. \A d \in DOMAIN co : ~DoesBoth(grammar.rules) => co[d].type \notin Out
    BY <1>2 DEF CohortInv, Whole
  <2>2. \A d \in DOMAIN co : /\ co[d].enclosed # 0 => co[d].type # {}
                             /\ DoesBoth(grammar.rules) => co[d].enclosed = 0
    BY <1>2 DEF CohortInv, DepthsHide, Flat
  <2>3. {} \notin Out
    BY DEF Out
  <2>5. DoesBoth(grammar.rules) => \A d \in ToSet(all) : f[d].mark = "word"
    BY <1>4, <1>7, <1>12, <1>14 DEF Extended
  <2>4. ASSUME NEW d \in ToSet(all)
        PROVE  /\ f[d].enclosed # 0 => f[d].type # {}
               /\ IF DoesBoth(grammar.rules) THEN f[d].mark = "word" /\ f[d].enclosed = 0
                  ELSE f[d].type \notin Out
    <3>1. d = x \/ d \in DOMAIN co
      BY <1>4, <1>12
    <3> QED
      BY <1>8, <1>14, <2>1, <2>2, <2>3, <2>5, <3>1
  <2> QED
    BY <1>14, <1>18, <2>4 DEF Relisted, Untouched
<1>21. Controlled'
  BY <1>2 DEF CohortInv, Controlled
<1>22. Opened'
  <2>1. g[x].mark = "word" /\ x \in ToSet(all)
    <3>1. x \in DOMAIN co \cup {x} /\ x \in {x}
      OBVIOUS
    <3>2. g = [d \in DOMAIN co \cup {x} |-> IF d \in {x} THEN NewRecord("word") ELSE co[d]]
      BY DEF g, Added, x
    <3>3. g[x] = NewRecord("word")
      BY <3>1, <3>2
    <3> QED
      BY <1>12, <3>3 DEF NewRecord
  <2>2. co'[x].mark = "word"
    BY <1>14, <1>18, <2>1 DEF Relisted
  <2> QED
    BY <1>2, <2>2 DEF Opened, x
<1> QED
  BY <1>19, <1>20, <1>21, <1>22, UntouchedHolds

-----------------------------------------------------------------------------
(* The beginning, and the steps that change no list.                         *)

\* A grammar that both cuts windows and takes cohorts out meets no parentheses.
PlainWhereBoth ==
  \A case \in Cases : DoesBoth(case.rules) =>
    \A shape \in case.shapes : ToSet(shape) \subseteq {"word"}

LEMMA InitHolds ==
  ASSUME Init, PlainWhereBoth
  PROVE  CohortInv
<1>1. PICK case \in Cases : \E shape \in case.shapes :
        /\ all_cohorts = [i \in 1 .. Len(shape) + 1 |-> i]
        /\ cohorts = all_cohorts
        /\ co = [i \in 1 .. Len(shape) + 1 |->
                   [NewRecord(IF i = 1 THEN "word" ELSE shape[i - 1])
                      EXCEPT !.local_number = i - 1]]
        /\ grammar = [rules |-> case.rules, tracing |-> case.tracing,
                       subtree |-> case.subtree]
  BY DEF Init
<1>2. PICK shape \in case.shapes :
        /\ all_cohorts = [i \in 1 .. Len(shape) + 1 |-> i]
        /\ cohorts = all_cohorts
        /\ co = [i \in 1 .. Len(shape) + 1 |->
                   [NewRecord(IF i = 1 THEN "word" ELSE shape[i - 1])
                      EXCEPT !.local_number = i - 1]]
        /\ grammar = [rules |-> case.rules, tracing |-> case.tracing,
                       subtree |-> case.subtree]
  BY <1>1
<1>3. /\ begin = 1 /\ pass = 0 /\ sweep = 1 /\ pc = "wrap" /\ did_final_enclosure = FALSE
  BY DEF Init
<1> DEFINE n == Len(shape) + 1
           Mark(i) == IF i = 1 THEN "word" ELSE shape[i - 1]
<1>4. shape \in Seq(Marks)
  BY CohortsAssumption
<1>5. n \in Nat /\ n >= 1 /\ \A i \in 1 .. n : Mark(i) \in Marks
  <2>1. Len(shape) \in Nat /\ \A i \in 1 .. Len(shape) : shape[i] \in Marks
    BY <1>4, LenProperties
  <2>2. \A i \in 1 .. n : i # 1 => i - 1 \in 1 .. Len(shape)
    BY <2>1
  <2> QED
    BY <2>1, <2>2 DEF Marks
<1>6. \A i \in 1 .. n : co[i] = [type |-> {}, enclosed |-> 0, local_number |-> i - 1, mark |-> Mark(i)]
  BY <1>2 DEF NewRecord
<1>7. all_cohorts = [i \in 1 .. n |-> i] /\ DOMAIN co = 1 .. n /\ co = [i \in 1 .. n |-> co[i]]
  BY <1>2
<1> HIDE DEF n, Mark
<1>8. /\ all_cohorts \in Seq(Nat) /\ Len(all_cohorts) = n /\ DOMAIN all_cohorts = 1 .. n
  BY <1>5, <1>7
<1>9. ToSet(all_cohorts) = 1 .. n /\ IsInjective(all_cohorts)
  BY <1>7 DEF ToSet, IsInjective
<1>10. \A i \in 1 .. n : co[i] \in Record
  <2> SUFFICES ASSUME NEW i \in 1 .. n
               PROVE  co[i] \in Record
    OBVIOUS
  <2> DEFINE k == i - 1
             m == Mark(i)
  <2>1. k \in Nat /\ m \in Marks /\ 0 \in 0 .. EnclosedModulus - 1
    BY <1>5, ModulusHolds
  <2>2. co[i] = [type |-> {}, enclosed |-> 0, local_number |-> k, mark |-> m]
    BY <1>6
  <2> HIDE DEF k, m
  <2> QED
    BY <2>1, <2>2 DEF Record
<1>11. co \in [ToSet(all_cohorts) -> Record]
  BY <1>7, <1>9, <1>10
<1>12. Shown(co) = 1 .. n
  BY <1>6, <1>7 DEF Shown
<1>13. cohorts = Only(all_cohorts, Shown(co))
  BY <1>2, <1>8, <1>9, <1>12, OnlyAll
<1>14. Listing(all_cohorts, cohorts, co, begin)
  <2>1. 1 \in 1 .. n
    BY <1>5
  <2>2. all_cohorts[1] = 1 /\ co[1].type = {} /\ all_cohorts # <<>>
    BY <1>5, <1>6, <1>7, <1>8, <2>1
  <2> QED
    BY <1>3, <1>8, <1>9, <1>11, <1>13, <2>2 DEF Listing
<1>15. Numbered(cohorts, co)
  BY <1>2, <1>6, <1>7, <1>8 DEF Numbered
<1>16. \A c \in DOMAIN co : co[c].type = {} /\ co[c].enclosed = 0
  BY <1>6, <1>7
<1>17. {} \notin Out
  BY DEF Out
<1>18. DepthsHide /\ Flat /\ Whole
  <2>1. ASSUME DoesBoth(grammar.rules), NEW i \in 1 .. n
        PROVE  co[i].mark = "word"
    <3>1. Mark(i) = "word"
      <4>1. grammar.rules = case.rules
        BY <1>2
      <4>2. ToSet(shape) \subseteq {"word"}
        BY <2>1, <4>1 DEF PlainWhereBoth
      <4>3. Len(shape) \in Nat /\ DOMAIN shape = 1 .. Len(shape)
        BY <1>4, LenProperties
      <4>4. i # 1 => i - 1 \in DOMAIN shape
        BY <4>3 DEF n
      <4> QED
        BY <4>2, <4>4 DEF Mark, ToSet
    <3> DEFINE k == i - 1
               m == Mark(i)
    <3>2. co[i] = [type |-> {}, enclosed |-> 0, local_number |-> k, mark |-> m]
      BY <1>6
    <3> HIDE DEF k, m
    <3>3. co[i].mark = m
      BY <3>2
    <3> QED
      BY <3>1, <3>3 DEF m
  <2> QED
    BY <1>7, <1>16, <1>17, <2>1 DEF DepthsHide, Flat, Whole
<1>19. DepthsLow
  BY <1>7, <1>8, <1>16, <1>17 DEF DepthsLow, Deep
<1>20. Controlled
  <2>1. grammar.rules = case.rules /\ grammar.subtree = case.subtree
    BY <1>2
  <2>2. \E d \in Cases : grammar.rules = d.rules /\ grammar.subtree = d.subtree
    BY <2>1
  <2>3. pass \in Nat /\ sweep \in Nat \ {0} /\ did_final_enclosure \in BOOLEAN
    <3>1. did_final_enclosure \in BOOLEAN
      BY <1>3, Zenon
    <3>2. pass \in Nat /\ sweep \in Nat \ {0}
      BY <1>3
    <3> QED
      BY <3>1, <3>2
  <2>4. pc \in {"wrap", "pass", "rules", "unpack", "done"} /\ pc \notin {"rules", "unpack"}
    BY <1>3
  <2> QED
    BY <2>2, <2>3, <2>4 DEF Controlled
<1>21. Opened
  <2>1. 1 \in 1 .. n /\ Mark(1) = "word"
    BY <1>5 DEF Mark
  <2>2. co[1].mark = "word"
    <3> DEFINE k == 1 - 1
               m == Mark(1)
    <3>1. co[1] = [type |-> {}, enclosed |-> 0, local_number |-> k, mark |-> m]
      BY <1>6, <2>1
    <3> HIDE DEF k, m
    <3>2. co[1].mark = m
      BY <3>1
    <3> QED
      BY <2>1, <3>2 DEF m
  <2> QED
    BY <1>3, <2>2 DEF Opened
<1> QED
  BY <1>14, <1>15, <1>18, <1>19, <1>20, <1>21 DEF CohortInv

LEMMA DeepMore ==
  ASSUME NEW X, NEW f \in [X -> Record], NEW c \in X, NEW n \in Int, NEW m \in Int,
         n <= m, Deep(f, c, n)
  PROVE  Deep(f, c, m)
<1>1. f[c].enclosed \in Int /\ EnclosedModulus \in Int
  BY ModulusHolds DEF Record
<1> QED
  BY <1>1 DEF Deep

LEMMA ControlHolds ==
  ASSUME CohortInv, grammar' = grammar, UNCHANGED window, begin' = begin, Controlled',
         pc # "done", pc' # "wrap",
         \/ pc = "wrap" \/ pc' = "done"
         \/ \A i \in 1 .. Len(all_cohorts) :
              Lowered(i) \in Int /\ Lowered(i)' \in Int /\ Lowered(i) <= Lowered(i)'
  PROVE  CohortInv'
<1>1. all_cohorts' = all_cohorts /\ cohorts' = cohorts /\ co' = co
  BY DEF window
<1>2. /\ Listing(all_cohorts, cohorts, co, begin) /\ Numbered(cohorts, co)
      /\ DepthsHide /\ DepthsLow /\ Flat /\ Whole
  BY DEF CohortInv
<1>3. /\ co \in [ToSet(all_cohorts) -> Record]
      /\ \A i \in 1 .. Len(all_cohorts) : all_cohorts[i] \in ToSet(all_cohorts)
      /\ DOMAIN co = ToSet(all_cohorts)
  BY VisibleHolds DEF ToSet
<1>4. DepthsHide' /\ Flat' /\ Whole'
  BY <1>1, <1>2 DEF DepthsHide, Flat, Whole
<1>6. Opened'
  BY DEF Opened
<1>5. DepthsLow'
  <2> SUFFICES ASSUME pc' # "done", NEW i \in 1 .. Len(all_cohorts)
               PROVE  Deep(co, all_cohorts[i], Lowered(i)')
    BY <1>1 DEF DepthsLow
  <2> DEFINE c == all_cohorts[i]
  <2>1. c \in ToSet(all_cohorts)
    BY <1>3
  <2> HIDE DEF c
  <2>2. CASE pc = "wrap"
    BY <1>2, <1>3, <2>1, <2>2 DEF Flat, Whole, Deep, c
  <2>3. CASE pc # "wrap"
    <3>1. Lowered(i) \in Int /\ Lowered(i)' \in Int /\ Lowered(i) <= Lowered(i)'
      BY <2>3
    <3>2. Deep(co, c, Lowered(i))
      BY <1>2 DEF DepthsLow, c
    <3> HIDE DEF Lowered
    <3> QED
      BY <1>3, <2>1, <3>1, <3>2, DeepMore DEF c
  <2> QED
    BY <2>2, <2>3
<1> QED
  BY <1>1, <1>2, <1>4, <1>5, <1>6 DEF CohortInv

LEMMA WrappedHolds ==
  ASSUME CohortInv, Wrapped, grammar' = grammar
  PROVE  CohortInv'
<1>1. /\ pc = "wrap" /\ pc' = "pass" /\ pass' = 0 /\ sweep' = sweep
      /\ did_final_enclosure' = did_final_enclosure /\ UNCHANGED window /\ begin' = begin
  BY DEF Wrapped
<1>2. Controlled'
  BY <1>1 DEF CohortInv, Controlled
<1> QED
  BY <1>1, <1>2, ControlHolds

LEMMA StartPassHolds ==
  ASSUME CohortInv, StartPass, grammar' = grammar
  PROVE  CohortInv'
<1>1. /\ pc = "pass" /\ pass' = pass + 1 /\ sweep' = sweep
      /\ pc' = IF pass' > MaxPass THEN "done" ELSE "rules"
      /\ did_final_enclosure' = did_final_enclosure /\ UNCHANGED window /\ begin' = begin
  BY DEF StartPass
<1>2. pass \in Nat /\ MaxPass \in Nat
  BY ModulusHolds DEF CohortInv, Controlled
<1>3. Controlled'
  <2>1. pass' \in Nat /\ pass' >= 1
    BY <1>1, <1>2
  <2>2. pc' = "rules" => pass' \in 1 .. MaxPass
    BY <1>1, <1>2, <2>1
  <2>3. pc' \in {"done", "rules"}
    BY <1>1
  <2> QED
    BY <1>1, <2>1, <2>2, <2>3 DEF CohortInv, Controlled
<1>4. pc' = "done" \/ \A i \in 1 .. Len(all_cohorts) :
                        Lowered(i) \in Int /\ Lowered(i)' \in Int /\ Lowered(i) <= Lowered(i)'
  <2> SUFFICES ASSUME pc' # "done", NEW i \in 1 .. Len(all_cohorts)
               PROVE  Lowered(i) \in Int /\ Lowered(i)' \in Int /\ Lowered(i) <= Lowered(i)'
    OBVIOUS
  <2>1. Lowered(i) = 2 * pass /\ Lowered(i)' = 2 * (pass + 1) - 2
    BY <1>1 DEF Lowered
  <2> QED
    BY <1>2, <2>1
<1>5. pc # "done" /\ pc' # "wrap"
  BY <1>1
<1> QED
  BY <1>1, <1>3, <1>4, <1>5, ControlHolds

LEMMA EndRulesHolds ==
  ASSUME CohortInv, EndRules, grammar' = grammar
  PROVE  CohortInv'
<1>1. /\ pc = "rules" /\ pc' = "unpack" /\ pass' = pass /\ sweep' = 1
      /\ did_final_enclosure' = did_final_enclosure /\ UNCHANGED window /\ begin' = begin
  BY DEF EndRules
<1>2. pass \in Nat /\ did_final_enclosure \in BOOLEAN
  BY DEF CohortInv, Controlled
<1>3. Controlled'
  BY <1>1 DEF CohortInv, Controlled
<1>4. ASSUME NEW i \in 1 .. Len(all_cohorts)
      PROVE  Lowered(i) \in Int /\ Lowered(i)' \in Int /\ Lowered(i) <= Lowered(i)'
  <2>1. /\ Lowered(i) = 2 * pass - 2
        /\ Lowered(i)' = (2 * pass - 2) + (IF did_final_enclosure THEN 1 ELSE 0) + (IF i < 1 THEN 1 ELSE 0)
    BY <1>1 DEF Lowered
  <2> QED
    BY <1>2, <2>1
<1>5. pc # "done" /\ pc' # "wrap"
  BY <1>1
<1> QED
  BY <1>1, <1>3, <1>4, <1>5, ControlHolds

LEMMA FinalPassHolds ==
  ASSUME CohortInv, FinalPass, grammar' = grammar
  PROVE  CohortInv'
<1>1. /\ pc = "unpack" /\ pass' = pass /\ ~did_final_enclosure /\ did_final_enclosure' = TRUE
      /\ UNCHANGED window /\ begin' = begin
      /\ pc' = (IF tracerule THEN "unpack" ELSE "pass")
      /\ sweep' = (IF tracerule THEN 1 ELSE sweep)
  BY DEF FinalPass, Again
<1>2. pass \in Nat /\ sweep \in Nat \ {0} /\ pass \in 1 .. MaxPass
  BY <1>1 DEF CohortInv, Controlled
<1>3. Controlled'
  BY <1>1 DEF CohortInv, Controlled
<1>4. ASSUME NEW i \in 1 .. Len(all_cohorts)
      PROVE  Lowered(i) \in Int /\ Lowered(i)' \in Int /\ Lowered(i) <= Lowered(i)'
  <2>1. Lowered(i) = (2 * pass - 2) + 0 + (IF i < sweep THEN 1 ELSE 0)
    BY <1>1 DEF Lowered
  <2>2. Lowered(i) \in Int /\ Lowered(i) <= (2 * pass - 2) + 1
    BY <1>2, <2>1
  <2>3. CASE tracerule
    <3>1. Lowered(i)' = (2 * pass - 2) + 1 + (IF i < 1 THEN 1 ELSE 0)
      BY <1>1, <2>3 DEF Lowered
    <3> HIDE DEF Lowered
    <3> QED
      BY <1>2, <2>2, <3>1
  <2>4. CASE ~tracerule
    <3>1. Lowered(i)' = 2 * pass
      BY <1>1, <2>4 DEF Lowered
    <3> HIDE DEF Lowered
    <3> QED
      BY <1>2, <2>2, <3>1
  <2> QED
    BY <2>3, <2>4
<1>5. pc # "done" /\ pc' # "wrap"
  BY <1>1
<1> QED
  BY <1>1, <1>3, <1>4, <1>5, ControlHolds

-----------------------------------------------------------------------------
(* Wrapping.                                                                 *)

LEMMA MaxMinHold ==
  ASSUME NEW n \in Nat, NEW S, S \subseteq 0 .. n, S # {}
  PROVE  /\ Max(S) \in S /\ \A y \in S : Max(S) >= y
         /\ Min(S) \in S /\ \A y \in S : Min(S) <= y
<1>1. \E x \in S : \A y \in S : x <= y
  <2>1. S \subseteq Nat
    OBVIOUS
  <2> QED
    BY <2>1, LeastNatural
<1>2. \E x \in S : \A y \in S : x >= y
  <2> DEFINE T == {n - x : x \in S}
  <2>5. \A x \in S : x \in 0 .. n
    OBVIOUS
  <2>6. \A x \in S : n - x \in Nat
    BY <2>5
  <2>1. T \subseteq Nat /\ T # {}
    BY <2>6
  <2>2. PICK m \in T : \A y \in T : m <= y
    BY <2>1, LeastNatural
  <2>3. PICK x \in S : m = n - x
    BY <2>2
  <2>4. ASSUME NEW y \in S
        PROVE  x >= y
    <3>1. n - x <= n - y
      BY <2>2, <2>3
    <3>2. x \in Int /\ y \in Int
      OBVIOUS
    <3> QED
      BY <3>1, <3>2
  <2> QED
    BY <2>4
<1> QED
  BY <1>1, <1>2 DEF Max, Min

LEMMA DeeperHolds ==
  ASSUME CohortInv, pc = "wrap", ~DoesBoth(grammar.rules), NEW span
  PROVE  /\ Deeper(span) \in [DOMAIN co -> Record]
         /\ \A c \in DOMAIN co :
              /\ Deeper(span)[c].type = IF c \in span THEN {"enclosed"} ELSE co[c].type
              /\ Deeper(span)[c].local_number = co[c].local_number
              /\ Deeper(span)[c].mark = co[c].mark
              /\ c \notin span => Deeper(span)[c].enclosed = co[c].enclosed
<1> DEFINE g == Deeper(span)
<1>1. co \in [DOMAIN co -> Record]
  BY VisibleHolds
<1>2. \A c \in DOMAIN co : co[c].type \notin Out
  BY DEF CohortInv, Whole
<1>3. ASSUME NEW c \in DOMAIN co
      PROVE  /\ g[c] \in Record
             /\ g[c].type = IF c \in span THEN {"enclosed"} ELSE co[c].type
             /\ g[c].local_number = co[c].local_number
             /\ g[c].mark = co[c].mark
             /\ c \notin span => g[c].enclosed = co[c].enclosed
  <2> DEFINE e == (co[c].enclosed + 1) % EnclosedModulus
             x == co[c]
             t == x.type \cup {"enclosed"}
  <2>1. x \in Record
    BY <1>1
  <2>2. e \in 0 .. EnclosedModulus - 1
    <3>1. x.enclosed \in Nat
      BY <2>1 DEF Record
    <3>2. EnclosedModulus \in Nat /\ EnclosedModulus > 1
      BY ModulusHolds
    <3> QED
      BY <3>1, <3>2
  <2>3. t = {"enclosed"}
    <3>1. x.type \in {{}, {"enclosed"}}
      BY <1>2, <2>1 DEF Record
    <3> QED
      BY <3>1
  <2>4. CASE c \in span
    <3>1. g[c] = [x EXCEPT !.type = t, !.enclosed = e]
      BY <2>4 DEF Deeper
    <3> HIDE DEF e, g, t, x
    <3> QED
      BY <2>1, <2>2, <2>3, <2>4, <3>1 DEF Record, x
  <2>5. CASE c \notin span
    <3>1. g[c] = x
      BY <2>5 DEF Deeper
    <3> QED
      BY <2>1, <2>5, <3>1
  <2> QED
    BY <2>4, <2>5
<1>4. g = [c \in DOMAIN co |-> g[c]]
  BY DEF Deeper
<1> HIDE DEF g
<1>5. g \in [DOMAIN co -> Record]
  BY <1>3, <1>4
<1> QED
  BY <1>3, <1>5 DEF g

\* Where the first and the last cohort of an enclosure are, in the two lists.
LEMMA SpanHolds ==
  ASSUME CohortInv, NEW l \in 1 .. Len(cohorts), NEW r \in 1 .. Len(cohorts),
         NEW span, span = {all_cohorts[i] : i \in PlaceIn(all_cohorts, cohorts[l])
                                                   .. PlaceIn(all_cohorts, cohorts[r])}
  PROVE  \A i \in 1 .. Len(cohorts) : i \in l .. r <=> cohorts[i] \in span
<1> DEFINE V == Shown(co)
           Place(i) == PlaceIn(all_cohorts, cohorts[i])
<1>1. /\ all_cohorts \in Seq(Nat) /\ IsInjective(all_cohorts) /\ cohorts = Only(all_cohorts, V)
      /\ DOMAIN cohorts = 1 .. Len(cohorts) /\ DOMAIN all_cohorts = 1 .. Len(all_cohorts)
      /\ ToSet(cohorts) = V /\ V \subseteq ToSet(all_cohorts)
      /\ Len(cohorts) \in Nat /\ Len(all_cohorts) \in Nat
  BY VisibleHolds
<1>2. \A i \in 1 .. Len(cohorts) :
        Place(i) \in 1 .. Len(all_cohorts) /\ all_cohorts[Place(i)] = cohorts[i]
  <2> SUFFICES ASSUME NEW i \in 1 .. Len(cohorts)
               PROVE  Place(i) \in 1 .. Len(all_cohorts) /\ all_cohorts[Place(i)] = cohorts[i]
    OBVIOUS
  <2> DEFINE c == cohorts[i]
  <2>1. c \in ToSet(all_cohorts)
    BY <1>1 DEF ToSet
  <2> HIDE DEF c
  <2>2. PlaceIn(all_cohorts, c) \in 1 .. Len(all_cohorts) /\ all_cohorts[PlaceIn(all_cohorts, c)] = c
    BY <1>1, <2>1, PlaceInHolds
  <2> QED
    BY <2>2 DEF c
<1> HIDE DEF V, Place
<1>3. \A i \in 1 .. Len(cohorts) : Answers(all_cohorts, cohorts, V, Place(i), i)
  BY <1>1, <1>2 DEF Answers
<1>4. \A i, j \in 1 .. Len(cohorts) : Place(i) <= Place(j) <=> i <= j
  BY <1>1, <1>3, FitsOrder
<1>5. \A i \in 1 .. Len(cohorts) :
        cohorts[i] \in span <=> Place(i) \in Place(l) .. Place(r)
  <2> SUFFICES ASSUME NEW i \in 1 .. Len(cohorts)
               PROVE  cohorts[i] \in span <=> Place(i) \in Place(l) .. Place(r)
    OBVIOUS
  <2>1. span = {all_cohorts[k] : k \in Place(l) .. Place(r)}
    BY DEF Place
  <2>2. Place(l) \in 1 .. Len(all_cohorts) /\ Place(r) \in 1 .. Len(all_cohorts)
    BY <1>2
  <2>3. \A k \in Place(l) .. Place(r) : k \in 1 .. Len(all_cohorts)
    BY <1>1, <2>2
  <2>4. \A k \in 1 .. Len(all_cohorts) : all_cohorts[k] = cohorts[i] => k = Place(i)
    BY <1>1, <1>2 DEF IsInjective
  <2> QED
    BY <1>2, <2>1, <2>3, <2>4
<1> SUFFICES ASSUME NEW i \in 1 .. Len(cohorts)
             PROVE  i \in l .. r <=> Place(i) \in Place(l) .. Place(r)
  BY <1>5
<1>6. (Place(l) <= Place(i) <=> l <= i) /\ (Place(i) <= Place(r) <=> i <= r)
  BY <1>4
<1>7. /\ Place(i) \in Int /\ Place(l) \in Int /\ Place(r) \in Int
      /\ i \in Int /\ l \in Int /\ r \in Int
  BY <1>2
<1> HIDE DEF Place
<1> QED
  BY <1>6, <1>7

LEMMA WrapEnclosureHolds ==
  ASSUME CohortInv, WrapEnclosure, grammar' = grammar
  PROVE  CohortInv'
<1> DEFINE l == Max(Openings)
           r == Min(Closing(l))
           span == {all_cohorts[i] : i \in PlaceIn(all_cohorts, cohorts[l])
                                             .. PlaceIn(all_cohorts, cohorts[r])}
           V == Shown(co)
           R == Nat \ span
           cs == Only(cohorts, R)
           g == Deeper(span)
<1>1. /\ pc = "wrap" /\ pc' = "wrap" /\ Openings # {} /\ all_cohorts' = all_cohorts
      /\ begin' = begin /\ pass' = pass /\ sweep' = sweep
      /\ did_final_enclosure' = did_final_enclosure
      /\ cohorts' = Without(cohorts, l .. r)
      /\ co' = Renumbered(g, cohorts', l)
  BY DEF WrapEnclosure
<1>2. /\ all_cohorts \in Seq(Nat) /\ IsInjective(all_cohorts) /\ cohorts = Only(all_cohorts, V)
      /\ cohorts \in Seq(Nat) /\ ToSet(cohorts) = V
      /\ DOMAIN cohorts = 1 .. Len(cohorts) /\ Len(cohorts) \in Nat
      /\ DOMAIN co = ToSet(all_cohorts) /\ V \subseteq DOMAIN co
      /\ ToSet(all_cohorts) \subseteq Nat
      /\ cohorts[1] = begin /\ begin \in V /\ all_cohorts[1] = begin /\ 1 \in 1 .. Len(all_cohorts)
      /\ 1 \in 1 .. Len(cohorts)
  BY VisibleHolds
<1>3. l \in Openings /\ l \in 1 .. Len(cohorts) /\ co[cohorts[l]].mark = "left"
  <2>1. Openings \subseteq 0 .. Len(cohorts)
    BY <1>2 DEF Openings
  <2>2. l \in Openings
    BY <1>1, <1>2, <2>1, MaxMinHold
  <2> QED
    BY <1>2, <2>2 DEF Openings
<1>3a. ~DoesBoth(grammar.rules)
  <2>1. cohorts[l] \in DOMAIN co
    BY <1>2, <1>3 DEF ToSet
  <2> QED
    BY <1>3, <2>1 DEF CohortInv, Flat
<1>4. r \in l .. Len(cohorts)
  <2>1. Closing(l) # {} /\ Closing(l) \subseteq l .. Len(cohorts)
    BY <1>3 DEF Openings, Closing
  <2> HIDE DEF l
  <2>2. Closing(l) \subseteq 0 .. Len(cohorts)
    BY <1>2, <1>3, <2>1
  <2>3. r \in Closing(l)
    BY <1>2, <2>1, <2>2, MaxMinHold
  <2> QED
    BY <2>1, <2>3
<1>5. r \in 1 .. Len(cohorts)
  <2> HIDE DEF l, r
  <2> QED
    BY <1>2, <1>3, <1>4
<1>6. \A i \in 1 .. Len(cohorts) : i \in l .. r <=> cohorts[i] \in span
  <2> DEFINE S == span
  <2>1. S = {all_cohorts[i] : i \in PlaceIn(all_cohorts, cohorts[l])
                                      .. PlaceIn(all_cohorts, cohorts[r])}
    OBVIOUS
  <2> HIDE DEF S, l, r
  <2>2. \A i \in 1 .. Len(cohorts) : i \in l .. r <=> cohorts[i] \in S
    BY <1>3, <1>5, <2>1, SpanHolds, ZenonT(60)
  <2> QED
    BY <2>2 DEF S
<1>7. DOMAIN g = DOMAIN co
  BY DEF Deeper
<1> HIDE DEF l, r, span
<1>8. /\ g \in [DOMAIN co -> Record]
      /\ \A c \in DOMAIN co :
           /\ g[c].type = IF c \in span THEN {"enclosed"} ELSE co[c].type
           /\ g[c].local_number = co[c].local_number
           /\ g[c].mark = co[c].mark
           /\ c \notin span => g[c].enclosed = co[c].enclosed
  BY <1>1, <1>3a, DeeperHolds
<1> HIDE DEF g, R, V
<1>9. cohorts' = cs
  <2>1. \A i \in 1 .. Len(cohorts) : cohorts[i] \in Nat
    BY <1>2
  <2>2. \A i \in 1 .. Len(cohorts) : i \in l .. r <=> cohorts[i] \notin R
    BY <1>6, <2>1 DEF R
  <2>3. Without(cohorts, l .. r) = Only(cohorts, R)
    <3> DEFINE P == l .. r
    <3>1. \A i \in 1 .. Len(cohorts) : i \in P <=> cohorts[i] \notin R
      BY <2>2
    <3> HIDE DEF P
    <3>2. Without(cohorts, P) = Only(cohorts, R)
      BY <1>2, <3>1, WithoutIsOnly
    <3> QED
      BY <3>2 DEF P
  <2> QED
    BY <1>1, <2>3
<1>10. cs = Only(all_cohorts, Shown(g))
  <2>1. Only(Only(all_cohorts, V), R) = Only(all_cohorts, V \cap R)
    BY ONLY <1>2, OnlyOnly
  <2>2. V \cap R = Shown(g)
    BY <1>2, <1>7, <1>8 DEF V, R, Shown
  <2> QED
    BY <1>2, <2>1, <2>2
<1>11. 1 < l /\ begin \notin span
  <2>1. l # 1
    BY <1>1, <1>2, <1>3 DEF CohortInv, Opened
  <2>2. 1 \notin l .. r /\ 1 < l
    BY <1>2, <1>3, <2>1
  <2> QED
    BY <1>2, <1>6, <2>2
<1>12. Listing(all_cohorts, cs, g, begin)
  <2>1. all_cohorts # <<>> /\ g[begin].type = {}
    <3>1. all_cohorts # <<>>
      BY DEF CohortInv, Listing
    <3>2. co[begin].type = {} /\ begin \in DOMAIN co
      BY <1>2 DEF V, Shown
    <3> QED
      BY <1>8, <1>11, <3>1, <3>2
  <2> HIDE DEF cs
  <2> QED
    BY <1>2, <1>8, <1>10, <2>1 DEF Listing
<1>13. \A i \in 1 .. Len(cs) : i < l => cs[i] = cohorts[i] /\ i \in 1 .. Len(cohorts)
  <2> DEFINE u == Before(cohorts, l)
             v == From(cohorts, l)
             w == Only(v, R)
  <2>1. cohorts \in Seq(Nat) /\ l \in 1 .. Len(cohorts) + 1
    BY <1>2, <1>3
  <2>2. u \in Seq(Nat) /\ v \in Seq(Nat) /\ cohorts = u \o v /\ Len(u) = l - 1
    BY ONLY <2>1, CutHolds
  <2>3. ToSet(u) = {cohorts[i] : i \in 1 .. l - 1}
    BY ONLY <2>1, ElementsBefore
  <2>4. ToSet(u) \subseteq R
    <3>1. \A i \in 1 .. l - 1 : i \in 1 .. Len(cohorts) /\ i \notin l .. r
      BY <1>2, <1>3
    <3>2. \A i \in 1 .. l - 1 : cohorts[i] \in R
      BY <1>2, <1>6, <3>1 DEF R
    <3> QED
      BY <2>3, <3>2
  <2> HIDE DEF u, v
  <2>5. Only(u \o v, R) = Only(u, R) \o Only(v, R)
    BY ONLY <2>2, OnlyConcat
  <2>6. Only(u, R) = u /\ w \in Seq(Nat)
    BY <2>2, <2>4, OnlyAll, OnlyHolds
  <2>7. cs = u \o w
    BY <2>2, <2>5, <2>6
  <2> HIDE DEF w, cs
  <2>8. /\ Len(u) \in Nat /\ Len(v) \in Nat /\ Len(w) \in Nat /\ Len(u \o v) = Len(u) + Len(v)
        /\ \A i \in 1 .. Len(u) + Len(w) : (u \o w)[i] = IF i <= Len(u) THEN u[i] ELSE w[i - Len(u)]
        /\ \A i \in 1 .. Len(u) + Len(v) : (u \o v)[i] = IF i <= Len(u) THEN u[i] ELSE v[i - Len(u)]
    BY <2>2, <2>6, ConcatProperties, LenProperties
  <2>9. \A i \in 1 .. Len(cs) : i < l => i \in 1 .. Len(u)
    BY <1>2, <1>3, <2>2
  <2>10. ASSUME NEW i \in 1 .. Len(u)
         PROVE  (u \o w)[i] = (u \o v)[i] /\ i \in 1 .. Len(u \o v)
    <3>1. i \in 1 .. Len(u) + Len(w) /\ i \in 1 .. Len(u) + Len(v) /\ i <= Len(u)
      BY <2>8
    <3> QED
      BY <2>8, <3>1
  <2> QED
    BY <2>2, <2>7, <2>9, <2>10
<1>14. \A i \in 1 .. Len(cs) : i < l => g[cs[i]].local_number = i - 1
  <2>1. \A i \in 1 .. Len(cohorts) : co[cohorts[i]].local_number = i - 1 /\ cohorts[i] \in DOMAIN co
    BY <1>2 DEF CohortInv, Numbered, ToSet
  <2> HIDE DEF cs
  <2> QED
    BY <1>8, <1>13, <2>1
<1>15. Relisted(all_cohorts, cs, g, co', begin)
  <2>1. l \in Nat \ {0}
    BY <1>2, <1>3
  <2> HIDE DEF cs
  <2> QED
    BY <1>1, <1>9, <1>12, <1>14, <2>1, RelistedFrom
<1>16. Listing(all_cohorts', cohorts', co', begin') /\ Numbered(cohorts', co')
  BY <1>1, <1>9, <1>15 DEF Relisted
<1>17. Untouched(co')
  <2>1. \A c \in DOMAIN co : co[c].type \notin Out /\ (co[c].enclosed # 0 => co[c].type # {})
    BY <1>1, <1>3a DEF CohortInv, Whole, DepthsHide
  <2>2. {"enclosed"} \notin Out
    BY DEF Out
  <2>3. \A c \in DOMAIN co : g[c].type \notin Out /\ (g[c].enclosed # 0 => g[c].type # {})
    BY <1>8, <2>1, <2>2
  <2> QED
    BY <1>3a, <1>7, <1>15, <2>3 DEF Relisted, Untouched
<1>18. Opened'
  <2>1. co[begin].mark = "word" /\ begin \in DOMAIN co
    BY <1>1, <1>2 DEF CohortInv, Opened
  <2> QED
    BY <1>1, <1>7, <1>8, <1>15, <2>1 DEF Relisted, Opened
<1>19. Controlled'
  BY <1>1 DEF CohortInv, Controlled
<1> QED
  BY <1>16, <1>17, <1>18, <1>19, UntouchedHolds

-----------------------------------------------------------------------------
(* Unpacking.                                                                *)

\* `enclosed` never gets down to zero by running over: what is taken out is
\* passed at most twice in a pass.
KeptLow == EnclosedModulus > 2 * MaxPass

LEMMA OneQuotient ==
  ASSUME NEW m \in Nat, NEW q \in Int, NEW k \in Int, NEW r \in Int,
         0 <= k, k < m, 0 <= r, r < m, k + m = m * q + r
  PROVE  r = k
<1>1. CASE q <= 0
  <2>1. m * q <= 0
    BY <1>1
  <2> QED
    BY <2>1
<1>2. CASE q >= 2
  <2>1. m * q >= 2 * m
    BY <1>2
  <2> QED
    BY <2>1
<1>3. CASE q = 1
  BY <1>3
<1> QED
  BY <1>1, <1>2, <1>3

LEMMA LessOne ==
  ASSUME NEW m \in Nat, m > 1, NEW e \in 0 .. m - 1
  PROVE  (e + m - 1) % m = IF e = 0 THEN m - 1 ELSE e - 1
<1>1. (m - 1) % m = m - 1
  OBVIOUS
<1>2. ASSUME e # 0
      PROVE  (e + m - 1) % m = e - 1
  <2> DEFINE k == e - 1
             q == (k + m) \div m
             r == (k + m) % m
  <2>1. k \in Int /\ 0 <= k /\ k < m
    BY <1>2
  <2>2. q \in Int /\ r \in Int /\ 0 <= r /\ r < m /\ k + m = m * q + r
    BY <2>1
  <2>3. e + m - 1 = k + m
    OBVIOUS
  <2> HIDE DEF k, q
  <2>4. r = k
    <3> HIDE DEF r
    <3> QED
      BY <2>1, <2>2, OneQuotient
  <2> QED
    BY <2>3, <2>4 DEF k
<1> QED
  BY <1>1, <1>2

LEMMA LevelHolds ==
  ASSUME CohortInv, NEW c \in DOMAIN co
  PROVE  /\ co[c].enclosed \in 0 .. EnclosedModulus - 1
         /\ Level(c) = IF co[c].enclosed = 0 THEN EnclosedModulus - 1 ELSE co[c].enclosed - 1
         /\ Level(c) \in 0 .. EnclosedModulus - 1
         /\ Level(c) = 0 <=> co[c].enclosed = 1
<1> DEFINE e == co[c].enclosed
           m == EnclosedModulus
<1>1. m \in Nat /\ m > 1
  BY ModulusHolds
<1>2. co[c] \in Record
  BY VisibleHolds
<1>3. e \in 0 .. m - 1
  BY <1>2 DEF Record
<1>4. Level(c) = (e + m - 1) % m
  BY DEF Level
<1> HIDE DEF e, m
<1>5. Level(c) = IF e = 0 THEN m - 1 ELSE e - 1
  BY <1>1, <1>3, <1>4, LessOne
<1> HIDE DEF Level
<1>6. Level(c) \in 0 .. m - 1 /\ (Level(c) = 0 <=> e = 1)
  BY <1>1, <1>3, <1>5
<1> QED
  BY <1>3, <1>5, <1>6 DEF e, m

\* One level less deep: what is not enclosed any more is visible.
Raised(f, run) ==
  /\ f \in [DOMAIN co -> Record]
  /\ \A c \in DOMAIN co :
       /\ f[c].type = IF c \in run /\ co[c].enclosed = 1 THEN {} ELSE co[c].type
       /\ f[c].enclosed = IF c \in run THEN Level(c) ELSE co[c].enclosed
       /\ f[c].local_number = co[c].local_number /\ f[c].mark = co[c].mark

LEMMA ShallowerHolds ==
  ASSUME CohortInv, NEW run,
         \A c \in run \cap DOMAIN co :
           co[c].type # {} /\ (co[c].enclosed = 1 => co[c].type \notin Out)
  PROVE  Raised(Shallower(run), run)
<1> DEFINE g == Shallower(run)
<1>1. co \in [DOMAIN co -> Record]
  BY VisibleHolds
<1>2. ASSUME NEW c \in DOMAIN co
      PROVE  /\ g[c] \in Record
             /\ g[c].type = IF c \in run /\ co[c].enclosed = 1 THEN {} ELSE co[c].type
             /\ g[c].enclosed = IF c \in run THEN Level(c) ELSE co[c].enclosed
             /\ g[c].local_number = co[c].local_number /\ g[c].mark = co[c].mark
  <2> DEFINE x == co[c]
             e == Level(c)
             t == IF Level(c) = 0 THEN x.type \ {"enclosed"} ELSE x.type
             d == IF co[c].enclosed = 1 THEN {} ELSE x.type
  <2>1. x \in Record
    BY <1>1
  <2>2. e \in 0 .. EnclosedModulus - 1 /\ (e = 0 <=> co[c].enclosed = 1)
    BY LevelHolds
  <2>3. CASE c \in run
    <3>1. t = d
      <4>1. CASE co[c].enclosed = 1
        <5>1. x.type = {"enclosed"}
          BY <2>1, <2>3, <4>1 DEF Record
        <5> QED
          BY <2>2, <4>1, <5>1
      <4>2. CASE co[c].enclosed # 1
        BY <2>2, <4>2
      <4> QED
        BY <4>1, <4>2
    <3>2. g[c] = [x EXCEPT !.enclosed = e, !.type = t]
      BY <2>3 DEF Shallower
    <3>3. d \in {{}, {"enclosed"}} \cup Out
      BY <2>1 DEF Record
    <3> HIDE DEF e, g, t, x, d
    <3>4. g[c] \in Record /\ g[c].type = d /\ g[c].enclosed = e
          /\ g[c].local_number = x.local_number /\ g[c].mark = x.mark
      BY <2>1, <2>2, <3>1, <3>2, <3>3 DEF Record
    <3> QED
      BY <2>3, <3>4 DEF e, d, x
  <2>4. CASE c \notin run
    <3>1. g[c] = x
      BY <2>4 DEF Shallower
    <3> QED
      BY <2>1, <2>4, <3>1
  <2> QED
    BY <2>3, <2>4
<1>3. g = [c \in DOMAIN co |-> g[c]]
  BY DEF Shallower
<1> HIDE DEF g
<1>4. g \in [DOMAIN co -> Record]
  BY <1>2, <1>3
<1> QED
  BY <1>2, <1>4 DEF g, Raised

\* The place in the list does not move over what is not in it.
LEMMA FitsSkip ==
  ASSUME NEW D, NEW s \in Seq(D), NEW S, NEW t \in Seq(D), NEW p, NEW k, Fits(s, t, S, p, k),
         p \in 1 .. Len(s), s[p] \notin S
  PROVE  Fits(s, t, S, p + 1, k)
<1> DEFINE a == Before(s, p)
           b == From(s, p + 1)
           x == s[p]
           w == <<x>>
<1>1. p + 1 \in 1 .. Len(s) + 1 /\ x \in D /\ Before(s, p + 1) = a \o w /\ From(s, p) = w \o b
  BY CutNext
<1>2. a \in Seq(D) /\ b \in Seq(D)
  <2>1. p \in 1 .. Len(s) + 1
    BY CutNext
  <2> QED
    BY <1>1, <2>1, CutHolds
<1>3. w \in Seq(D) /\ Only(w, S) = <<>>
  BY <1>1, SingleHolds
<1>4. Only(a, S) = Before(t, k) /\ Only(w \o b, S) = From(t, k) /\ k \in 1 .. Len(t) + 1
  BY <1>1 DEF Fits
<1> DEFINE A == Only(a, S)
           B == Only(b, S)
<1>5. A \in Seq(D) /\ B \in Seq(D)
  BY <1>2, OnlyHolds
<1> HIDE DEF a, b, x, w
<1> HIDE DEF A, B
<1>6. Only(a \o w, S) = A \o Only(w, S)
  <2>2. a \in Seq(D) /\ w \in Seq(D)
    BY <1>2, <1>3
  <2>1. Only(a \o w, S) = Only(a, S) \o Only(w, S)
    BY ONLY <2>2, OnlyConcat, SMTT(30)
  <2> QED
    BY <2>1 DEF A
<1>7. Only(w \o b, S) = Only(w, S) \o B
  <2>2. w \in Seq(D) /\ b \in Seq(D)
    BY <1>2, <1>3
  <2>1. Only(w \o b, S) = Only(w, S) \o Only(b, S)
    BY ONLY <2>2, OnlyConcat, SMTT(30)
  <2> QED
    BY <2>1 DEF B
<1>8. A \o <<>> = A /\ <<>> \o B = B
  BY ONLY <1>5, ConcatEmptySeq
<1> QED
  BY <1>1, <1>3, <1>4, <1>6, <1>7, <1>8 DEF Fits, b, A, B

LEMMA FitsSkipTo ==
  ASSUME NEW D, NEW s \in Seq(D), NEW S, NEW t \in Seq(D), NEW p, NEW k, Fits(s, t, S, p, k),
         NEW q \in p .. Len(s) + 1, \A j \in p .. q - 1 : s[j] \notin S
  PROVE  Fits(s, t, S, q, k)
<1> DEFINE T == {j \in p .. q : ~Fits(s, t, S, j, k)}
<1> SUFFICES ASSUME T # {}
             PROVE  FALSE
  <2>1. q \in p .. q
    BY DEF Fits
  <2> QED
    BY <2>1
<1>1. p \in 1 .. Len(s) + 1 /\ Len(s) \in Nat
  BY LenProperties DEF Fits
<1>2. T \subseteq Nat
  BY <1>1
<1>3. PICK j \in T : \A i \in T : j <= i
  BY <1>2, LeastNatural
<1>4. j \in p .. q /\ ~Fits(s, t, S, j, k)
  BY <1>3
<1>5. j # p
  BY <1>4
<1>6. j - 1 \in p .. q - 1 /\ j - 1 \in p .. q /\ j - 1 \in 1 .. Len(s) /\ (j - 1) + 1 = j
  BY <1>1, <1>4, <1>5
<1>7. j - 1 \notin T
  BY <1>3, <1>4, <1>6
<1>8. Fits(s, t, S, j - 1, k)
  BY <1>6, <1>7
<1> DEFINE i == j - 1
<1>9. i \in 1 .. Len(s) /\ s[i] \notin S /\ Fits(s, t, S, i, k) /\ i + 1 = j
  BY <1>6, <1>8
<1> HIDE DEF i, T
<1>10. Fits(s, t, S, i + 1, k)
  BY <1>9, FitsSkip
<1> QED
  BY <1>4, <1>9, <1>10

\* The run of hidden cohorts that is unpacked, and the visible one before it.
LeftOf(i) == {k \in 1 .. i - 1 : ~Flagged(all_cohorts[k])}
Stops(i) == {k \in i .. Len(all_cohorts) : ~Flagged(all_cohorts[k])}
RunEnd(i) == IF Stops(i) = {} THEN Len(all_cohorts) ELSE Min(Stops(i)) - 1
Run(i, ra) == {all_cohorts[k] : k \in i .. ra}

Hidden(la, i, ra) ==
  /\ i \in 1 .. Len(all_cohorts) /\ la \in 1 .. i - 1 /\ ra \in i .. Len(all_cohorts)
  /\ all_cohorts[la] \in Shown(co)
  /\ \A k \in la + 1 .. ra : all_cohorts[k] \notin Shown(co)

LEMMA ElementHolds ==
  ASSUME CohortInv, NEW k \in 1 .. Len(all_cohorts)
  PROVE  /\ all_cohorts[k] \in DOMAIN co
         /\ Flagged(all_cohorts[k]) <=> all_cohorts[k] \notin Shown(co)
<1>1. all_cohorts[k] \in DOMAIN co
  BY VisibleHolds DEF ToSet
<1> QED
  BY <1>1 DEF Flagged, Shown

\* The nearest visible cohort on the left of a place.
LEMMA LeftHolds ==
  ASSUME CohortInv, NEW i \in 1 .. Len(all_cohorts), i # 1
  PROVE  /\ LeftOf(i) # {} /\ Max(LeftOf(i)) \in 1 .. i - 1
         /\ all_cohorts[Max(LeftOf(i))] \in Shown(co)
         /\ \A k \in Max(LeftOf(i)) + 1 .. i - 1 : all_cohorts[k] \notin Shown(co)
<1> DEFINE la == Max(LeftOf(i))
<1>1. Len(all_cohorts) \in Nat /\ all_cohorts[1] = begin /\ begin \in Shown(co)
      /\ 1 \in 1 .. Len(all_cohorts)
  BY VisibleHolds
<1>2. 1 \in LeftOf(i)
  <2>1. ~Flagged(all_cohorts[1])
    BY <1>1, ElementHolds
  <2> QED
    BY <1>1, <2>1 DEF LeftOf
<1>3. LeftOf(i) \subseteq 0 .. Len(all_cohorts)
  BY <1>1 DEF LeftOf
<1>4. la \in LeftOf(i) /\ \A k \in LeftOf(i) : la >= k
  BY <1>1, <1>2, <1>3, MaxMinHold
<1> HIDE DEF la
<1>5. la \in 1 .. i - 1 /\ ~Flagged(all_cohorts[la])
  BY <1>4 DEF LeftOf
<1>6. la \in 1 .. Len(all_cohorts)
  BY <1>1, <1>5
<1>7. ASSUME NEW k \in la + 1 .. i - 1
      PROVE  all_cohorts[k] \notin Shown(co)
  <2>1. k \in 1 .. i - 1 /\ ~ (la >= k)
    BY <1>5
  <2>2. Flagged(all_cohorts[k])
    BY <1>4, <2>1 DEF LeftOf
  <2>3. k \in 1 .. Len(all_cohorts)
    BY <1>1, <2>1
  <2> QED
    BY <2>2, <2>3, ElementHolds
<1> QED
  BY <1>2, <1>5, <1>6, <1>7, ElementHolds DEF la

LEMMA HiddenRun ==
  ASSUME CohortInv, NEW i \in 1 .. Len(all_cohorts), i # 1,
         all_cohorts[i] \notin Shown(co)
  PROVE  Hidden(Max(LeftOf(i)), i, RunEnd(i))
<1> DEFINE la == Max(LeftOf(i))
           ra == RunEnd(i)
           n == Len(all_cohorts)
<1>1. n \in Nat
  BY VisibleHolds
<1>2. /\ la \in 1 .. i - 1 /\ all_cohorts[la] \in Shown(co)
      /\ \A k \in la + 1 .. i - 1 : all_cohorts[k] \notin Shown(co)
  BY LeftHolds
<1>3. i \notin Stops(i)
  BY ElementHolds DEF Stops
<1>4. ra \in i .. n /\ \A k \in i .. ra : k \in i .. n /\ k \notin Stops(i)
  <2>1. CASE Stops(i) = {}
    BY <1>1, <2>1 DEF RunEnd
  <2>2. CASE Stops(i) # {}
    <3> DEFINE m == Min(Stops(i))
    <3>1. Stops(i) \subseteq 0 .. n
      BY <1>1 DEF Stops
    <3>2. m \in Stops(i) /\ \A k \in Stops(i) : m <= k
      BY <1>1, <2>2, <3>1, MaxMinHold
    <3>3. m \in i .. n /\ m # i
      BY <1>3, <3>2 DEF Stops
    <3>4. ra = m - 1
      BY <2>2 DEF RunEnd
    <3> HIDE DEF m, ra
    <3>5. ra \in i .. n /\ \A k \in i .. ra : k \in i .. n /\ ~ (m <= k)
      BY <1>1, <3>3, <3>4
    <3> QED
      BY <3>2, <3>5
  <2> QED
    BY <2>1, <2>2
<1> HIDE DEF la, ra, n
<1>5. \A k \in i .. ra : all_cohorts[k] \notin Shown(co)
  <2> SUFFICES ASSUME NEW k \in i .. ra
               PROVE  all_cohorts[k] \notin Shown(co)
    OBVIOUS
  <2>1. k \in i .. n /\ Flagged(all_cohorts[k])
    BY <1>4 DEF Stops, n
  <2>2. k \in 1 .. Len(all_cohorts)
    BY <1>1, <2>1 DEF n
  <2> QED
    BY <2>1, <2>2, ElementHolds
<1>6. \A k \in la + 1 .. ra : k \in la + 1 .. i - 1 \/ k \in i .. ra
  BY <1>1, <1>2, <1>4
<1> QED
  BY <1>2, <1>4, <1>5, <1>6 DEF Hidden, la, ra, n

\* What is hidden after a visible cohort has the same place in the list.
LEMMA FitsAfter ==
  ASSUME CohortInv, NEW la \in 1 .. Len(all_cohorts), all_cohorts[la] \in Shown(co),
         NEW q \in la + 1 .. Len(all_cohorts) + 1,
         \A j \in la + 1 .. q - 1 : all_cohorts[j] \notin Shown(co)
  PROVE  Fits(all_cohorts, cohorts, Shown(co), q, Local(all_cohorts[la]) + 1)
<1> DEFINE V == Shown(co)
           c == all_cohorts[la]
           k == Local(c) + 1
           p == la + 1
<1>1. /\ all_cohorts \in Seq(Nat) /\ IsInjective(all_cohorts)
      /\ DOMAIN all_cohorts = 1 .. Len(all_cohorts) /\ cohorts \in Seq(Nat)
      /\ V \subseteq ToSet(all_cohorts)
  BY VisibleHolds
<1>2. PlaceIn(all_cohorts, c) = la
  <2>1. c \in ToSet(all_cohorts)
    BY <1>1
  <2>2. PlaceIn(all_cohorts, c) \in 1 .. Len(all_cohorts) /\ all_cohorts[PlaceIn(all_cohorts, c)] = c
    BY <1>1, <2>1, PlaceInHolds
  <2> QED
    BY <1>1, <2>2 DEF IsInjective
<1>3. Fits(all_cohorts, cohorts, V, p, k)
  <2> HIDE DEF c
  <2> QED
    BY <1>2, AnchorHolds DEF c
<1>4. q \in p .. Len(all_cohorts) + 1 /\ \A j \in p .. q - 1 : all_cohorts[j] \notin V
  OBVIOUS
<1> HIDE DEF V, k, p
<1>5. Fits(all_cohorts, cohorts, V, q, k)
  BY <1>1, <1>3, <1>4, FitsSkipTo
<1> QED
  BY <1>5 DEF V, k, c

\* Some of a hidden run becomes visible, after the visible cohort before it.
LEMMA ShownIn ==
  ASSUME CohortInv, NEW i, NEW la, NEW ra, Hidden(la, i, ra), NEW Z
  PROVE  LET V == Shown(co)
             k == Local(all_cohorts[la]) + 1
             b == Only(SubSeq(all_cohorts, i, ra), Z)
         IN  /\ Only(all_cohorts, V \cup (Z \cap Run(i, ra))) = Inserted(cohorts, k, b)
             /\ b \in Seq(Nat) /\ k \in 1 .. Len(cohorts) + 1
<1> DEFINE V == Shown(co)
           c == all_cohorts[la]
           k == Local(c) + 1
           w == SubSeq(all_cohorts, i, ra)
           A == Before(all_cohorts, i)
           C == From(all_cohorts, ra + 1)
           W == V \cup (Z \cap Run(i, ra))
           b == Only(w, Z)
<1>1. /\ all_cohorts \in Seq(Nat) /\ IsInjective(all_cohorts) /\ Len(all_cohorts) \in Nat
      /\ DOMAIN all_cohorts = 1 .. Len(all_cohorts) /\ cohorts \in Seq(Nat)
      /\ V \subseteq ToSet(all_cohorts)
  BY VisibleHolds
<1>2. /\ i \in 1 .. Len(all_cohorts) /\ la \in 1 .. i - 1 /\ ra \in i .. Len(all_cohorts)
      /\ c \in V /\ \A j \in la + 1 .. ra : all_cohorts[j] \notin V
  BY DEF Hidden
<1>3. la + 1 \in 1 .. i /\ i \in la + 1 .. Len(all_cohorts) + 1
      /\ ra + 1 \in i .. Len(all_cohorts) + 1 /\ ra + 1 \in la + 1 .. Len(all_cohorts) + 1
      /\ la \in 1 .. Len(all_cohorts) /\ i \in 1 .. Len(all_cohorts) + 1
      /\ ra + 1 \in 1 .. Len(all_cohorts) + 1
  BY <1>1, <1>2
<1>6. Fits(all_cohorts, cohorts, V, i, k) /\ Fits(all_cohorts, cohorts, V, ra + 1, k)
  <2> DEFINE q == ra + 1
  <2>1. /\ \A j \in la + 1 .. i - 1 : all_cohorts[j] \notin V
        /\ q \in la + 1 .. Len(all_cohorts) + 1 /\ \A j \in la + 1 .. q - 1 : all_cohorts[j] \notin V
    BY <1>2, <1>3
  <2> HIDE DEF q
  <2>2. Fits(all_cohorts, cohorts, V, i, k) /\ Fits(all_cohorts, cohorts, V, q, k)
    BY <1>2, <1>3, <2>1, FitsAfter
  <2> QED
    BY <2>2 DEF q
<1> HIDE DEF V, c, k
<1>7. /\ k \in 1 .. Len(cohorts) + 1
      /\ Only(A, V) = Before(cohorts, k) /\ Only(C, V) = From(cohorts, k)
  BY <1>6 DEF Fits
<1>8. /\ A \in Seq(Nat) /\ C \in Seq(Nat) /\ all_cohorts = A \o From(all_cohorts, i)
  <2>1. all_cohorts \in Seq(Nat) /\ i \in 1 .. Len(all_cohorts) + 1 /\ ra + 1 \in 1 .. Len(all_cohorts) + 1
    BY <1>1, <1>3
  <2> QED
    BY ONLY <2>1, CutHolds
<1>9. From(all_cohorts, i) = w \o C
  <2>1. ra \in i - 1 .. Len(all_cohorts) /\ Len(all_cohorts) \in ra .. Len(all_cohorts)
    BY <1>1, <1>2
  <2>2. all_cohorts \in Seq(Nat) /\ i \in 1 .. Len(all_cohorts) + 1
    BY <1>1, <1>3
  <2> QED
    BY ONLY <2>1, <2>2, ConcatAdjacentSubSeq DEF From
<1>10. w \in Seq(Nat) /\ ToSet(w) = Run(i, ra)
  <2>1. i \in Int /\ ra \in Int /\ \A j \in i .. ra : j \in 1 .. Len(all_cohorts) /\ all_cohorts[j] \in Nat
    BY <1>1, <1>2
  <2>2. /\ w \in Seq(Nat) /\ Len(w) = ra - i + 1
        /\ \A j \in 1 .. ra - i + 1 : w[j] = all_cohorts[i + j - 1]
    BY <1>2, <2>1, SubSeqProperties
  <2> HIDE DEF w
  <2>3. DOMAIN w = 1 .. ra - i + 1
    BY <2>2, LenProperties
  <2>4. \A x \in ToSet(w) : x \in Run(i, ra)
    <3> SUFFICES ASSUME NEW j \in 1 .. ra - i + 1
                 PROVE  w[j] \in Run(i, ra)
      BY <2>3 DEF ToSet
    <3>1. i + j - 1 \in i .. ra
      BY <2>1
    <3> QED
      BY <2>2, <3>1 DEF Run
  <2>5. \A x \in Run(i, ra) : x \in ToSet(w)
    <3> SUFFICES ASSUME NEW j \in i .. ra
                 PROVE  all_cohorts[j] \in ToSet(w)
      BY DEF Run
    <3>1. j - i + 1 \in 1 .. ra - i + 1 /\ i + (j - i + 1) - 1 = j
      BY <2>1
    <3>2. w[j - i + 1] = all_cohorts[j]
      BY <2>2, <3>1
    <3> QED
      BY <2>3, <3>1, <3>2 DEF ToSet
  <2> QED
    BY <2>2, <2>4, <2>5
<1>11. ToSet(w) \cap V = {}
  <2>1. \A j \in i .. ra : j \in la + 1 .. ra
    BY <1>1, <1>2
  <2> QED
    BY <1>2, <1>10, <2>1 DEF Run
<1> HIDE DEF w, A, C
<1> DEFINE wC == w \o C
<1>12. wC \in Seq(Nat) /\ all_cohorts = A \o wC
  <2>1. w \in Seq(Nat) /\ C \in Seq(Nat)
    BY <1>8, <1>10
  <2>2. w \o C \in Seq(Nat)
    BY ONLY <2>1, ConcatProperties
  <2> QED
    BY <1>8, <1>9, <2>2
<1>13. ToSet(A) \cap ToSet(w) = {} /\ ToSet(C) \cap ToSet(w) = {}
  <2>1. ToSet(wC) = ToSet(w) \cup ToSet(C)
    BY <1>8, <1>10, ConcatHolds
  <2>2. IsInjective(wC) => ToSet(w) \cap ToSet(C) = {}
    BY <1>8, <1>10, ConcatHolds
  <2> HIDE DEF wC
  <2>3. IsInjective(wC) /\ ToSet(A) \cap ToSet(wC) = {}
    BY <1>1, <1>8, <1>12, ConcatHolds
  <2> QED
    BY <2>1, <2>2, <2>3
<1>14. /\ ToSet(A) \cap W = ToSet(A) \cap V /\ ToSet(C) \cap W = ToSet(C) \cap V
       /\ ToSet(w) \cap W = ToSet(w) \cap Z
  BY <1>10, <1>11, <1>13
<1> HIDE DEF W
<1>15. Only(A, W) = Only(A, V) /\ Only(C, W) = Only(C, V) /\ Only(w, W) = Only(w, Z)
  BY <1>8, <1>10, <1>14, OnlyAgree
<1>16. Only(w \o C, W) = Only(w, W) \o Only(C, W)
  <2>1. w \in Seq(Nat) /\ C \in Seq(Nat)
    BY <1>8, <1>10
  <2> QED
    BY ONLY <2>1, OnlyConcat
<1>17. Only(A \o wC, W) = Only(A, W) \o Only(wC, W)
  <2>1. A \in Seq(Nat) /\ wC \in Seq(Nat)
    BY <1>8, <1>12
  <2> HIDE DEF wC
  <2> QED
    BY ONLY <2>1, OnlyConcat
<1>18. b \in Seq(Nat)
  BY <1>10, OnlyHolds
<1> DEFINE u == Before(cohorts, k)
           v == From(cohorts, k)
<1>19. u \in Seq(Nat) /\ v \in Seq(Nat)
  BY <1>1, <1>7, CutHolds
<1>20. Only(all_cohorts, W) = u \o (b \o v)
  BY <1>7, <1>12, <1>15, <1>16, <1>17
<1>21. Inserted(cohorts, k, b) = (u \o b) \o v
  BY DEF Inserted, Before, From
<1> HIDE DEF u, v, b, wC
<1>22. (u \o b) \o v = u \o (b \o v)
  BY ONLY <1>18, <1>19, ConcatAssociative, SMTT(30)
<1> QED
  BY <1>7, <1>18, <1>20, <1>21, <1>22 DEF V, W, k, c, b, w

\* A list that is put into another leaves what is before it where it is.
LEMMA PrefixHolds ==
  ASSUME NEW D, NEW s \in Seq(D), NEW b \in Seq(D), NEW k \in 1 .. Len(s) + 1
  PROVE  \A i \in 1 .. Len(Inserted(s, k, b)) :
           i < k => Inserted(s, k, b)[i] = s[i] /\ i \in 1 .. Len(s)
<1> DEFINE u == Before(s, k)
           v == From(s, k)
           w == b \o v
<1>1. s \in Seq(D) /\ k \in 1 .. Len(s) + 1
  OBVIOUS
<1>2. u \in Seq(D) /\ v \in Seq(D) /\ s = u \o v /\ Len(u) = k - 1
  BY ONLY <1>1, CutHolds
<1>3. Inserted(s, k, b) = (u \o b) \o v
  BY DEF Inserted, Before, From
<1> HIDE DEF u, v
<1>4. w \in Seq(D) /\ (u \o b) \o v = u \o w
  <2>1. u \in Seq(D) /\ b \in Seq(D) /\ v \in Seq(D)
    BY <1>2
  <2> QED
    BY ONLY <2>1, ConcatProperties, ConcatAssociative, SMTT(30)
<1> HIDE DEF w
<1>5. /\ Len(u) \in Nat /\ Len(v) \in Nat /\ Len(w) \in Nat
      /\ Len(u \o v) = Len(u) + Len(v) /\ Len(u \o w) = Len(u) + Len(w)
      /\ \A i \in 1 .. Len(u) + Len(w) : (u \o w)[i] = IF i <= Len(u) THEN u[i] ELSE w[i - Len(u)]
      /\ \A i \in 1 .. Len(u) + Len(v) : (u \o v)[i] = IF i <= Len(u) THEN u[i] ELSE v[i - Len(u)]
  BY <1>2, <1>4, ConcatProperties, LenProperties
<1>6. ASSUME NEW i \in 1 .. Len(u \o w), i < k
      PROVE  (u \o w)[i] = (u \o v)[i] /\ i \in 1 .. Len(u \o v)
  <2>1. i \in 1 .. Len(u) + Len(w) /\ i \in 1 .. Len(u) + Len(v) /\ i <= Len(u)
    BY <1>2, <1>5, <1>6
  <2> QED
    BY <1>5, <2>1
<1> QED
  BY <1>2, <1>3, <1>4, <1>6

\* Where an unpacking step is, and how deep what it passes can be.
LEMMA OutermostHolds ==
  ASSUME CohortInv, KeptLow, pc = "unpack", Outermost # {}
  PROVE  LET i == Min(Outermost) IN
         /\ i \in 1 .. Len(all_cohorts) /\ sweep <= i /\ i # 1
         /\ all_cohorts[i] \notin Shown(co)
         /\ \A j \in i .. Len(all_cohorts) :
              co[all_cohorts[j]].enclosed = 1 => co[all_cohorts[j]].type \notin Out
<1> DEFINE i == Min(Outermost)
           n == Len(all_cohorts)
<1>1. /\ sweep \in Nat \ {0} /\ pass \in 1 .. MaxPass /\ did_final_enclosure \in BOOLEAN
  BY DEF CohortInv, Controlled
<1>2. /\ n \in Nat /\ all_cohorts[1] = begin /\ begin \in Shown(co) /\ Shown(co) \subseteq DOMAIN co
  BY VisibleHolds DEF Shown
<1>3. Outermost \subseteq 0 .. n
  BY <1>1, <1>2 DEF Outermost
<1>4. i \in Outermost
  BY <1>2, <1>3, MaxMinHold
<1> HIDE DEF i
<1>5. i \in sweep .. n /\ co[all_cohorts[i]].enclosed = 1
  BY <1>4 DEF Outermost, n
<1>6. i \in 1 .. n /\ sweep <= i
  BY <1>1, <1>2, <1>5
<1>7. all_cohorts[i] \notin Shown(co)
  <2>1. all_cohorts[i] \in DOMAIN co
    BY <1>6, ElementHolds DEF n
  <2>2. co[all_cohorts[i]].type # {}
    BY <1>5, <2>1 DEF CohortInv, DepthsHide
  <2> QED
    BY <2>2 DEF Shown
<1>8. i # 1
  BY <1>2, <1>7
<1>9. ASSUME NEW j \in i .. n, co[all_cohorts[j]].enclosed = 1,
             co[all_cohorts[j]].type \in Out
      PROVE  FALSE
  <2>1. j \in 1 .. n /\ ~ (j < sweep)
    BY <1>1, <1>2, <1>6
  <2>2. Lowered(j) = (2 * pass - 2) + (IF did_final_enclosure THEN 1 ELSE 0) + 0
    BY <2>1 DEF Lowered
  <2>3. Deep(co, all_cohorts[j], Lowered(j))
    BY <2>1 DEF CohortInv, DepthsLow, n
  <2>4. 1 >= EnclosedModulus - Lowered(j)
    BY <1>9, <2>3 DEF Deep
  <2>5. Lowered(j) \in Int /\ Lowered(j) <= 2 * pass - 1
    BY <1>1, <2>2
  <2> HIDE DEF Lowered
  <2>6. EnclosedModulus > 2 * MaxPass /\ EnclosedModulus \in Nat /\ MaxPass \in Nat
    BY ModulusHolds DEF KeptLow
  <2> QED
    BY <1>1, <2>4, <2>5, <2>6
<1> QED
  BY <1>6, <1>7, <1>8, <1>9 DEF i, n

LEMMA ShowEnclosureHolds ==
  ASSUME CohortInv, KeptLow, ShowEnclosure, grammar' = grammar
  PROVE  CohortInv'
<1> DEFINE i == Min(Outermost)
           la == Max(LeftOf(i))
           ra == RunEnd(i)
           run == Run(i, ra)
           Z == {c \in DOMAIN co : Level(c) = 0}
           shown == Only(SubSeq(all_cohorts, i, ra), Z)
           g == Shallower(run)
           V == Shown(co)
           k == Local(all_cohorts[la]) + 1
           cs == Inserted(cohorts, k, shown)
           W == V \cup (Z \cap run)
<1>1. /\ pc = "unpack" /\ Outermost # {}
      /\ all_cohorts' = all_cohorts /\ begin' = begin /\ pass' = pass
      /\ did_final_enclosure' = did_final_enclosure
  BY DEF ShowEnclosure
<1>2. /\ pc' = (IF tracerule THEN "unpack" ELSE "pass")
      /\ sweep' = (IF tracerule THEN ra + 1 ELSE sweep)
      /\ cohorts' = Inserted(cohorts, co[all_cohorts[la]].local_number + 2, shown)
      /\ co' = Renumbered(g, cohorts', co[all_cohorts[la]].local_number + 2)
  <2>1. LeftOf(i) # {}
    BY <1>1, OutermostHolds, LeftHolds
  <2> QED
    BY <2>1 DEF ShowEnclosure, Again, RunEnd, Stops, LeftOf, Run
<1>3. /\ i \in 1 .. Len(all_cohorts) /\ sweep <= i /\ i # 1
      /\ all_cohorts[i] \notin V
      /\ \A j \in i .. Len(all_cohorts) :
           co[all_cohorts[j]].enclosed = 1 => co[all_cohorts[j]].type \notin Out
  BY <1>1, OutermostHolds
<1> HIDE DEF i
<1>4. Hidden(la, i, ra)
  BY <1>3, HiddenRun
<1> HIDE DEF la, ra
<1>5. /\ la \in 1 .. i - 1 /\ ra \in i .. Len(all_cohorts) /\ all_cohorts[la] \in V
      /\ \A j \in la + 1 .. ra : all_cohorts[j] \notin V
  BY <1>4 DEF Hidden
<1>6. /\ Len(all_cohorts) \in Nat /\ DOMAIN co = ToSet(all_cohorts)
      /\ all_cohorts \in Seq(Nat) /\ IsInjective(all_cohorts) /\ all_cohorts[1] = begin
      /\ DOMAIN all_cohorts = 1 .. Len(all_cohorts) /\ begin \in V /\ V \subseteq DOMAIN co
      /\ cohorts \in Seq(Nat) /\ Len(cohorts) \in Nat /\ co \in [DOMAIN co -> Record]
      /\ ToSet(cohorts) = V /\ DOMAIN cohorts = 1 .. Len(cohorts)
  BY VisibleHolds DEF Shown
<1>7. \A c \in run : c \in DOMAIN co /\ c \notin V /\ co[c].type # {}
                     /\ (co[c].enclosed = 1 => co[c].type \notin Out)
  <2> SUFFICES ASSUME NEW j \in i .. ra
               PROVE  LET c == all_cohorts[j]
                      IN  /\ c \in DOMAIN co /\ c \notin V /\ co[c].type # {}
                          /\ (co[c].enclosed = 1 => co[c].type \notin Out)
    BY DEF Run
  <2>1. j \in la + 1 .. ra /\ j \in i .. Len(all_cohorts) /\ j \in 1 .. Len(all_cohorts)
    BY <1>3, <1>5, <1>6
  <2>2. all_cohorts[j] \in DOMAIN co
    BY <2>1, ElementHolds
  <2> QED
    BY <1>3, <1>5, <2>1, <2>2 DEF Shown
<1>8. Raised(g, run)
  <2>1. \A c \in run \cap DOMAIN co :
           co[c].type # {} /\ (co[c].enclosed = 1 => co[c].type \notin Out)
    BY <1>7
  <2> HIDE DEF run, g
  <2> QED
    BY <2>1, ShallowerHolds DEF g
<1>9. co[all_cohorts[la]].local_number + 2 = k
  <2>1. Local(all_cohorts[la]) \in 1 .. Len(cohorts)
    BY <1>5, LocalHolds
  <2>2. all_cohorts[la] \in ToSet(cohorts)
    BY <1>5, <1>6
  <2>3. co[all_cohorts[la]] \in Record
    BY <1>5, <1>6
  <2>4. co[all_cohorts[la]].local_number \in Nat
    BY <2>3 DEF Record
  <2> QED
    BY <2>4 DEF Local
<1>10. /\ Only(all_cohorts, W) = cs
       /\ shown \in Seq(Nat) /\ k \in 1 .. Len(cohorts) + 1
  <2> HIDE DEF Z
  <2> QED
    BY <1>4, ShownIn
<1> HIDE DEF k, shown
<1>11. cohorts' = cs /\ co' = Renumbered(g, cs, k)
  BY <1>2, <1>9
<1> HIDE DEF g, run
<1>12. DOMAIN g = DOMAIN co /\ g \in [DOMAIN co -> Record]
       /\ \A c \in DOMAIN co :
            /\ g[c].type = IF c \in run /\ co[c].enclosed = 1 THEN {} ELSE co[c].type
            /\ g[c].enclosed = IF c \in run THEN Level(c) ELSE co[c].enclosed
            /\ g[c].local_number = co[c].local_number /\ g[c].mark = co[c].mark
  BY <1>8 DEF Raised
<1>13. Shown(g) = W
  <2>1. \A c \in DOMAIN co : Level(c) = 0 <=> co[c].enclosed = 1
    BY LevelHolds
  <2> HIDE DEF Level
  <2>2. ASSUME NEW c \in DOMAIN co
        PROVE  c \in W <=> g[c].type = {}
    <3>1. c \in V <=> co[c].type = {}
      BY DEF Shown
    <3>2. c \in Z <=> co[c].enclosed = 1
      BY <2>1
    <3> HIDE DEF V, Z
    <3>3. g[c].type = IF c \in run /\ co[c].enclosed = 1 THEN {} ELSE co[c].type
      BY <1>12
    <3> QED
      BY <3>1, <3>2, <3>3
  <2>3. W \subseteq DOMAIN co
    BY <1>6
  <2> QED
    BY <1>12, <2>2, <2>3 DEF Shown
<1> HIDE DEF W, Z, V
<1>14. Listing(all_cohorts, cs, g, begin)
  <2>1. all_cohorts # <<>>
    BY DEF CohortInv, Listing
  <2>2. begin \notin run /\ begin \in DOMAIN co /\ co[begin].type = {}
    BY <1>6, <1>7 DEF V, Shown
  <2>3. g[begin].type = {}
    BY <1>12, <2>2
  <2> HIDE DEF cs
  <2> QED
    BY <1>6, <1>10, <1>12, <1>13, <2>1, <2>3 DEF Listing
<1>15. \A j \in 1 .. Len(cs) : j < k => g[cs[j]].local_number = j - 1
  <2>1. \A j \in 1 .. Len(cs) : j < k => cs[j] = cohorts[j] /\ j \in 1 .. Len(cohorts)
    BY <1>6, <1>10, PrefixHolds
  <2>2. \A j \in 1 .. Len(cohorts) : co[cohorts[j]].local_number = j - 1 /\ cohorts[j] \in DOMAIN co
    BY <1>6 DEF CohortInv, Numbered, ToSet
  <2> HIDE DEF cs
  <2> QED
    BY <1>12, <2>1, <2>2
<1>16. Relisted(all_cohorts, cs, g, co', begin)
  <2>1. k \in Nat \ {0}
    BY <1>6, <1>10
  <2> HIDE DEF cs
  <2> QED
    BY <1>11, <1>14, <1>15, <2>1, RelistedFrom
<1>17. Listing(all_cohorts', cohorts', co', begin') /\ Numbered(cohorts', co')
  BY <1>1, <1>11, <1>16 DEF Relisted
<1>18. /\ DOMAIN co' = DOMAIN co
       /\ \A c \in DOMAIN co :
            /\ co'[c].type = IF c \in run /\ co[c].enclosed = 1 THEN {} ELSE co[c].type
            /\ co'[c].enclosed = IF c \in run THEN Level(c) ELSE co[c].enclosed
  BY <1>12, <1>16 DEF Relisted
<1>19. DepthsHide'
  <2> SUFFICES ASSUME NEW c \in DOMAIN co, co'[c].enclosed # 0
               PROVE  co'[c].type # {}
    BY <1>18 DEF DepthsHide
  <2>1. co[c].enclosed # 0 => co[c].type # {}
    BY <1>1 DEF CohortInv, DepthsHide
  <2>2. Level(c) = 0 <=> co[c].enclosed = 1
    BY LevelHolds
  <2> QED
    BY <1>7, <1>18, <2>1, <2>2
<1>20. Flat' /\ Whole'
  <2>2. ~DoesBoth(grammar.rules)
    <3>1. PICK j \in sweep .. Len(all_cohorts) : co[all_cohorts[j]].enclosed = 1
      BY <1>1 DEF Outermost
    <3>2. j \in 1 .. Len(all_cohorts)
      BY <1>6, <3>1 DEF CohortInv, Controlled
    <3>3. all_cohorts[j] \in DOMAIN co
      BY <3>2, ElementHolds
    <3> QED
      BY <3>1, <3>3 DEF CohortInv, Flat
  <2> SUFFICES ASSUME "DELIMIT" \in grammar.rules, NEW c \in DOMAIN co
               PROVE  co'[c].type \notin Out
    BY <1>2, <1>18, <2>2 DEF Flat, Whole
  <2>1. co[c].type \notin Out /\ {} \notin Out
    BY <2>2 DEF CohortInv, Whole, Out
  <2> QED
    BY <1>18, <2>1
<1>21. DepthsLow'
  <2> SUFFICES ASSUME NEW j \in 1 .. Len(all_cohorts)
               PROVE  Deep(co', all_cohorts[j], Lowered(j)')
    BY <1>1 DEF DepthsLow
  <2> DEFINE c == all_cohorts[j]
             d == IF did_final_enclosure THEN 1 ELSE 0
             o == IF j < sweep THEN 1 ELSE 0
             e == co[c].enclosed
             m == Lowered(j)'
  <2>1. c \in DOMAIN co
    BY ElementHolds
  <2>2. Deep(co, c, Lowered(j))
    BY <1>1 DEF CohortInv, DepthsLow
  <2>3. pass \in Nat /\ pass >= 1 /\ sweep \in Nat /\ d \in 0 .. 1 /\ o \in 0 .. 1
    BY <1>1 DEF CohortInv, Controlled
  <2>4. Lowered(j) = (2 * pass - 2) + d + o
    BY <1>1 DEF Lowered
  <2>5. /\ Lowered(j) \in Int /\ m \in Int /\ Lowered(j) <= m
        /\ (j \in i .. ra => Lowered(j) + 1 <= m /\ m >= 1)
    <3>1. CASE tracerule
      <4>1. m = (2 * pass - 2) + d + (IF j < ra + 1 THEN 1 ELSE 0)
        BY <1>1, <1>2, <3>1 DEF Lowered
      <4>2. o <= (IF j < ra + 1 THEN 1 ELSE 0) /\ (j \in i .. ra => o = 0 /\ j < ra + 1)
        BY <1>3, <1>5, <1>6, <2>3, SMTT(30)
      <4> DEFINE low == Lowered(j)
                 B == j \in i .. ra
      <4>5. low = (2 * pass - 2) + d + o /\ pass \in Nat /\ pass >= 1 /\ d \in 0 .. 1 /\ o \in 0 .. 1
        BY <2>3, <2>4
      <4>3. CASE j < ra + 1
        <5>1. m = (2 * pass - 2) + d + 1 /\ (B => o = 0)
          BY <4>1, <4>2, <4>3
        <5> HIDE DEF m, d, o, low, B
        <5> QED
          BY <4>5, <5>1 DEF low, B
      <4>4. CASE ~ (j < ra + 1)
        <5>1. m = (2 * pass - 2) + d + 0 /\ o = 0 /\ ~B
          BY <2>3, <4>1, <4>2, <4>4
        <5> HIDE DEF m, d, o, low, B
        <5> QED
          BY <4>5, <5>1 DEF low, B
      <4> QED
        BY <4>3, <4>4
    <3>2. CASE ~tracerule
      <4>1. m = 2 * pass
        BY <1>1, <1>2, <3>2 DEF Lowered
      <4>2. j \in i .. ra => o = 0
        BY <1>3, <1>5, <1>6, <2>3
      <4> HIDE DEF m, d, o, Lowered
      <4> QED
        BY <2>3, <2>4, <4>1, <4>2
    <3> QED
      BY <3>1, <3>2
  <2>6. /\ e \in 0 .. EnclosedModulus - 1 /\ EnclosedModulus \in Nat
        /\ Level(c) = IF e = 0 THEN EnclosedModulus - 1 ELSE e - 1
    BY <2>1, LevelHolds, ModulusHolds
  <2>7. c \in run => j \in i .. ra
    <3>1. \A r \in i .. ra : r \in 1 .. Len(all_cohorts)
      BY <1>3, <1>5, <1>6
    <3>2. \A r \in 1 .. Len(all_cohorts) : all_cohorts[r] = c => r = j
      BY <1>6 DEF IsInjective
    <3> QED
      BY <3>1, <3>2 DEF Run, run
  <2>8. /\ co'[c].type = IF c \in run /\ e = 1 THEN {} ELSE co[c].type
        /\ co'[c].enclosed = IF c \in run THEN Level(c) ELSE e
    BY <1>18, <2>1
  <2> DEFINE low == Lowered(j)
             x == co'[c].enclosed
  <2>9. co[c].type \in Out => e = 0 \/ e >= EnclosedModulus - low
    BY <2>2 DEF Deep
  <2>10. ASSUME co'[c].type \in Out
         PROVE  co'[c].enclosed = 0 \/ co'[c].enclosed >= EnclosedModulus - m
    <3>1. ~ (c \in run /\ e = 1) /\ co[c].type \in Out
      <4>1. {} \notin Out
        BY DEF Out
      <4> QED
        BY <2>8, <2>10, <4>1
    <3>2. e = 0 \/ e >= EnclosedModulus - low
      BY <2>9, <3>1
    <3>3. low \in Int /\ m \in Int /\ low <= m /\ (c \in run => low + 1 <= m /\ m >= 1)
      BY <2>5, <2>7
    <3>4. CASE c \in run
      <4>1. x = IF e = 0 THEN EnclosedModulus - 1 ELSE e - 1
        BY <2>6, <2>8, <3>4
      <4> HIDE DEF x, e, m, low
      <4>2. x = 0 \/ x >= EnclosedModulus - m
        BY <2>6, <3>2, <3>3, <3>4, <4>1
      <4> QED
        BY <4>2 DEF x
    <3>5. CASE c \notin run
      <4>1. x = e
        BY <2>8, <3>5
      <4> HIDE DEF x, e, m, low
      <4>2. x = 0 \/ x >= EnclosedModulus - m
        BY <2>6, <3>2, <3>3, <4>1
      <4> QED
        BY <4>2 DEF x
    <3> QED
      BY <3>4, <3>5
  <2> QED
    BY <2>10 DEF Deep
<1>22. Opened'
  BY <1>2 DEF Opened
<1>23. Controlled'
  <2>1. sweep' \in Nat \ {0}
    <3>1. sweep \in Nat \ {0}
      BY DEF CohortInv, Controlled
    <3>2. ra + 1 \in Nat \ {0}
      BY <1>3, <1>5, <1>6
    <3> QED
      BY <1>2, <3>1, <3>2
  <2> QED
    BY <1>1, <1>2, <2>1 DEF CohortInv, Controlled
<1> QED
  BY <1>17, <1>19, <1>20, <1>21, <1>22, <1>23 DEF CohortInv

-----------------------------------------------------------------------------
(* Ignored cohorts come back.                                                *)

\* One cohort, when T of those after it are back.
LEMMA PutBackOne ==
  ASSUME CohortInv, NEW i \in 1 .. Len(all_cohorts), i # 1,
         all_cohorts[i] \notin Shown(co),
         NEW T, T \subseteq {all_cohorts[j] : j \in i + 1 .. Len(all_cohorts)}
  PROVE  Only(all_cohorts, (Shown(co) \cup T) \cup {all_cohorts[i]})
           = Inserted(Only(all_cohorts, Shown(co) \cup T),
                      Local(all_cohorts[Max(LeftOf(i))]) + 1, <<all_cohorts[i]>>)
<1> DEFINE V == Shown(co)
           la == Max(LeftOf(i))
           k == Local(all_cohorts[la]) + 1
           x == all_cohorts[i]
           w == <<x>>
           S == V \cup T
           R == S \cup {x}
           A == Before(all_cohorts, i)
           C == From(all_cohorts, i + 1)
           u == Only(A, V)
           v == Only(C, S)
<1>1. /\ all_cohorts \in Seq(Nat) /\ IsInjective(all_cohorts) /\ Len(all_cohorts) \in Nat
      /\ DOMAIN all_cohorts = 1 .. Len(all_cohorts) /\ cohorts \in Seq(Nat)
  BY VisibleHolds
<1>2. /\ la \in 1 .. i - 1 /\ all_cohorts[la] \in V
      /\ \A j \in la + 1 .. i - 1 : all_cohorts[j] \notin V
  BY LeftHolds
<1> HIDE DEF la
<1>3. Fits(all_cohorts, cohorts, V, i, k)
  <2>1. la \in 1 .. Len(all_cohorts) /\ i \in la + 1 .. Len(all_cohorts) + 1
    BY <1>1, <1>2
  <2> QED
    BY <1>2, <2>1, FitsAfter
<1> HIDE DEF k
<1>4. k \in 1 .. Len(cohorts) + 1 /\ u = Before(cohorts, k)
  BY <1>3 DEF Fits
<1>5. Len(u) = k - 1
  BY <1>1, <1>4, CutHolds
<1>6. /\ A \in Seq(Nat) /\ C \in Seq(Nat) /\ x \in Nat /\ all_cohorts = A \o (w \o C)
  <2>1. all_cohorts \in Seq(Nat) /\ i \in 1 .. Len(all_cohorts)
    BY <1>1
  <2>2. i \in 1 .. Len(all_cohorts) + 1 /\ i + 1 \in 1 .. Len(all_cohorts) + 1
        /\ x \in Nat /\ From(all_cohorts, i) = w \o C
    BY ONLY <2>1, CutNext
  <2>3. A \in Seq(Nat) /\ C \in Seq(Nat) /\ all_cohorts = A \o From(all_cohorts, i)
    BY ONLY <2>1, <2>2, CutHolds
  <2> QED
    BY <2>2, <2>3
<1>7. ToSet(C) = {all_cohorts[j] : j \in i + 1 .. Len(all_cohorts)}
  <2> DEFINE q == i + 1
  <2>1. all_cohorts \in Seq(Nat) /\ q \in 1 .. Len(all_cohorts) + 1
    BY <1>1
  <2> HIDE DEF q
  <2>2. ToSet(From(all_cohorts, q)) = {all_cohorts[j] : j \in q .. Len(all_cohorts)}
    BY ONLY <2>1, ElementsBefore
  <2> QED
    BY <2>2 DEF q
<1>8. w \in Seq(Nat) /\ ToSet(w) = {x} /\ \A Q : Only(w, Q) = IF x \in Q THEN w ELSE <<>>
  BY <1>6, SingleHolds
<1> HIDE DEF w, A, C, x
<1> DEFINE wC == w \o C
<1>9. wC \in Seq(Nat) /\ ToSet(wC) = {x} \cup ToSet(C)
      /\ (IsInjective(wC) => x \notin ToSet(C))
  BY <1>6, <1>8, ConcatHolds
<1> HIDE DEF wC
<1>10. all_cohorts = A \o wC
  BY <1>6 DEF wC
<1>11. IsInjective(wC) /\ ToSet(A) \cap ToSet(wC) = {}
  BY <1>1, <1>6, <1>9, <1>10, ConcatHolds
<1>12. T \subseteq ToSet(C)
  BY <1>7
<1>13. x \notin S /\ x \in R
  BY <1>9, <1>11, <1>12 DEF x
<1>14. /\ ToSet(A) \cap S = ToSet(A) \cap V /\ ToSet(A) \cap R = ToSet(A) \cap V
       /\ ToSet(C) \cap R = ToSet(C) \cap S
  BY <1>9, <1>11, <1>12
<1> HIDE DEF S, R, V
<1>15. Only(A, S) = u /\ Only(A, R) = u /\ Only(C, R) = v
  BY <1>6, <1>14, OnlyAgree
<1>16. Only(w, S) = <<>> /\ Only(w, R) = w
  BY <1>8, <1>13
<1>17. ASSUME NEW Q
       PROVE  Only(all_cohorts, Q) = Only(A, Q) \o (Only(w, Q) \o Only(C, Q))
  <2>1. w \in Seq(Nat) /\ C \in Seq(Nat)
    BY <1>6, <1>8
  <2>2. Only(w \o C, Q) = Only(w, Q) \o Only(C, Q)
    BY ONLY <2>1, OnlyConcat
  <2>3. A \in Seq(Nat) /\ wC \in Seq(Nat)
    BY <1>6, <1>9
  <2>4. Only(A \o wC, Q) = Only(A, Q) \o Only(wC, Q)
    BY ONLY <2>3, OnlyConcat
  <2> QED
    BY <1>10, <2>2, <2>4 DEF wC
<1>18. u \in Seq(Nat) /\ v \in Seq(Nat)
  BY <1>6, OnlyHolds
<1>19. Only(all_cohorts, R) = u \o (w \o v)
  BY <1>15, <1>16, <1>17
<1>20. Only(all_cohorts, S) = u \o (<<>> \o v)
  BY <1>15, <1>16, <1>17
<1> HIDE DEF u, v
<1>21. <<>> \o v = v
  BY ONLY <1>18, ConcatEmptySeq
<1> DEFINE t == u \o v
<1>22. k = Len(u) + 1 /\ Before(t, k) = u /\ From(t, k) = v
  <2>1. Before(u \o v, Len(u) + 1) = u /\ From(u \o v, Len(u) + 1) = v
    BY ONLY <1>18, CutConcat
  <2>2. k = Len(u) + 1
    BY <1>4, <1>5
  <2> QED
    BY <2>1, <2>2
<1>23. Inserted(t, k, w) = (Before(t, k) \o w) \o From(t, k)
  BY DEF Inserted, Before, From
<1>24. (u \o w) \o v = u \o (w \o v)
  <2>1. u \in Seq(Nat) /\ w \in Seq(Nat) /\ v \in Seq(Nat)
    BY <1>8, <1>18
  <2> QED
    BY ONLY <2>1, ConcatAssociative, SMTT(30)
<1>25. Only(all_cohorts, R) = Inserted(Only(all_cohorts, S), k, w)
  BY <1>19, <1>20, <1>21, <1>22, <1>23, <1>24
<1> QED
  BY <1>25 DEF R, S, V, k, la, w, x

\* How the code goes on from what it has put back behind position i.
PutStep(f, i) ==
  IF i = Len(all_cohorts) + 1 THEN cohorts
  ELSE IF i \in Restorable
  THEN Inserted(f[i + 1], Local(all_cohorts[Max(AnchorsOf(i))]) + 1, <<all_cohorts[i]>>)
  ELSE f[i + 1]

\* The ignored cohorts from position i on.
Back(i) == {all_cohorts[j] : j \in {m \in Restorable : m >= i}}

LEMMA RestorableHolds ==
  ASSUME CohortInv, NEW i \in Restorable
  PROVE  /\ i \in 1 .. Len(all_cohorts) /\ i # 1
         /\ all_cohorts[i] \in DOMAIN co /\ co[all_cohorts[i]].type = {"ignored"}
         /\ all_cohorts[i] \notin Shown(co)
<1>1. /\ DOMAIN all_cohorts = 1 .. Len(all_cohorts) /\ all_cohorts[1] = begin
      /\ begin \in Shown(co) /\ co \in [DOMAIN co -> Record]
  BY VisibleHolds
<1>2. i \in 1 .. Len(all_cohorts) /\ "ignored" \in co[all_cohorts[i]].type
  BY <1>1 DEF Restorable
<1>3. all_cohorts[i] \in DOMAIN co
  BY <1>2, ElementHolds
<1>4. co[all_cohorts[i]].type \in {{}, {"enclosed"}, {"removed"}, {"ignored"}}
  BY <1>1, <1>3 DEF Record, Out
<1>5. co[all_cohorts[i]].type = {"ignored"}
  BY <1>2, <1>4
<1>6. all_cohorts[i] \notin Shown(co)
  BY <1>5 DEF Shown
<1> QED
  BY <1>1, <1>2, <1>3, <1>5, <1>6

LEMMA PutStepHolds ==
  ASSUME CohortInv, NEW i \in 1 .. Len(all_cohorts) + 1, NEW f,
         i # Len(all_cohorts) + 1 => f[i + 1] = Only(all_cohorts, Shown(co) \cup Back(i + 1))
  PROVE  PutStep(f, i) = Only(all_cohorts, Shown(co) \cup Back(i))
<1>1. Len(all_cohorts) \in Nat /\ cohorts = Only(all_cohorts, Shown(co))
  BY VisibleHolds
<1>2. \A j \in Restorable : j \in 1 .. Len(all_cohorts)
  BY RestorableHolds
<1>3. CASE i = Len(all_cohorts) + 1
  <2>1. \A j \in Restorable : ~ (j >= i)
    BY <1>1, <1>2, <1>3
  <2>2. Shown(co) \cup Back(i) = Shown(co)
    BY <2>1 DEF Back
  <2> QED
    BY <1>1, <1>3, <2>2 DEF PutStep
<1>4. CASE i # Len(all_cohorts) + 1 /\ i \notin Restorable
  <2>1. \A j \in Restorable : j >= i <=> j >= i + 1
    BY <1>1, <1>2, <1>4
  <2>2. Back(i) = Back(i + 1)
    BY <2>1 DEF Back
  <2> QED
    BY <1>4, <2>2 DEF PutStep
<1>5. CASE i # Len(all_cohorts) + 1 /\ i \in Restorable
  <2> DEFINE T == Back(i + 1)
             x == all_cohorts[i]
             k == Local(all_cohorts[Max(LeftOf(i))]) + 1
  <2>1. i \in 1 .. Len(all_cohorts) /\ i # 1 /\ x \notin Shown(co)
    BY <1>5, RestorableHolds
  <2>2. T \subseteq {all_cohorts[j] : j \in i + 1 .. Len(all_cohorts)}
    <3>1. \A j \in Restorable : j >= i + 1 => j \in i + 1 .. Len(all_cohorts)
      BY <1>1, <1>2
    <3> QED
      BY <3>1 DEF Back
  <2>3. Back(i) = T \cup {x}
    <3>1. \A j \in Restorable : j >= i <=> j >= i + 1 \/ j = i
      BY <1>1, <1>2
    <3>2. i >= i
      BY <1>1
    <3> QED
      BY <1>5, <3>1, <3>2 DEF Back
  <2>4. AnchorsOf(i) = LeftOf(i)
    BY DEF AnchorsOf, LeftOf
  <2>5. PutStep(f, i) = Inserted(Only(all_cohorts, Shown(co) \cup T), k, <<x>>)
    BY <1>5, <2>4 DEF PutStep
  <2>6. Shown(co) \cup Back(i) = (Shown(co) \cup T) \cup {x}
    BY <2>3
  <2> HIDE DEF T
  <2>7. Only(all_cohorts, (Shown(co) \cup T) \cup {x})
          = Inserted(Only(all_cohorts, Shown(co) \cup T), k, <<x>>)
    BY <2>1, <2>2, PutBackOne
  <2> QED
    BY <2>5, <2>6, <2>7
<1> QED
  BY <1>3, <1>4, <1>5

\* Whatever follows the code's steps puts back all that is ignored.
LEMMA PutBackHolds ==
  ASSUME CohortInv,
         NEW f, f = [i \in 1 .. Len(all_cohorts) + 1 |-> PutStep(f, i)]
  PROVE  f[1] = Only(all_cohorts, Shown(co) \cup Back(1))
<1> DEFINE n == Len(all_cohorts)
           T == {m \in 0 .. n : f[n + 1 - m] # Only(all_cohorts, Shown(co) \cup Back(n + 1 - m))}
<1>1. n \in Nat
  BY VisibleHolds
<1>2. \A i \in 1 .. n + 1 : f[i] = PutStep(f, i)
  OBVIOUS
<1>3. T = {}
  <2> SUFFICES ASSUME T # {}
               PROVE  FALSE
    OBVIOUS
  <2>1. T \subseteq Nat
    BY <1>1
  <2>2. PICK m \in T : \A k \in T : m <= k
    BY <2>1, LeastNatural
  <2> DEFINE i == n + 1 - m
  <2>3. m \in 0 .. n /\ i \in 1 .. n + 1 /\ f[i] # Only(all_cohorts, Shown(co) \cup Back(i))
    BY <1>1, <2>2
  <2>4. ASSUME i # n + 1
        PROVE  f[i + 1] = Only(all_cohorts, Shown(co) \cup Back(i + 1))
    <3>1. m - 1 \in 0 .. n /\ n + 1 - (m - 1) = i + 1 /\ ~ (m <= m - 1)
      BY <1>1, <2>3, <2>4
    <3>2. m - 1 \notin T
      BY <2>2, <3>1
    <3> HIDE DEF i
    <3> QED
      BY <3>1, <3>2
  <2> HIDE DEF i, T
  <2>5. PutStep(f, i) = Only(all_cohorts, Shown(co) \cup Back(i))
    BY <2>3, <2>4, PutStepHolds DEF n
  <2> QED
    BY <1>2, <2>3, <2>5
<1>4. n \in 0 .. n /\ n + 1 - n = 1
  BY <1>1
<1> QED
  BY <1>3, <1>4

LEMMA PutBackExists ==
  ASSUME CohortInv
  PROVE  \E f : f = [i \in 1 .. Len(all_cohorts) + 1 |-> PutStep(f, i)]
<1> DEFINE n == Len(all_cohorts)
           g == [i \in 1 .. n + 1 |-> Only(all_cohorts, Shown(co) \cup Back(i))]
<1>1. n \in Nat
  BY VisibleHolds
<1>2. ASSUME NEW i \in 1 .. n + 1
      PROVE  g[i] = PutStep(g, i)
  <2>1. g[i] = Only(all_cohorts, Shown(co) \cup Back(i))
    OBVIOUS
  <2>2. i # n + 1 => i + 1 \in 1 .. n + 1
    BY <1>1
  <2>3. i # n + 1 => g[i + 1] = Only(all_cohorts, Shown(co) \cup Back(i + 1))
    BY <2>2
  <2> HIDE DEF g
  <2>4. PutStep(g, i) = Only(all_cohorts, Shown(co) \cup Back(i))
    BY <2>3, PutStepHolds
  <2> QED
    BY <2>1, <2>4
<1>3. g = [i \in 1 .. n + 1 |-> g[i]]
  OBVIOUS
<1> HIDE DEF g
<1>4. g = [i \in 1 .. n + 1 |-> PutStep(g, i)]
  BY <1>2, <1>3
<1> QED
  BY <1>4

LEMMA RestoreIgnoredHolds ==
  ASSUME CohortInv, RestoreIgnored, grammar' = grammar
  PROVE  CohortInv'
<1> DEFINE n == Len(all_cohorts)
           back == {all_cohorts[i] : i \in Restorable}
           putBack == CHOOSE f : f = [i \in 1 .. n + 1 |-> PutStep(f, i)]
           g == [c \in DOMAIN co |->
                   IF c \in back THEN [co[c] EXCEPT !.type = @ \ {"ignored"}] ELSE co[c]]
           V == Shown(co)
           W == V \cup back
<1>1. /\ pc' = "done" /\ all_cohorts' = all_cohorts /\ begin' = begin /\ pass' = pass
      /\ did_final_enclosure' = did_final_enclosure /\ sweep' = sweep
  BY DEF RestoreIgnored
<1>2. /\ cohorts' = putBack[1]
      /\ co' = IF back = {} THEN co ELSE Renumbered(g, cohorts', 1)
  BY DEF RestoreIgnored, PutStep
<1>3. putBack = [i \in 1 .. n + 1 |-> PutStep(putBack, i)]
  BY PutBackExists
<1> HIDE DEF putBack
<1>4. putBack[1] = Only(all_cohorts, V \cup Back(1))
  BY <1>3, PutBackHolds
<1>5. Back(1) = back
  <2>1. \A i \in Restorable : i >= 1
    BY RestorableHolds
  <2> QED
    BY <2>1 DEF Back
<1>6. cohorts' = Only(all_cohorts, W)
  BY <1>2, <1>4, <1>5
<1>7. \A c \in back : c \in DOMAIN co /\ co[c].type = {"ignored"}
  BY RestorableHolds
<1>8. /\ co \in [DOMAIN co -> Record] /\ DOMAIN co = ToSet(all_cohorts)
      /\ begin \in DOMAIN co /\ co[begin].type = {}
      /\ all_cohorts \in Seq(Nat) /\ IsInjective(all_cohorts) /\ all_cohorts[1] = begin
      /\ V \subseteq DOMAIN co /\ cohorts = Only(all_cohorts, V)
  BY VisibleHolds DEF Shown
<1> HIDE DEF back
<1>9. ASSUME NEW c \in DOMAIN co
      PROVE  /\ g[c] \in Record /\ g[c].type = IF c \in back THEN {} ELSE co[c].type
             /\ g[c].enclosed = co[c].enclosed /\ g[c].mark = co[c].mark
  <2> DEFINE x == co[c]
             t == x.type \ {"ignored"}
  <2>1. x \in Record
    BY <1>8
  <2>2. CASE c \in back
    <3>1. t = {}
      BY <1>7, <2>2
    <3>2. g[c] = [x EXCEPT !.type = t]
      BY <2>2
    <3> HIDE DEF x, t, g
    <3> QED
      BY <2>1, <2>2, <3>1, <3>2 DEF Record, x
  <2>3. CASE c \notin back
    BY <2>1, <2>3
  <2> QED
    BY <2>2, <2>3
<1>10. DOMAIN g = DOMAIN co /\ g = [c \in DOMAIN co |-> g[c]]
  OBVIOUS
<1> HIDE DEF g
<1>11. g \in [DOMAIN co -> Record]
  BY <1>9, <1>10
<1>12. Shown(g) = W
  BY <1>7, <1>9, <1>10 DEF Shown, V
<1> HIDE DEF W
<1>13. Listing(all_cohorts, cohorts', g, begin)
  <2>1. all_cohorts # <<>>
    BY DEF CohortInv, Listing
  <2>2. g[begin].type = {}
    BY <1>8, <1>9
  <2> QED
    BY <1>6, <1>8, <1>11, <1>12, <2>1, <2>2 DEF Listing
<1>14. /\ Listing(all_cohorts', cohorts', co', begin') /\ Numbered(cohorts', co')
       /\ DOMAIN co' = DOMAIN co
       /\ \A c \in DOMAIN co : /\ co'[c].type = co[c].type \/ co'[c].type = {}
                               /\ co'[c].enclosed = co[c].enclosed
                               /\ co'[c].mark = co[c].mark
  <2>1. CASE back = {}
    <3>1. co' = co /\ cohorts' = cohorts
      BY <1>2, <1>6, <1>8, <2>1 DEF W
    <3> QED
      BY <1>1, <3>1 DEF CohortInv, Numbered
  <2>2. CASE back # {}
    <3>1. Relisted(all_cohorts, cohorts', g, co', begin)
      BY <1>2, <1>13, <2>2, RelistedHolds
    <3> QED
      BY <1>1, <1>9, <1>10, <3>1 DEF Relisted
  <2> QED
    BY <2>1, <2>2
<1>15. Whole'
  <2> SUFFICES ASSUME ~DoesBoth(grammar.rules), "DELIMIT" \in grammar.rules, NEW c \in DOMAIN co
               PROVE  co'[c].type \notin Out
    BY <1>1, <1>14 DEF Whole
  <2>1. co[c].type \notin Out /\ {} \notin Out
    BY DEF CohortInv, Whole, Out
  <2> QED
    BY <1>14, <2>1
<1>16. DepthsHide' /\ DepthsLow' /\ Opened'
  BY <1>1 DEF DepthsHide, DepthsLow, Opened
<1>17. Controlled'
  BY <1>1 DEF CohortInv, Controlled
<1>18. Flat'
  BY <1>14 DEF CohortInv, Flat
<1> QED
  BY <1>14, <1>15, <1>16, <1>17, <1>18 DEF CohortInv

-----------------------------------------------------------------------------
(* The theorem.                                                              *)

LEMMA StepHolds ==
  ASSUME ~BeforeBegin, KeptLow, CohortInv, Next
  PROVE  CohortInv'
<1>1. grammar' = grammar /\ (Rule \/ Proceed)
  BY DEF Next
<1>2. CASE Rule
  BY <1>1, <1>2, RemCohortHolds, IgnoreHolds, AddCohortHolds, CopyCohortHolds,
     MergeCohortsHolds, SplitCohortHolds, MoveHolds, SwitchHolds, DelimitHeadHolds,
     DelimitTailHolds DEF Rule
<1>3. CASE Proceed
  BY <1>1, <1>3, WrapEnclosureHolds, WrappedHolds, StartPassHolds, EndRulesHolds,
     ShowEnclosureHolds, FinalPassHolds, RestoreIgnoredHolds DEF Proceed
<1> QED
  BY <1>1, <1>2, <1>3

\* What rules see is what is not flagged, in document order, whatever the rules
\* of the grammar and the enclosures of the window are: no wrapping, unpacking,
\* rule or restoring of the ignored cohorts puts `cohorts` and `all_cohorts`
\* at odds.  Assumed are a counter of depths that twice the passes cannot run
\* round, no context that puts a cohort before >>> or merges it, and that a grammar which
\* both cuts windows in two and takes cohorts out of them meets no parentheses.
THEOREM VisibleInOrderHolds ==
  ASSUME ~BeforeBegin, KeptLow, PlainWhereBoth
  PROVE  Spec => []VisibleInOrder
<1>1. Init => CohortInv
  BY InitHolds
<1>2. CohortInv /\ [Next]_vars => CohortInv'
  <2> SUFFICES ASSUME CohortInv, [Next]_vars
               PROVE  CohortInv'
    OBVIOUS
  <2>1. CASE Next
    BY <2>1, StepHolds
  <2>2. CASE UNCHANGED vars
    BY <2>2 DEF vars, window, control, CohortInv, Controlled, Listing, Numbered, DepthsHide,
       DepthsLow, Flat, Whole, Opened, Lowered, Deep, Shown
  <2> QED
    BY <2>1, <2>2
<1>3. CohortInv => VisibleInOrder
  <2> SUFFICES ASSUME CohortInv
               PROVE  VisibleInOrder
    OBVIOUS
  <2>1. {c \in DOMAIN co : ~Flagged(c)} = Shown(co)
    BY DEF Flagged, Shown
  <2> QED
    BY <2>1, VisibleHolds DEF VisibleInOrder
<1> QED
  BY <1>1, <1>2, <1>3, PTL DEF Spec
=============================================================================
