---------------------------- MODULE GenArenaProofs ----------------------------
(* StaleHandlesCaught of GenArena, for every number of generations, slots    *)
(* and objects.  The inductive invariant counts the objects of each slot:    *)
(* the generation of a slot is that count, modulo Generations, less one      *)
(* while the slot is in use, and a handle has the count at its time.         *)
EXTENDS GenArena, SequenceTheorems, TLAPS

\* What division by a number leaves.
LEMMA Division ==
  ASSUME NEW G \in Nat \ {0}, NEW n \in Nat
  PROVE  /\ n % G \in 0 .. G - 1
         /\ n \div G \in Nat
         /\ n = (G * (n \div G)) + (n % G)
  OBVIOUS

\* Quotient and remainder are determined.
LEMMA QuotientUnique ==
  ASSUME NEW G \in Nat \ {0}, NEW q \in Int, NEW p \in Int, NEW r \in 0 .. G - 1, NEW s \in 0 .. G - 1,
         G * q + r = G * p + s
  PROVE  q = p /\ r = s
<1>1. ~ (q - p >= 1)
  <2> SUFFICES ASSUME q - p >= 1 PROVE FALSE
    OBVIOUS
  <2>1. G * (q - p) >= G
    OBVIOUS
  <2>2. G * (q - p) = G * q - G * p
    OBVIOUS
  <2> QED BY <2>1, <2>2
<1>2. ~ (p - q >= 1)
  <2> SUFFICES ASSUME p - q >= 1 PROVE FALSE
    OBVIOUS
  <2>1. G * (p - q) >= G
    OBVIOUS
  <2>2. G * (p - q) = G * p - G * q
    OBVIOUS
  <2> QED BY <2>1, <2>2
<1> QED BY <1>1, <1>2

\* What FreeSlot does to a generation keeps it in step with the count.
LEMMA NextResidue ==
  ASSUME NEW G \in Nat \ {0}, NEW n \in Nat
  PROVE  ((n % G) + 1) % G = (n + 1) % G
<1> DEFINE q == n \div G
           r == n % G
           m == (r + 1) \div G
           k == (r + 1) % G
           u == (n + 1) \div G
           v == (n + 1) % G
<1>1. /\ r \in 0 .. G - 1 /\ q \in Nat /\ n = (G * q) + r
  BY Division
<1>2. /\ k \in 0 .. G - 1 /\ m \in Nat /\ r + 1 = (G * m) + k
  <2>1. r + 1 \in Nat
    BY <1>1
  <2> QED BY <2>1, Division
<1>3. /\ v \in 0 .. G - 1 /\ u \in Nat /\ n + 1 = (G * u) + v
  <2>1. n + 1 \in Nat
    OBVIOUS
  <2> QED BY <2>1, Division
<1> HIDE DEF q, r, m, k, u, v
<1>4. (G * q) + (G * m) = G * (q + m)
  BY <1>1, <1>2
<1> DEFINE w == q + m
<1>5. w \in Int /\ G * w + k = G * u + v
  BY <1>1, <1>2, <1>3, <1>4
<1> HIDE DEF w
<1>6. k = v
  <2>1. k \in 0 .. G - 1 /\ v \in 0 .. G - 1 /\ u \in Int /\ w \in Int
    BY <1>2, <1>3, <1>5
  <2>2. G * w + k = G * u + v
    BY <1>5
  <2> QED
    BY <2>1, <2>2, QuotientUnique
<1> QED
  BY <1>6 DEF k, v, r

\* Two counts of one generation lie whole rounds apart.
LEMMA SameResidue ==
  ASSUME NEW G \in Nat \ {0}, NEW a \in Nat, NEW b \in Nat, a % G = b % G, b <= a
  PROVE  (a - b) % G = 0
<1> DEFINE q == a \div G
           p == b \div G
           u == (a - b) \div G
           v == (a - b) % G
           r == a % G
<1>1. /\ r \in 0 .. G - 1 /\ q \in Nat /\ a = (G * q) + r
  BY Division
<1>2. /\ p \in Nat /\ b = (G * p) + r
  BY Division
<1>3. /\ v \in 0 .. G - 1 /\ u \in Nat /\ a - b = (G * u) + v
  <2>1. a - b \in Nat
    OBVIOUS
  <2> QED BY <2>1, Division
<1> HIDE DEF q, r, p, u, v
<1>4. (G * q) - (G * p) = G * (q - p)
  BY <1>1, <1>2
<1>5. G * (q - p) + 0 = G * u + v
  BY <1>1, <1>2, <1>3, <1>4
<1>6. v = 0
  BY <1>1, <1>2, <1>3, <1>5, QuotientUnique
<1> QED
  BY <1>6 DEF v

-----------------------------------------------------------------------------
(* The invariant.                                                          *)

Generation == 0 .. Generations - 1

ArenaTypes ==
  /\ slots \in Seq(Nat)
  /\ gens \in Seq(Generation) /\ Len(gens) = Len(slots)
  /\ held \in Seq(Nat) /\ Len(held) = Len(slots)
  /\ free \in Seq(1 .. Len(slots))
  /\ handle \in Seq([slot : 1 .. Len(slots), gen : Generation])
  /\ uses \in Seq(Nat) /\ Len(uses) = Len(handle)

\* Every handle has the generation of its turn in its slot, no two handles of
\* a slot have the same turn, and all turns so far are over or running.
HandlesInTurn ==
  /\ \A o \in DOMAIN handle :
       /\ handle[o].gen = uses[o] % Generations
       /\ uses[o] < held[handle[o].slot]
  /\ \A o, p \in DOMAIN handle :
       handle[o].slot = handle[p].slot /\ uses[o] = uses[p] => o = p

\* A slot in use holds the object of its last turn.
InUse(i) ==
  /\ slots[i] \in DOMAIN handle
  /\ handle[slots[i]].slot = i
  /\ held[i] = uses[slots[i]] + 1
  /\ gens[i] = uses[slots[i]] % Generations

\* An empty slot has the generation of its next turn.
SlotsCounted ==
  \A i \in DOMAIN slots :
    IF slots[i] = None THEN gens[i] = held[i] % Generations ELSE InUse(i)

ArenaInv == ArenaTypes /\ HandlesInTurn /\ SlotsCounted /\ FreeListExact

LEMMA InitArena == ArenaInit => ArenaInv
<1> SUFFICES ASSUME ArenaInit PROVE ArenaInv
  OBVIOUS
<1>1. /\ slots = <<>> /\ gens = <<>> /\ free = <<>>
      /\ handle = <<>> /\ uses = <<>> /\ held = <<>>
  BY DEF ArenaInit
<1>2. Len(<<>>) = 0 /\ \A S : <<>> \in Seq(S)
  BY EmptySeq
<1>3. DOMAIN slots = {} /\ DOMAIN handle = {} /\ DOMAIN free = {}
  BY <1>1
<1>4. ArenaTypes
  BY <1>1, <1>2 DEF ArenaTypes
<1>5. HandlesInTurn /\ SlotsCounted
  BY <1>3 DEF HandlesInTurn, SlotsCounted
<1>6. FreeListExact
  BY <1>3 DEF FreeListExact
<1> QED
  BY <1>4, <1>5, <1>6 DEF ArenaInv

-----------------------------------------------------------------------------
(* The steps.                                                              *)

\* What a sequence is after Append, by its elements.
LEMMA Appended ==
  ASSUME NEW S, NEW s \in Seq(S), NEW x \in S, NEW m \in Nat, Len(s) = m
  PROVE  /\ DOMAIN s = 1 .. m
         /\ Append(s, x) \in Seq(S)
         /\ Len(Append(s, x)) = m + 1
         /\ DOMAIN Append(s, x) = 1 .. m + 1
         /\ Append(s, x)[m + 1] = x
         /\ \A j \in 1 .. m : Append(s, x)[j] = s[j]
  BY AppendProperties, LenProperties

\* What is left of a sequence without its last element.
LEMMA FrontOf ==
  ASSUME NEW S, NEW s \in Seq(S), NEW m \in Nat \ {0}, Len(s) = m
  PROVE  /\ SubSeq(s, 1, m - 1) \in Seq(S)
         /\ Len(SubSeq(s, 1, m - 1)) = m - 1
         /\ DOMAIN SubSeq(s, 1, m - 1) = 1 .. m - 1
         /\ \A j \in 1 .. m - 1 : SubSeq(s, 1, m - 1)[j] = s[j]
<1>1. \A j \in 1 .. m - 1 : j \in 1 .. m
  OBVIOUS
<1>2. \A j \in 1 .. m - 1 : s[j] \in S
  BY <1>1, ElementOfSeq
<1> QED
  BY <1>2, SubSeqProperties, LenProperties

LEMMA NewSlot ==
  ASSUME ArenaInv, AllocNew
  PROVE  ArenaInv'
<1> DEFINE i == Len(slots) + 1
           n == Len(handle) + 1
<1>1. /\ free = <<>> /\ free' = free
      /\ slots' = Append(slots, n) /\ gens' = Append(gens, 0)
      /\ held' = Append(held, 1)
      /\ handle' = Append(handle, [slot |-> i, gen |-> 0])
      /\ uses' = Append(uses, 0)
  BY DEF AllocNew, Next1, Handle
<1>2. ArenaTypes
  BY DEF ArenaInv
<1>3. /\ Len(slots) \in Nat /\ Len(handle) \in Nat
      /\ i \in Nat \ {0} /\ n \in Nat \ {0}
      /\ Generations \in Nat \ {0} /\ 0 \in Generation
  BY <1>2, ArenaAssumption DEF ArenaTypes, Generation
<1>4. 0 % Generations = 0
  BY <1>3
<1>5. /\ slots' \in Seq(Nat) /\ Len(slots') = i
      /\ slots'[i] = n /\ \A j \in 1 .. Len(slots) : slots'[j] = slots[j]
  <2>1. slots \in Seq(Nat) /\ n \in Nat /\ Len(slots) \in Nat
    BY <1>2, <1>3 DEF ArenaTypes
  <2> QED
    BY <1>1, <2>1, Appended
<1>6. /\ gens' \in Seq(Generation) /\ Len(gens') = i
      /\ gens'[i] = 0 /\ \A j \in 1 .. Len(slots) : gens'[j] = gens[j]
  <2>1. gens \in Seq(Generation) /\ Len(gens) = Len(slots)
    BY <1>2 DEF ArenaTypes
  <2> QED
    BY <1>1, <1>3, <2>1, Appended
<1>7. /\ held' \in Seq(Nat) /\ Len(held') = i
      /\ held'[i] = 1 /\ \A j \in 1 .. Len(slots) : held'[j] = held[j]
  <2>1. held \in Seq(Nat) /\ Len(held) = Len(slots) /\ 1 \in Nat
    BY <1>2 DEF ArenaTypes
  <2> QED
    BY <1>1, <1>3, <2>1, Appended
<1>8. /\ handle' \in Seq([slot : 1 .. Len(slots'), gen : Generation])
      /\ Len(handle') = n /\ handle'[n] = [slot |-> i, gen |-> 0]
      /\ \A o \in 1 .. Len(handle) :
           /\ handle'[o] = handle[o]
           /\ handle[o].slot \in 1 .. Len(slots)
  <2>1. handle \in Seq([slot : 1 .. i, gen : Generation])
    <3>1. [slot : 1 .. Len(slots), gen : Generation] \subseteq [slot : 1 .. i, gen : Generation]
      BY <1>3
    <3> QED
      BY <1>2, <3>1, SeqMonotonic DEF ArenaTypes
  <2>2. [slot |-> i, gen |-> 0] \in [slot : 1 .. i, gen : Generation]
    BY <1>3
  <2>3. \A o \in 1 .. Len(handle) : handle[o].slot \in 1 .. Len(slots)
    <3>1. handle \in Seq([slot : 1 .. Len(slots), gen : Generation])
      BY <1>2 DEF ArenaTypes
    <3>2. \A o \in 1 .. Len(handle) : handle[o] \in [slot : 1 .. Len(slots), gen : Generation]
      BY <3>1, <1>3, ElementOfSeq
    <3> QED
      BY <3>2
  <2> HIDE DEF i
  <2>4. /\ handle' \in Seq([slot : 1 .. i, gen : Generation])
        /\ Len(handle') = n /\ handle'[n] = [slot |-> i, gen |-> 0]
        /\ \A o \in 1 .. Len(handle) : handle'[o] = handle[o]
    BY <1>1, <1>3, <2>1, <2>2, Appended
  <2> QED
    BY <1>5, <2>3, <2>4
<1>9. /\ uses' \in Seq(Nat) /\ Len(uses') = n
      /\ uses'[n] = 0 /\ \A o \in 1 .. Len(handle) : uses'[o] = uses[o]
  <2>1. uses \in Seq(Nat) /\ Len(uses) = Len(handle) /\ 0 \in Nat
    BY <1>2 DEF ArenaTypes
  <2> QED
    BY <1>1, <1>3, <2>1, Appended
<1>10. /\ DOMAIN slots = 1 .. Len(slots) /\ DOMAIN slots' = 1 .. i
       /\ DOMAIN handle = 1 .. Len(handle) /\ DOMAIN handle' = 1 .. n
  BY <1>2, <1>5, <1>8 DEF ArenaTypes
<1> HIDE DEF i, n
<1>11. i \notin 1 .. Len(slots) /\ 1 .. i = 1 .. Len(slots) \cup {i}
  BY <1>3 DEF i
<1>12. n \notin 1 .. Len(handle) /\ 1 .. n = 1 .. Len(handle) \cup {n}
  BY <1>3 DEF n
<1>13. ArenaTypes'
  <2>1. free' \in Seq(1 .. Len(slots'))
    BY <1>1, EmptySeq
  <2> QED
    BY <1>5, <1>6, <1>7, <1>8, <1>9, <2>1 DEF ArenaTypes, Generation
<1>14. HandlesInTurn'
  <2>1. ASSUME NEW o \in 1 .. n
        PROVE  /\ handle'[o].gen = uses'[o] % Generations
               /\ uses'[o] < held'[handle'[o].slot]
    <3>1. CASE o = n
      BY <1>4, <1>7, <1>8, <1>9, <3>1
    <3>2. CASE o \in 1 .. Len(handle)
      <4>1. /\ handle[o].gen = uses[o] % Generations
            /\ uses[o] < held[handle[o].slot]
        BY <1>10, <3>2 DEF ArenaInv, HandlesInTurn
      <4>2. /\ handle'[o] = handle[o] /\ uses'[o] = uses[o]
            /\ held'[handle[o].slot] = held[handle[o].slot]
        BY <1>7, <1>8, <1>9, <3>2
      <4> QED
        BY <4>1, <4>2
    <3> QED
      BY <1>12, <3>1, <3>2
  <2>2. ASSUME NEW o \in 1 .. n, NEW p \in 1 .. n,
               handle'[o].slot = handle'[p].slot, uses'[o] = uses'[p]
        PROVE  o = p
    <3>1. CASE o \in 1 .. Len(handle) /\ p \in 1 .. Len(handle)
      BY <1>8, <1>9, <1>10, <2>2, <3>1 DEF ArenaInv, HandlesInTurn
    <3>2. CASE o = n \/ p = n
      <4>1. handle'[n].slot = i
        BY <1>8
      <4>2. \A q \in 1 .. Len(handle) : handle'[q].slot # i
        BY <1>8, <1>11
      <4> QED
        BY <1>12, <2>2, <3>2, <4>1, <4>2
    <3> QED
      BY <1>12, <3>1, <3>2
  <2> QED
    BY <1>10, <2>1, <2>2 DEF HandlesInTurn
<1>15. \A j \in DOMAIN slots : slots[j] # None
  BY <1>1 DEF ArenaInv, FreeListExact
<1>16. SlotsCounted'
  <2> SUFFICES ASSUME NEW j \in 1 .. i
               PROVE  slots'[j] # None /\ InUse(j)'
    BY <1>10 DEF SlotsCounted
  <2>1. CASE j = i
    BY <1>3, <1>4, <1>5, <1>6, <1>7, <1>8, <1>9, <1>10, <1>12, <2>1 DEF InUse, None
  <2>2. CASE j \in 1 .. Len(slots)
    <3>1. slots[j] # None /\ InUse(j)
      BY <1>10, <1>15, <2>2 DEF ArenaInv, SlotsCounted
    <3>2. /\ slots'[j] = slots[j] /\ gens'[j] = gens[j] /\ held'[j] = held[j]
      BY <1>5, <1>6, <1>7, <2>2
    <3>3. slots[j] \in 1 .. Len(handle) /\ slots[j] \in DOMAIN handle'
      BY <1>10, <1>12, <3>1 DEF InUse
    <3>4. handle'[slots[j]] = handle[slots[j]] /\ uses'[slots[j]] = uses[slots[j]]
      BY <1>8, <1>9, <3>3
    <3> QED
      BY <3>1, <3>2, <3>3, <3>4 DEF InUse
  <2> QED
    BY <1>11, <2>1, <2>2
<1>17. FreeListExact'
  <2>1. \A j \in DOMAIN slots' : slots'[j] # None
    BY <1>3, <1>5, <1>10, <1>11, <1>15 DEF None
  <2>2. DOMAIN free' = {}
    BY <1>1
  <2> QED
    BY <2>1, <2>2 DEF FreeListExact
<1> QED
  BY <1>13, <1>14, <1>16, <1>17 DEF ArenaInv

LEMMA ReusedSlot ==
  ASSUME ArenaInv, AllocReused
  PROVE  ArenaInv'
<1> DEFINE i == free[Len(free)]
           n == Len(handle) + 1
           h == [slot |-> i, gen |-> gens[i]]
<1>1. /\ free # <<>> /\ free' = SubSeq(free, 1, Len(free) - 1)
      /\ slots' = [slots EXCEPT ![i] = n] /\ gens' = gens
      /\ held' = [held EXCEPT ![i] = held[i] + 1]
      /\ handle' = Append(handle, h)
      /\ uses' = Append(uses, held[i])
  BY DEF AllocReused, Next1, Handle
<1>2. ArenaTypes
  BY DEF ArenaInv
<1>3. /\ Len(slots) \in Nat /\ Len(handle) \in Nat /\ n \in Nat \ {0}
      /\ Len(free) \in Nat \ {0} /\ Len(free) \in 1 .. Len(free)
      /\ i \in 1 .. Len(slots) /\ held[i] \in Nat /\ gens[i] \in Generation
  <2>1. /\ free \in Seq(1 .. Len(slots)) /\ slots \in Seq(Nat) /\ handle \in Seq([slot : 1 .. Len(slots), gen : Generation])
        /\ held \in Seq(Nat) /\ Len(held) = Len(slots)
        /\ gens \in Seq(Generation) /\ Len(gens) = Len(slots)
    BY <1>2 DEF ArenaTypes
  <2>2. Len(free) \in Nat \ {0} /\ Len(slots) \in Nat /\ Len(handle) \in Nat
    BY <1>1, <2>1, EmptySeq, LenProperties
  <2>3. i \in 1 .. Len(slots)
    <3>1. Len(free) \in 1 .. Len(free)
      BY <2>2
    <3> QED
      BY <2>1, <3>1, ElementOfSeq
  <2> HIDE DEF i
  <2>4. held[i] \in Nat /\ gens[i] \in Generation
    BY <2>1, <2>3, ElementOfSeq
  <2> QED
    BY <2>2, <2>3, <2>4
<1>4. /\ DOMAIN slots = 1 .. Len(slots) /\ DOMAIN free = 1 .. Len(free)
      /\ DOMAIN handle = 1 .. Len(handle)
  BY <1>2 DEF ArenaTypes
<1>5. slots[i] = None /\ gens[i] = held[i] % Generations
  BY <1>3, <1>4 DEF ArenaInv, FreeListExact, SlotsCounted
<1> HIDE DEF i
<1>6. /\ slots' \in Seq(Nat) /\ Len(slots') = Len(slots)
      /\ slots'[i] = n
      /\ \A j \in 1 .. Len(slots) : j # i => slots'[j] = slots[j]
  <2>1. slots \in Seq(Nat) /\ n \in Nat
    BY <1>2, <1>3 DEF ArenaTypes
  <2> QED
    BY <1>1, <1>3, <2>1, ExceptSeq
<1>7. /\ held' \in Seq(Nat) /\ Len(held') = Len(slots)
      /\ held'[i] = held[i] + 1
      /\ \A j \in 1 .. Len(slots) : j # i => held'[j] = held[j]
  <2>1. held \in Seq(Nat) /\ Len(held) = Len(slots) /\ held[i] + 1 \in Nat
    BY <1>2, <1>3, SMTT(60) DEF ArenaTypes
  <2> QED
    BY <1>1, <1>3, <2>1, ExceptSeq
<1>8. /\ handle' \in Seq([slot : 1 .. Len(slots), gen : Generation])
      /\ Len(handle') = n /\ handle'[n] = h
      /\ h.slot = i /\ h.gen = gens[i]
      /\ \A o \in 1 .. Len(handle) :
           /\ handle'[o] = handle[o]
           /\ handle[o].slot \in 1 .. Len(slots)
  <2>1. handle \in Seq([slot : 1 .. Len(slots), gen : Generation])
    BY <1>2 DEF ArenaTypes
  <2>2. h \in [slot : 1 .. Len(slots), gen : Generation]
    BY <1>3
  <2>3. \A o \in 1 .. Len(handle) : handle[o] \in [slot : 1 .. Len(slots), gen : Generation]
    BY <2>1, ElementOfSeq
  <2>4. h.slot = i /\ h.gen = gens[i]
    OBVIOUS
  <2> HIDE DEF h
  <2> QED
    BY <1>1, <1>3, <2>1, <2>2, <2>3, <2>4, Appended
<1>9. /\ uses' \in Seq(Nat) /\ Len(uses') = n
      /\ uses'[n] = held[i] /\ \A o \in 1 .. Len(handle) : uses'[o] = uses[o]
  <2>1. uses \in Seq(Nat) /\ Len(uses) = Len(handle)
    BY <1>2 DEF ArenaTypes
  <2> QED
    BY <1>1, <1>3, <2>1, Appended
<1>10. /\ free' \in Seq(1 .. Len(slots)) /\ Len(free') = Len(free) - 1
       /\ \A k \in 1 .. Len(free) - 1 : free'[k] = free[k]
       /\ DOMAIN free' = 1 .. Len(free) - 1
  <2> DEFINE S == 1 .. Len(slots)
             m == Len(free)
  <2>1. free \in Seq(S) /\ m \in Nat \ {0} /\ free' = SubSeq(free, 1, m - 1)
    BY <1>1, <1>2, <1>3 DEF ArenaTypes
  <2> HIDE DEF S
  <2>2. /\ free' \in Seq(S) /\ Len(free') = m - 1
        /\ \A k \in 1 .. m - 1 : free'[k] = free[k]
        /\ DOMAIN free' = 1 .. m - 1
    BY <2>1, FrontOf
  <2> QED
    BY <2>2 DEF S
<1>11. DOMAIN slots' = 1 .. Len(slots) /\ DOMAIN handle' = 1 .. n
  BY <1>6, <1>8
<1> HIDE DEF n, h
<1>12. n \notin 1 .. Len(handle) /\ 1 .. n = 1 .. Len(handle) \cup {n}
  BY <1>3 DEF n
<1>13. ArenaTypes'
  BY <1>1, <1>2, <1>6, <1>7, <1>8, <1>9, <1>10 DEF ArenaTypes, Generation
<1>14. \A o \in 1 .. Len(handle) :
         /\ handle[o].gen = uses[o] % Generations
         /\ uses[o] < held[handle[o].slot]
  BY <1>4 DEF ArenaInv, HandlesInTurn
<1>15. HandlesInTurn'
  <2>1. ASSUME NEW o \in 1 .. n
        PROVE  /\ handle'[o].gen = uses'[o] % Generations
               /\ uses'[o] < held'[handle'[o].slot]
    <3>1. CASE o = n
      BY <1>3, <1>5, <1>7, <1>8, <1>9, <3>1, SMTT(60)
    <3>2. CASE o \in 1 .. Len(handle)
      <4>1. /\ handle'[o] = handle[o] /\ uses'[o] = uses[o]
            /\ uses[o] \in Nat
        <5>1. uses \in Seq(Nat) /\ Len(uses) = Len(handle)
          BY <1>2 DEF ArenaTypes
        <5> QED
          BY <1>8, <1>9, <3>2, <5>1, ElementOfSeq
      <4>2. uses[o] < held'[handle[o].slot]
        <5>1. CASE handle[o].slot = i
          BY <1>3, <1>7, <1>14, <3>2, <4>1, <5>1, SMTT(60)
        <5>2. CASE handle[o].slot # i
          BY <1>7, <1>8, <1>14, <3>2, <5>2
        <5> QED
          BY <5>1, <5>2
      <4> QED
        BY <1>14, <3>2, <4>1, <4>2
    <3> QED
      BY <1>12, <3>1, <3>2
  <2>2. ASSUME NEW o \in 1 .. n, NEW p \in 1 .. n,
               handle'[o].slot = handle'[p].slot, uses'[o] = uses'[p]
        PROVE  o = p
    <3>1. CASE o \in 1 .. Len(handle) /\ p \in 1 .. Len(handle)
      <4>1. handle[o].slot = handle[p].slot /\ uses[o] = uses[p]
        BY <1>8, <1>9, <2>2, <3>1
      <4> QED
        BY <1>4, <3>1, <4>1 DEF ArenaInv, HandlesInTurn
    <3>2. \A q \in 1 .. Len(handle) :
            ~ (handle'[q].slot = handle'[n].slot /\ uses'[q] = uses'[n])
      <4> SUFFICES ASSUME NEW q \in 1 .. Len(handle),
                          handle'[q].slot = handle'[n].slot, uses'[q] = uses'[n]
                   PROVE  FALSE
        OBVIOUS
      <4>1. handle[q].slot = i /\ uses[q] = held[i]
        BY <1>8, <1>9
      <4>2. uses[q] < held[i]
        BY <1>14, <4>1
      <4> QED
        BY <1>3, <4>1, <4>2
    <3>3. ~ (o \in 1 .. Len(handle) /\ p = n)
      BY <2>2, <3>2
    <3>4. ~ (o = n /\ p \in 1 .. Len(handle))
      BY <2>2, <3>2
    <3>5. (o \in 1 .. Len(handle) \/ o = n) /\ (p \in 1 .. Len(handle) \/ p = n)
      BY <1>12
    <3> QED
      BY <3>1, <3>3, <3>4, <3>5
  <2> QED
    BY <1>11, <2>1, <2>2 DEF HandlesInTurn
<1>16. SlotsCounted'
  <2> SUFFICES ASSUME NEW j \in 1 .. Len(slots)
               PROVE  IF slots'[j] = None THEN gens'[j] = held'[j] % Generations ELSE InUse(j)'
    BY <1>11 DEF SlotsCounted
  <2>1. CASE j = i
    BY <1>1, <1>3, <1>5, <1>6, <1>7, <1>8, <1>9, <1>11, <1>12, <2>1 DEF InUse, None
  <2>2. CASE j # i /\ slots[j] = None
    BY <1>1, <1>4, <1>6, <1>7, <2>2 DEF ArenaInv, SlotsCounted
  <2>3. CASE j # i /\ slots[j] # None
    <3>1. InUse(j)
      BY <1>4, <2>3 DEF ArenaInv, SlotsCounted
    <3>2. slots'[j] = slots[j] /\ gens'[j] = gens[j] /\ held'[j] = held[j]
      BY <1>1, <1>6, <1>7, <2>3
    <3>3. slots[j] \in 1 .. Len(handle) /\ slots[j] \in DOMAIN handle'
      BY <1>4, <1>11, <1>12, <3>1 DEF InUse
    <3>4. handle'[slots[j]] = handle[slots[j]] /\ uses'[slots[j]] = uses[slots[j]]
      BY <1>8, <1>9, <3>3
    <3> QED
      BY <2>3, <3>1, <3>2, <3>3, <3>4 DEF InUse
  <2> QED
    BY <2>1, <2>2, <2>3
<1>17. FreeListExact'
  <2>1. \A k, l \in 1 .. Len(free) : free[k] = free[l] => k = l
    BY <1>4 DEF ArenaInv, FreeListExact
  <2>2. {free[k] : k \in 1 .. Len(free)} = {j \in 1 .. Len(slots) : slots[j] = None}
    BY <1>4 DEF ArenaInv, FreeListExact
  <2>3. \A k \in 1 .. Len(free) - 1 : k \in 1 .. Len(free) /\ free[k] # i
    BY <1>3, <2>1 DEF i
  <2>4. \A k, l \in DOMAIN free' : free'[k] = free'[l] => k = l
    BY <1>10, <2>1, <2>3
  <2>5. \A k \in 1 .. Len(free) - 1 : free'[k] \in {j \in 1 .. Len(slots) : slots'[j] = None}
    <3> SUFFICES ASSUME NEW k \in 1 .. Len(free) - 1
                 PROVE  free[k] \in 1 .. Len(slots) /\ slots'[free[k]] = None
      BY <1>10
    <3>1. free[k] \in {j \in 1 .. Len(slots) : slots[j] = None} /\ free[k] # i
      BY <2>2, <2>3
    <3> QED
      BY <1>6, <3>1
  <2>6. ASSUME NEW j \in 1 .. Len(slots), slots'[j] = None
        PROVE  \E k \in 1 .. Len(free) - 1 : free'[k] = j
    <3>1. j # i
      BY <1>3, <1>6, <2>6 DEF None, n
    <3>2. slots[j] = None
      BY <1>6, <2>6, <3>1
    <3>3. PICK k \in 1 .. Len(free) : free[k] = j
      BY <2>2, <3>2
    <3>4. k \in 1 .. Len(free) - 1
      BY <1>3, <3>1, <3>3 DEF i
    <3> QED
      BY <1>10, <3>3, <3>4
  <2> QED
    BY <1>10, <1>11, <2>4, <2>5, <2>6 DEF FreeListExact
<1> QED
  BY <1>13, <1>15, <1>16, <1>17 DEF ArenaInv

LEMMA FreedSlot ==
  ASSUME ArenaInv, NEW o \in DOMAIN handle, FreeSlot(handle[o])
  PROVE  ArenaInv'
<1> DEFINE i == handle[o].slot
           p == slots[i]
<1>1. /\ i \in DOMAIN slots /\ p # None
      /\ slots' = [slots EXCEPT ![i] = None]
      /\ gens' = [gens EXCEPT ![i] = (gens[i] + 1) % Generations]
      /\ free' = Append(free, i)
      /\ handle' = handle /\ uses' = uses /\ held' = held
  BY DEF FreeSlot, TryGet, Check
<1>2. ArenaTypes
  BY DEF ArenaInv
<1>3. /\ DOMAIN slots = 1 .. Len(slots) /\ DOMAIN free = 1 .. Len(free)
      /\ i \in 1 .. Len(slots) /\ Len(free) \in Nat
  BY <1>1, <1>2, SMTT(60) DEF ArenaTypes
<1>4. InUse(i)
  BY <1>1 DEF ArenaInv, SlotsCounted
<1> HIDE DEF i
<1>5. /\ slots' \in Seq(Nat) /\ Len(slots') = Len(slots)
      /\ slots'[i] = None
      /\ \A j \in 1 .. Len(slots) : j # i => slots'[j] = slots[j]
  <2>1. slots \in Seq(Nat) /\ None \in Nat
    BY <1>2 DEF ArenaTypes, None
  <2> QED
    BY <1>1, <1>3, <2>1, ExceptSeq
<1>6. (gens[i] + 1) % Generations \in Generation /\ (gens[i] + 1) % Generations = held[i] % Generations
  <2>1. uses[p] \in Nat /\ Generations \in Nat \ {0}
    <3>1. uses \in Seq(Nat) /\ DOMAIN handle = 1 .. Len(uses)
      BY <1>2 DEF ArenaTypes
    <3> QED
      BY <1>4, <3>1, ElementOfSeq, ArenaAssumption DEF InUse
  <2>2. gens[i] = uses[p] % Generations /\ held[i] = uses[p] + 1
    BY <1>4 DEF InUse
  <2> HIDE DEF p
  <2>3. uses[p] + 1 \in Nat
    BY <2>1
  <2>4. (uses[p] + 1) % Generations \in Generation
    BY <2>1, <2>3, Division DEF Generation
  <2> QED
    BY <2>1, <2>2, <2>4, NextResidue
<1>7. /\ gens' \in Seq(Generation) /\ Len(gens') = Len(slots)
      /\ gens'[i] = held[i] % Generations
      /\ \A j \in 1 .. Len(slots) : j # i => gens'[j] = gens[j]
  <2>1. gens \in Seq(Generation) /\ Len(gens) = Len(slots)
    BY <1>2 DEF ArenaTypes
  <2> QED
    BY <1>1, <1>3, <1>6, <2>1, ExceptSeq
<1>8. /\ free' \in Seq(1 .. Len(slots)) /\ DOMAIN free' = 1 .. Len(free) + 1
      /\ free'[Len(free) + 1] = i
      /\ \A k \in 1 .. Len(free) : free'[k] = free[k]
  <2>1. free \in Seq(1 .. Len(slots))
    BY <1>2 DEF ArenaTypes
  <2> QED
    BY <1>1, <1>3, <2>1, Appended
<1>9. DOMAIN slots' = 1 .. Len(slots)
  BY <1>5
<1> HIDE DEF p
<1>10. ArenaTypes'
  BY <1>1, <1>2, <1>5, <1>7, <1>8 DEF ArenaTypes, Generation
<1>11. HandlesInTurn'
  BY <1>1 DEF ArenaInv, HandlesInTurn
<1>12. SlotsCounted'
  <2> SUFFICES ASSUME NEW j \in 1 .. Len(slots)
               PROVE  IF slots'[j] = None THEN gens'[j] = held'[j] % Generations ELSE InUse(j)'
    BY <1>9 DEF SlotsCounted
  <2>1. CASE j = i
    BY <1>1, <1>5, <1>7, <2>1
  <2>2. CASE j # i /\ slots[j] = None
    BY <1>1, <1>3, <1>5, <1>7, <2>2 DEF ArenaInv, SlotsCounted
  <2>3. CASE j # i /\ slots[j] # None
    BY <1>1, <1>3, <1>5, <1>7, <2>3 DEF ArenaInv, SlotsCounted, InUse
  <2> QED
    BY <2>1, <2>2, <2>3
<1>13. FreeListExact'
  <2>1. \A k, l \in 1 .. Len(free) : free[k] = free[l] => k = l
    BY <1>3 DEF ArenaInv, FreeListExact
  <2>2. {free[k] : k \in 1 .. Len(free)} = {j \in 1 .. Len(slots) : slots[j] = None}
    BY <1>3 DEF ArenaInv, FreeListExact
  <2>3. \A k \in 1 .. Len(free) : free[k] # i
    BY <1>1, <2>2 DEF p
  <2>4. \A k \in 1 .. Len(free) + 1 : k \in 1 .. Len(free) \/ k = Len(free) + 1
    BY <1>3
  <2>5. \A k, l \in DOMAIN free' : free'[k] = free'[l] => k = l
    BY <1>8, <2>1, <2>3, <2>4
  <2>6. \A k \in 1 .. Len(free) + 1 : free'[k] \in {j \in 1 .. Len(slots) : slots'[j] = None}
    <3> SUFFICES ASSUME NEW k \in 1 .. Len(free) + 1
                 PROVE  free'[k] \in 1 .. Len(slots) /\ slots'[free'[k]] = None
      OBVIOUS
    <3>1. CASE k = Len(free) + 1
      BY <1>3, <1>5, <1>8, <3>1
    <3>2. CASE k \in 1 .. Len(free)
      <4>1. free[k] \in {j \in 1 .. Len(slots) : slots[j] = None} /\ free[k] # i
        BY <2>2, <2>3, <3>2
      <4> QED
        BY <1>5, <1>8, <3>2, <4>1
    <3> QED
      BY <2>4, <3>1, <3>2
  <2>7. ASSUME NEW j \in 1 .. Len(slots), slots'[j] = None
        PROVE  \E k \in 1 .. Len(free) + 1 : free'[k] = j
    <3>1. CASE j = i
      BY <1>3, <1>8, <3>1
    <3>2. CASE j # i
      <4>1. slots[j] = None
        BY <1>5, <2>7, <3>2
      <4>2. PICK k \in 1 .. Len(free) : free[k] = j
        BY <2>2, <4>1
      <4> QED
        BY <1>3, <1>8, <4>2
    <3> QED
      BY <3>1, <3>2
  <2>8. {free'[k] : k \in DOMAIN free'} = {j \in DOMAIN slots' : slots'[j] = None}
    <3>1. DOMAIN free' = 1 .. Len(free) + 1 /\ DOMAIN slots' = 1 .. Len(slots)
      BY <1>8, <1>9
    <3>2. ASSUME NEW x \in {free'[k] : k \in 1 .. Len(free) + 1}
          PROVE  x \in {j \in 1 .. Len(slots) : slots'[j] = None}
      BY <2>6
    <3>3. ASSUME NEW x \in {j \in 1 .. Len(slots) : slots'[j] = None}
          PROVE  x \in {free'[k] : k \in 1 .. Len(free) + 1}
      BY <2>7
    <3> QED
      BY <3>1, <3>2, <3>3
  <2> QED
    BY <2>5, <2>8 DEF FreeListExact
<1> QED
  BY <1>10, <1>11, <1>12, <1>13 DEF ArenaInv

\* What the invariant says of handles is what the property does.
LEMMA CaughtByCount == ArenaInv => StaleHandlesCaught
<1> SUFFICES ASSUME ArenaInv PROVE StaleHandlesCaught
  OBVIOUS
<1>1. \A i \in DOMAIN slots : slots[i] # None => InUse(i)
  BY DEF ArenaInv, SlotsCounted
<1>2. \A o \in DOMAIN handle : handle[o].gen = uses[o] % Generations /\ uses[o] < held[handle[o].slot]
  BY DEF ArenaInv, HandlesInTurn
<1>3. \A o \in DOMAIN handle : uses[o] \in Nat
  <2>1. uses \in Seq(Nat) /\ DOMAIN handle = 1 .. Len(uses)
    BY DEF ArenaInv, ArenaTypes
  <2> QED
    BY <2>1, ElementOfSeq
<1>4. LiveIsReached
  <2> SUFFICES ASSUME NEW i \in DOMAIN slots, slots[i] # None
               PROVE  TryGet(handle[slots[i]]) = slots[i]
    BY DEF LiveIsReached
  <2>1. /\ slots[i] \in DOMAIN handle /\ handle[slots[i]].slot = i
        /\ gens[i] = uses[slots[i]] % Generations
    BY <1>1 DEF InUse
  <2>2. handle[slots[i]].gen = gens[i]
    BY <1>2, <2>1
  <2> QED
    BY <2>1, <2>2 DEF TryGet, Check
<1>5. AliasOnlyAfterWrap
  <2> SUFFICES ASSUME NEW o \in DOMAIN handle, TryGet(handle[o]) \notin {None, o}
               PROVE  /\ uses[TryGet(handle[o])] > uses[o]
                      /\ (uses[TryGet(handle[o])] - uses[o]) % Generations = 0
    BY DEF AliasOnlyAfterWrap
  <2> DEFINE i == handle[o].slot
             p == slots[i]
  <2>1. /\ i \in DOMAIN slots /\ gens[i] = handle[o].gen
        /\ TryGet(handle[o]) = p /\ p # None /\ p # o
    BY DEF TryGet, Check
  <2>2. /\ p \in DOMAIN handle /\ handle[p].slot = i
        /\ held[i] = uses[p] + 1 /\ gens[i] = uses[p] % Generations
    BY <1>1, <2>1 DEF InUse
  <2>3. uses[o] \in Nat /\ uses[p] \in Nat /\ Generations \in Nat \ {0}
    BY <1>3, <2>2, ArenaAssumption
  <2>4. uses[o] # uses[p]
    BY <2>1, <2>2 DEF ArenaInv, HandlesInTurn
  <2>5. uses[o] < held[i] /\ handle[o].gen = uses[o] % Generations
    BY <1>2
  <2> HIDE DEF i, p
  <2>6. uses[p] % Generations = uses[o] % Generations
    BY <2>1, <2>2, <2>5
  <2>7. uses[p] > uses[o]
    BY <2>2, <2>3, <2>4, <2>5
  <2>8. (uses[p] - uses[o]) % Generations = 0
    BY <2>3, <2>6, <2>7, SameResidue
  <2> QED
    BY <2>1, <2>7, <2>8
<1> QED
  BY <1>4, <1>5 DEF StaleHandlesCaught, ArenaInv

-----------------------------------------------------------------------------
\* However long a handle is kept, and however often it is used to free, it
\* leads to its own object or is caught, unless the generations of its slot
\* have gone round; no slot in use is given out (arena.rs: alloc, free_slot,
\* try_get).
THEOREM StaleHandlesCaughtHolds == ArenaSpec => []StaleHandlesCaught
<1>1. ArenaInit => ArenaInv
  BY InitArena
<1>2. ArenaInv /\ [ArenaNext]_arenaVars => ArenaInv'
  <2> SUFFICES ASSUME ArenaInv, [ArenaNext]_arenaVars
               PROVE  ArenaInv'
    OBVIOUS
  <2>1. CASE AllocReused
    BY <2>1, ReusedSlot
  <2>2. CASE AllocNew
    BY <2>2, NewSlot
  <2>3. CASE \E o \in DOMAIN handle : FreeSlot(handle[o])
    BY <2>3, FreedSlot
  <2>4. CASE UNCHANGED arenaVars
    BY <2>4 DEF arenaVars, ArenaInv, ArenaTypes, HandlesInTurn, SlotsCounted,
                InUse, FreeListExact
  <2> QED
    BY <2>1, <2>2, <2>3, <2>4 DEF ArenaNext
<1> QED
  BY <1>1, <1>2, CaughtByCount, PTL DEF ArenaSpec
=============================================================================
