------------------------------ MODULE FlatTable ------------------------------
(***************************************************************************)
(* The open-addressing table behind every map and set of variables, tags   *)
(* and numbers (flat_unordered_map.rs; flat_unordered_set.rs repeats the   *)
(* algorithm without the values).  A slot is empty, deleted or holds an    *)
(* entry.  A probe walks the slots by a linear congruence and stops at the *)
(* key or at an empty slot; deleted slots are walked over and never used   *)
(* again until the table is rebuilt.  Every probe but that of a lookup is  *)
(* unbounded: where it would walk for ever the model sets `hung` and stops.*)
(***************************************************************************)
EXTENDS Integers, FiniteSets, SequencesExt

CONSTANTS
  Keys,        \* the keys in play, natural numbers
  Values,      \* their values; one for a set
  HashMul,     \* multiplier and increment of the probe, modulo the largest
  HashAdd,     \*   capacity in play
  DefaultCap   \* DEFAULT_CAP, the capacity of the first allocation

ASSUME TableAssumption ==
  /\ Keys \subseteq Nat /\ DefaultCap \in Nat \ {0}
  /\ HashMul % 4 = 1 /\ HashAdd % 2 = 1

VARIABLE table   \* [elements, size, deleted, hung]

vars == <<table>>

EMPTY == -1
DEL   == -2
Entry(k, v) == [key |-> k, val |-> v]
Empty == Entry(EMPTY, 0)
Del   == Entry(DEL, 0)

Capacity(t) == Cardinality(DOMAIN t.elements)
Live(e) == e.key \notin {EMPTY, DEL}
LiveSlots(t) == {i \in DOMAIN t.elements : Live(t.elements[i])}
Blank(n) == [i \in 0 .. n - 1 |-> Empty]

HashValue(n) == n * HashMul + HashAdd

\* The slots the probe for k visits in a table of c slots: as many as there
\* are, after which it repeats itself.
Orbit(c, k) ==
  FoldLeft(LAMBDA s, i : Append(s, HashValue(Last(s)) % c), <<HashValue(k) % c>>, [i \in 2 .. c |-> i])
Capacities == {DefaultCap * n : n \in {1, 2, 4}}
Orbits == {[of |-> <<c, k>>, path |-> Orbit(c, k)] : c \in Capacities, k \in Keys}
Path(t, k) == (CHOOSE o \in Orbits : o.of = <<Capacity(t), k>>).path

\* MUTANT of Landing: a deleted slot ends the probe, as if it could be used again.
LandingReuses(t, k) ==
  LET spot  == Path(t, k)
      Stops == {i \in DOMAIN spot : t.elements[spot[i]].key \in {EMPTY, DEL, k}}
  IN  IF Stops = {} THEN {} ELSE {spot[Min(Stops)]}
\* Where the probe stops, if it does: {} or one slot.
Landing(t, k) ==
  LET spot  == Path(t, k)
      Stops == {i \in DOMAIN spot : t.elements[spot[i]].key \in {EMPTY, k}}
  IN  IF Stops = {} THEN {} ELSE {spot[Min(Stops)]}

\* The entries E, a set of slots' contents, placed one after the other; the
\* order is that of the slots they come from, and cannot be told afterwards.
Placed(t, olds) ==
  FoldSet(LAMBDA i, u : [u EXCEPT !.elements[CHOOSE s \in Landing(u, olds[i].key) : TRUE] = olds[i]],
          t, {i \in DOMAIN olds : Live(olds[i])})

Cleared(t, n) ==
  [t EXCEPT !.elements = Blank(Max({Capacity(t), n})), !.size = 0, !.deleted = 0]

\* reserve: a table without entries is only resized, and what it held of
\* deleted slots stays, uncounted; any other is rebuilt without them.
Reserve(t, n) ==
  IF t.size = 0
  THEN [t EXCEPT !.elements = [i \in 0 .. n - 1 |-> IF i \in DOMAIN @ THEN @[i] ELSE Empty],
                 !.deleted = 0]
  ELSE [Placed(Cleared(t, n), t.elements) EXCEPT !.size = t.size]

Compacted(t) ==
  IF t.deleted # 0 /\ t.size + t.deleted = Capacity(t) THEN Reserve(t, Capacity(t)) ELSE t

Grown(t) ==
  IF ((t.size + 1) * 3) \div 2 >= Capacity(t) \div 2
  THEN Reserve(t, Max({DefaultCap, Capacity(t) * 2})) ELSE t

Hang(t) == [t EXCEPT !.hung = TRUE]

\* insert: the entry, unless the key is there already.
Inserted(t0, k, v) ==
  LET t == Grown(Compacted(t0))
      S == Landing(t, k)
      s == CHOOSE x \in S : TRUE
  IN  IF t0.hung THEN t0
      ELSE IF S = {} THEN Hang(t)
      ELSE IF Live(t.elements[s]) THEN t
      ELSE [t EXCEPT !.elements[s] = Entry(k, v), !.size = @ + 1]

\* What erase does with the slot of its key.
Vacated(t, s) ==
  IF t.size = 1 /\ t.deleted # 0 THEN Cleared(t, 0)
  ELSE [t EXCEPT !.elements[s] = Del, !.size = @ - 1, !.deleted = @ + 1]

----------------------------------------------------------------------------
Init ==
  table = [elements |-> Blank(0), size |-> 0, deleted |-> 0, hung |-> FALSE]

Insert(k, v) == table' = Inserted(table, k, v)

\* insert_range of two entries: room for both is made first.
InsertRange(k, v, k2, v2) ==
  LET Caps == Capacities \cup {Capacity(table)}
      Fits(c) == ((table.size + 2) * 3) \div 2 < c \div 2
      c == Min({x \in Caps : x >= Capacity(table) /\ Fits(x)})
      t == IF c # Capacity(table) THEN Reserve(table, c) ELSE table
  IN  table' = Inserted(Inserted(t, k, v), k2, v2)

\* index_or_insert, and an assignment through the reference it returns.
Index(k, v) ==
  LET t == Compacted(table)
      S == IF t.size # 0 THEN Landing(t, k) ELSE {}
      At(u) == {s \in LiveSlots(u) : u.elements[s].key = k}
      u == CASE t.size # 0 /\ S = {} -> Hang(t)
             [] S \cap At(t) # {} -> t
             [] OTHER -> Inserted(t, k, v)
  IN  table' = IF u.hung THEN u
               ELSE [u EXCEPT !.elements[CHOOSE s \in At(u) : TRUE] = Entry(k, v)]

Erase(k) ==
  LET S == Landing(table, k) IN
  /\ table.size # 0
  /\ table' = IF S = {} THEN Hang(table)
              ELSE IF Live(table.elements[CHOOSE s \in S : TRUE])
              THEN Vacated(table, CHOOSE s \in S : TRUE)
              ELSE table


\* erase of an iterator: the slot is known.
EraseIter(s) == table' = Vacated(table, s)

\* find: bounded, so that it ends with "not there" where the others hang.
Found(t, k) ==
  /\ t.size # 0
  /\ \E s \in Landing(t, k) : t.elements[s].key = k
FindMut == table' = Compacted(table)

Clear == table' = Cleared(table, 0)

Next ==
  /\ ~table.hung
  /\ \/ \E k \in Keys, v \in Values : Insert(k, v) \/ Index(k, v)
     \/ \E k, k2 \in Keys, v, v2 \in Values : InsertRange(k, v, k2, v2)
     \/ \E k \in Keys : Erase(k)
     \/ \E s \in LiveSlots(table) : EraseIter(s)
     \/ FindMut \/ Clear

Spec == Init /\ [][Next]_vars

----------------------------------------------------------------------------
Entries == [k \in {table.elements[i].key : i \in LiveSlots(table)} |->
              (CHOOSE e \in {table.elements[i] : i \in LiveSlots(table)} : e.key = k).val]

With(d, k, v) == [x \in DOMAIN d \cup {k} |-> IF x = k THEN v ELSE d[x]]

\* The table acts as the dictionary it stands for, whatever its history of
\* deleted slots and wherever it is rebuilt: an insert adds a key that is not
\* there and leaves one that is, indexing sets it, an erased key is gone, and
\* none of them touches another key.  A lookup finds the keys of the dictionary
\* and no others: no empty or deleted slot ends the probe on its way.
ActsAsDictionary == [][
  LET old == Entries new == Entries' IN
  \/ table'.hung
  \/ /\ \A k \in Keys, v \in Values :
          /\ Insert(k, v) => new = IF k \in DOMAIN old THEN old ELSE With(old, k, v)
          /\ Index(k, v) /\ ~Insert(k, v) => new = With(old, k, v)
     /\ \A k \in Keys : Erase(k) /\ ~Clear => new = [x \in DOMAIN old \ {k} |-> old[x]]
     /\ FindMut => new = old
     /\ \A k \in Keys : Found(table', k) <=> k \in DOMAIN new]_vars

=============================================================================
