---------------------------- MODULE IntervalVector ----------------------------
(***************************************************************************)
(* Sets of rule numbers kept as disjoint intervals (interval_vector.rs):   *)
(* the rules of a grammar by set and by tag, those valid for a window, and *)
(* the intersection the schedule walks over while rules are added to it.   *)
(* Numbers are of a fixed width and wrap.                                  *)
(***************************************************************************)
EXTENDS Integers, SequencesExt

CONSTANTS
  Width,   \* numbers are 0 .. Width - 1
  Num      \* the rule numbers in play, below Width - 1: no rule has the number
           \* of all ones, which with 0 would make one interval of the two ends

VARIABLES
  vec,    \* [elements, size], elements a sequence of [lb, ub]
  other   \* one that it is intersected with

vars == <<vec, other>>

Up(t)   == (t + 1) % Width
Down(t) == (t - 1) % Width
One(t)  == [lb |-> t, ub |-> t]

Members(v) == UNION {v.elements[i].lb .. v.elements[i].ub : i \in DOMAIN v.elements}

\* The index of the first interval that does not end before t.
LowerIdx(v, t) == 1 + Cardinality({i \in DOMAIN v.elements : v.elements[i].ub < t})
Holds(v, t) == LET i == LowerIdx(v, t)
               IN  i \in DOMAIN v.elements /\ v.elements[i].lb <= t

\* An insert that lands in the first interval, or in none, leaves the counter
\* alone.
InsertFirst(v, t) ==
  LET e == v.elements[1] IN
  CASE Up(e.ub) = t   -> [v EXCEPT !.elements[1].ub = t]
    [] Down(e.lb) = t -> [v EXCEPT !.elements[1].lb = t]
    [] OTHER          -> [v EXCEPT !.elements = <<One(t)>> \o @]

\* Joins interval i with the one after it when they touch.
JoinAt(v, i) ==
  IF i + 1 \in DOMAIN v.elements /\ Up(v.elements[i].ub) = v.elements[i + 1].lb
  THEN [v EXCEPT !.elements = RemoveAt([@ EXCEPT ![i].ub = v.elements[i + 1].ub], i + 1)]
  ELSE v

InsertLater(v, t, i) ==
  LET w == CASE Up(v.elements[i - 1].ub) = t -> JoinAt([v EXCEPT !.elements[i - 1].ub = t], i - 1)
             [] i \in DOMAIN v.elements /\ v.elements[i].lb = Up(t) ->
                  JoinAt([v EXCEPT !.elements[i].lb = t], i - 1)
             [] OTHER -> [v EXCEPT !.elements = InsertAt(@, i, One(t))]
  IN  [w EXCEPT !.size = (@ + 1) % Width]

\* MUTANT of Inserted: a number below the first interval is taken to extend it.
InsertedSloppy(v, t) ==
  LET i == LowerIdx(v, t) IN
  CASE v.elements = <<>> -> [v EXCEPT !.elements = <<One(t)>>]
    [] Holds(v, t)       -> v
    [] i = 1             -> [v EXCEPT !.elements[1].lb = t]
    [] OTHER             -> InsertLater(v, t, i)
Inserted(v, t) ==
  LET i == LowerIdx(v, t) IN
  CASE v.elements = <<>> -> [v EXCEPT !.elements = <<One(t)>>]
    [] Holds(v, t)       -> v
    [] i = 1             -> InsertFirst(v, t)
    [] OTHER             -> InsertLater(v, t, i)

Shrunk(v, t) ==
  LET i == LowerIdx(v, t)
      e == v.elements[i]
  IN  CASE e = One(t)  -> [v EXCEPT !.elements = RemoveAt(@, i)]
        [] e.ub = t    -> [v EXCEPT !.elements[i].ub = Down(t)]
        [] e.lb = t    -> [v EXCEPT !.elements[i].lb = Up(t)]
        [] OTHER       -> [v EXCEPT !.elements =
                             InsertAt([@ EXCEPT ![i].ub = Down(t)], i + 1, [lb |-> Up(t), ub |-> e.ub])]

Erased(v, t) == IF Holds(v, t) THEN [Shrunk(v, t) EXCEPT !.size = (@ - 1) % Width] ELSE v

\* The overlaps of the intervals of two vectors, in order; one that touches
\* the last found is joined to it.
Overlaps(v, w) ==
  {[lb |-> Max({d.lb, e.lb}), ub |-> Min({d.ub, e.ub})] :
     d \in ToSet(v.elements), e \in ToSet(w.elements)}
Join(es, e) == IF es # <<>> /\ Up(Last(es).ub) = e.lb
               THEN [es EXCEPT ![Len(es)].ub = e.ub] ELSE Append(es, e)
Intersection(v, w) ==
  LET O  == {e \in Overlaps(v, w) : e.lb <= e.ub}
      At == [n \in 1 .. Cardinality(O) |->
               CHOOSE e \in O : Cardinality({d \in O : d.lb < e.lb}) = n - 1]
  IN  [elements |-> FoldLeft(Join, <<>>, At),
       size     |-> FoldSet(LAMBDA e, n : (n + e.ub - e.lb + 1) % Width, 0, O)]

----------------------------------------------------------------------------
\* A cursor is [it, t]: the interval it is in, and the number it is at; the
\* end is [Len + 1, 0].
End(v)   == [it |-> Len(v.elements) + 1, t |-> 0]
Begin(v) == IF v.elements = <<>> THEN End(v) ELSE [it |-> 1, t |-> v.elements[1].lb]

Advance(v, c) ==
  IF c.it > Len(v.elements) THEN End(v)
  ELSE IF c.t # v.elements[c.it].ub THEN [c EXCEPT !.t = Up(@)]
  ELSE IF c.it = Len(v.elements) THEN End(v)
  ELSE [it |-> c.it + 1, t |-> v.elements[c.it + 1].lb]

Retreat(v, c) ==
  IF c.it <= Len(v.elements) /\ c.t # v.elements[c.it].lb THEN [c EXCEPT !.t = Down(@)]
  ELSE IF c.it = 1 THEN End(v)
  ELSE [it |-> c.it - 1, t |-> v.elements[c.it - 1].ub]

\* lower_bound: the first member that is not below t.
LowerBound(v, t) ==
  LET i == LowerIdx(v, t) IN
  IF i > Len(v.elements) THEN End(v) ELSE [it |-> i, t |-> Max({v.elements[i].lb, t})]

Find(v, t) == IF Holds(v, t) THEN [it |-> LowerIdx(v, t), t |-> t] ELSE End(v)

\* The numbers a walk from the first to the end meets.
Walk(v) == LET n == Cardinality(Members(v))
               c[i \in 0 .. n] == IF i = 0 THEN Begin(v) ELSE Advance(v, c[i - 1])
           IN  [i \in 1 .. n + 1 |-> c[i - 1]]

----------------------------------------------------------------------------
None == [elements |-> <<>>, size |-> 0]
\* from_range, of the members of a set.
FromRange(S) == FoldSet(LAMBDA t, v : Inserted(v, t), None, S)

Init == vec = None /\ other \in {FromRange(S) : S \in SUBSET Num}

Insert(t) == vec' = Inserted(vec, t) /\ UNCHANGED other
Erase(t)  == vec' = Erased(vec, t) /\ UNCHANGED other
Intersect == vec' = Intersection(vec, other) /\ UNCHANGED other
Clear     == vec' = None /\ UNCHANGED other

Next == Clear \/ Intersect \/ \E t \in Num : Insert(t) \/ Erase(t)

Spec == Init /\ [][Next]_vars

----------------------------------------------------------------------------

\* Every operation does to the members what it would do to a set, across the
\* joins and splits of intervals and where the numbers wrap.
ActsAsSet == [][
  /\ \A t \in Num : Insert(t) => Members(vec') = Members(vec) \cup {t}
  /\ \A t \in Num : Erase(t) /\ ~Insert(t) => Members(vec') = Members(vec) \ {t}
  /\ Intersect /\ ~Clear => Members(vec') = Members(vec) \cap Members(other)]_vars

\* A walk forward meets every member once, in order; a step back undoes a step
\* forward; a search stops at the member it names or the next one.
WalksMembers ==
  LET w == Walk(vec) M == Members(vec) IN
  /\ w[Len(w)] = End(vec) /\ {w[i].t : i \in 1 .. Len(w) - 1} = M
  /\ \A i \in 2 .. Len(w) - 1 : w[i - 1].t < w[i].t /\ Retreat(vec, w[i]) = w[i - 1]
  /\ \A t \in Num : LET Above == {m \in M : m >= t} IN
       /\ (Find(vec, t) # End(vec)) <=> t \in M
       /\ LowerBound(vec, t) = IF Above = {} THEN End(vec) ELSE Find(vec, Min(Above))
=============================================================================
