----------------------------- MODULE SortedVector -----------------------------
(***************************************************************************)
(* A vector kept sorted and used as a set (sorted_vector.rs): the tags of  *)
(* a reading, the variables a window prints, the processes it has started. *)
(***************************************************************************)
EXTENDS Integers, SequencesExt

CONSTANTS
  Elements,  \* the elements in play
  Ranges     \* the sequences inserted at a time, in any order and with repeats

VARIABLE elements
vars == <<elements>>

Smaller(s, t) == Cardinality({i \in DOMAIN s : s[i] < t})
\* The first position whose element is not below t; Len + 1 for none.
LowerBound(s, t) == 1 + Smaller(s, t)

\* find: the position of t, Len + 1 for an element that is not there.
Find(s, t) ==
  LET i == LowerBound(s, t) IN
  IF s = <<>> \/ Last(s) < t \/ t < s[1] \/ s[i] # t THEN Len(s) + 1 ELSE i

Inserted(s, t) == LET i == LowerBound(s, t) IN
  IF i <= Len(s) /\ s[i] = t THEN s ELSE InsertAt(s, i, t)
Erased(s, t) == IF Find(s, t) > Len(s) THEN s ELSE RemoveAt(s, Find(s, t))

\* Neighbours that are equal made one.
Dedup(s) == FoldLeft(LAMBDA r, e : IF r # <<>> /\ Last(r) = e THEN r ELSE Append(r, e), <<>>, s)

\* The range sorted, if it is not, and merged with what is there.
Merged(s, r) == SortSeq(s \o r, <)

InsertedRange(s, r) ==
  IF Len(r) = 1 THEN Inserted(s, r[1]) ELSE Dedup(Merged(s, r))

Init == elements = <<>>
Insert(t)      == elements' = Inserted(elements, t)
Erase(t)       == elements' = Erased(elements, t)
InsertRange(r) == elements' = InsertedRange(elements, r)
PopBack        == elements' = IF elements = <<>> THEN <<>> ELSE Front(elements)
Assign(r)      == elements' = InsertedRange(<<>>, r)

Next == PopBack \/ (\E t \in Elements : Insert(t) \/ Erase(t))
        \/ \E r \in Ranges : InsertRange(r) \/ Assign(r)
Spec == Init /\ [][Next]_vars

----------------------------------------------------------------------------
\* However it is filled, by single elements, by ranges in any order or from
\* the back, the vector is strictly ascending, without which every search in
\* it goes astray; and a search finds what is there, where it is.
SearchesAscend ==
  /\ \A i, j \in DOMAIN elements : i < j => elements[i] < elements[j]
  /\ \A t \in Elements : LET i == Find(elements, t) IN
       IF t \in ToSet(elements) THEN elements[i] = t ELSE i = Len(elements) + 1
=============================================================================
