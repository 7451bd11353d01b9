------------------------------- MODULE FlatSet -------------------------------
(***************************************************************************)
(* The flat set (flat_unordered_set.rs): the algorithm of the flat map in  *)
(* a second copy, without values.  It holds the variables that a window is *)
(* to remove, the readings an index has seen and the tags of a format.     *)
(***************************************************************************)
EXTENDS FlatTable

\* The one value of the entries of a set.
Present == Min(Values)

SetInsert(k)         == Insert(k, Present)
SetInsertRange(k, l) == InsertRange(k, Present, l, Present)
SetErase(k)          == Erase(k)
SetEraseIter(i)      == EraseIter(i)
SetFindMut           == FindMut
SetClear             == Clear

SetNext ==
  /\ ~table.hung
  /\ \/ \E k \in Keys : SetInsert(k) \/ SetErase(k)
     \/ \E k, l \in Keys : SetInsertRange(k, l)
     \/ \E i \in LiveSlots(table) : SetEraseIter(i)
     \/ SetFindMut \/ SetClear
=============================================================================
