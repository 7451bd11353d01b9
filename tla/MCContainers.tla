---------------------------- MODULE MCContainers ----------------------------
(***************************************************************************)
(* The containers for TLC, one at a time: `subject` says which of them a   *)
(* behaviour is about, and the others stay as they start.                  *)
(***************************************************************************)
EXTENDS FlatSet, GenArena

CONSTANTS Width, Num   \* of the intervals

VARIABLES subject, vec, other, elements

vecVars == <<vec, other>>
mcVars  == <<subject, vars, vecVars, arenaVars, elements>>

Ranges == {<<2, 1>>, <<1, 3>>, <<3, 3, 2>>, <<2>>}

I == INSTANCE IntervalVector
V == INSTANCE SortedVector WITH Elements <- Num

MCInit ==
  /\ subject \in {"map", "set", "intervals", "arena", "sorted"}
  /\ Init /\ ArenaInit /\ V!Init /\ I!Init
  /\ subject # "intervals" => other = I!None

MCNext ==
  /\ UNCHANGED subject
  /\ \/ subject = "map" /\ Next /\ UNCHANGED <<vecVars, arenaVars, elements>>
     \/ subject = "set" /\ SetNext /\ UNCHANGED <<vecVars, arenaVars, elements>>
     \/ subject = "intervals" /\ I!Next /\ UNCHANGED <<vars, arenaVars, elements>>
     \/ subject = "arena" /\ ArenaNext /\ UNCHANGED <<vars, vecVars, elements>>
     \/ subject = "sorted" /\ V!Next /\ UNCHANGED <<vars, vecVars, arenaVars>>

MCSpec == MCInit /\ [][MCNext]_mcVars

\* The vectors act as sets.  Every operation on an interval vector does to its
\* members what it would do to a set, and its cursors meet them in order; a
\* sorted vector stays ascending and finds what it holds (IntervalVector,
\* SortedVector).
ActsAsSet == I!ActsAsSet /\ []I!WalksMembers /\ []V!SearchesAscend
=============================================================================
