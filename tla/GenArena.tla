------------------------------- MODULE GenArena -------------------------------
(***************************************************************************)
(* The slabs that hold windows, cohorts and readings (arena.rs), as a      *)
(* single user sees one who keeps every handle he was ever given, frees    *)
(* through any of them and looks up any of them.  A handle is a slot and   *)
(* the generation the slot had; generations wrap.                          *)
(***************************************************************************)
EXTENDS Integers, Sequences

CONSTANTS
  Generations,  \* 2^8 in the code
  MaxObjects,   \* bound: objects allocated in a run
  MaxSlots      \* bound: slots in use at a time, that is, live objects

ASSUME ArenaAssumption == {Generations, MaxObjects, MaxSlots} \subseteq Nat \ {0}

VARIABLES
  slots,   \* per slot the object in it, 0 for none; objects are numbered from 1
  gens,    \* per slot its generation
  free,    \* the slots to use again, the last one first
  handle,  \* ghost: per object the handle that was given out for it
  uses,    \* ghost: per object how many objects its slot had held before
  held     \* ghost: per slot how many objects it has held

arenaVars == <<slots, gens, free, handle, uses, held>>

None == 0
Next1 == Len(handle) + 1
Handle(i, g) == [slot |-> i, gen |-> g]

ArenaInit ==
  /\ slots = <<>> /\ gens = <<>> /\ free = <<>>
  /\ handle = <<>> /\ uses = <<>> /\ held = <<>>

\* check: the slot exists and has the generation of the handle.
Check(h) == h.slot \in DOMAIN slots /\ gens[h.slot] = h.gen
\* try_get: the object, or none for a handle that is known to be stale.
TryGet(h) == IF Check(h) THEN slots[h.slot] ELSE None

AllocReused ==
  LET i == free[Len(free)] IN
  /\ free # <<>> /\ Next1 <= MaxObjects
  /\ free' = SubSeq(free, 1, Len(free) - 1)
  /\ slots' = [slots EXCEPT ![i] = Next1]
  /\ handle' = Append(handle, Handle(i, gens[i]))
  /\ uses' = Append(uses, held[i])
  /\ held' = [held EXCEPT ![i] = @ + 1]
  /\ UNCHANGED gens

AllocNew ==
  LET i == Len(slots) + 1 IN
  /\ free = <<>> /\ i <= MaxSlots /\ Next1 <= MaxObjects
  /\ slots' = Append(slots, Next1)
  /\ gens' = Append(gens, 0)
  /\ handle' = Append(handle, Handle(i, 0))
  /\ uses' = Append(uses, 0)
  /\ held' = Append(held, 1)
  /\ UNCHANGED free

\* MUTANT of FreeSlot: the generation is bumped when the slot is used again,
\* not when it is freed, and a slot freed twice is twice on the list.
FreeSlotEarly(h) ==
  /\ Check(h)
  /\ slots' = [slots EXCEPT ![h.slot] = None]
  /\ gens' = [gens EXCEPT ![h.slot] = IF slots[h.slot] = None THEN (@ + 1) % Generations ELSE @]
  /\ free' = Append(free, h.slot)
  /\ UNCHANGED <<handle, uses, held>>
\* free_slot: a stale handle changes nothing.
FreeSlot(h) ==
  /\ TryGet(h) # None
  /\ slots' = [slots EXCEPT ![h.slot] = None]
  /\ gens' = [gens EXCEPT ![h.slot] = (@ + 1) % Generations]
  /\ free' = Append(free, h.slot)
  /\ UNCHANGED <<handle, uses, held>>

ArenaNext == AllocReused \/ AllocNew \/ \E o \in DOMAIN handle : FreeSlot(handle[o])

ArenaSpec == ArenaInit /\ [][ArenaNext]_arenaVars

----------------------------------------------------------------------------

\* The free list is exactly the empty slots, each once: no object is put into
\* a slot that another one has, however often a handle is freed again.
FreeListExact ==
  /\ \A i, j \in DOMAIN free : free[i] = free[j] => i = j
  /\ {free[i] : i \in DOMAIN free} = {i \in DOMAIN slots : slots[i] = None}

\* A handle leads to its own object, or is known to be stale, or its slot has
\* been given to as many later objects as there are generations, or twice
\* that: only then can a stale handle be taken for a valid one.
AliasOnlyAfterWrap ==
  \A o \in DOMAIN handle : LET p == TryGet(handle[o]) IN
    p \notin {None, o} => uses[p] > uses[o] /\ (uses[p] - uses[o]) % Generations = 0

\* An object that lives is reached through its handle.
LiveIsReached == \A i \in DOMAIN slots : slots[i] # None => TryGet(handle[slots[i]]) = slots[i]

\* A stale handle is taken for valid only after the generations of its slot
\* have gone round, and the free list never hands out a slot in use.
StaleHandlesCaught == AliasOnlyAfterWrap /\ FreeListExact /\ LiveIsReached
=============================================================================
