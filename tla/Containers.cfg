\* Two keys that collide in tables that start with 8 slots and grow to 16 and 32, so that
\* deleted slots fill them; the multiplier and increment of the probe are those
\* of the code modulo 32.  Intervals over five rule numbers of a width of six;
\* two slots that go round four generations.
CONSTANTS
  Keys = {1, 9}
  Values = {1, 2}
  HashMul = 5
  HashAdd = 27
  DefaultCap = 8
  Width = 6
  Num = {0, 1, 2, 3, 4}
  Generations = 4
  MaxObjects = 8
  MaxSlots = 2
SPECIFICATION MCSpec
INVARIANTS StaleHandlesCaught
PROPERTIES ActsAsDictionary ActsAsSet
\* An operation that hangs is the last one, and the arena runs out of objects.
CHECK_DEADLOCK FALSE
