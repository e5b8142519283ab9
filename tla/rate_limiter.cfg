\* Two clients crowd a map of one; windows of two ticks; two requests in flight.
SPECIFICATION Spec
CONSTANTS
  Clients = {c1, c2}
  Slots = {s1, s2}
  Capacity = 1
  Window = 2
  Crowd = 1
  MaxTime = 5
  None = None
SYMMETRY LimiterSymmetry
INVARIANTS TypeOK BurstBounded
PROPERTIES RefusedForCause
