CONSTANTS
  Procs = {p, q}
  Ids = {1, 2}
  Suffixes = {1}
  MaxPuts = 2
  None = None
SPECIFICATION Spec
INVARIANTS NothingLost GateSees
SYMMETRY Symmetry
