SPECIFICATION QueueSpec
CONSTANTS
  MaxHeight = 3
  Sizes = {1, 2}
  Budget = 3
  MaxRebases = 2
CONSTRAINT RebaseBound
INVARIANTS
  BytesExact
