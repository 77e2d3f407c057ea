SPECIFICATION Spec
CONSTANTS
  MaxResets = 1
INVARIANTS
  SpiUpWhenSleeping
