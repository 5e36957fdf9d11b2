SPECIFICATION Spec
CONSTANTS
  N = 2
  Counts = {0, 1, 2}
INVARIANT SafeFromEither
