SPECIFICATION Spec
CONSTANTS
  Names = {a, b}
  Requests = {r}
  MaxTime = 2
INVARIANT RequestsHarmless
