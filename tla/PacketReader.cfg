\* A panic ends the process.
CHECK_DEADLOCK FALSE
SPECIFICATION Spec
CONSTANTS
  MaxItems = 2
  MaxNesting = 3
  Worlds = {w1, w2}
INVARIANTS InStep SkipsEverything KnowsAllWorlds
