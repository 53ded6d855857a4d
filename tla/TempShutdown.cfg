SPECIFICATION Spec
CONSTANTS
  Temps <- SomeTemps
INVARIANT ShutdownWorks
CHECK_DEADLOCK FALSE
