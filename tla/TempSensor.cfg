SPECIFICATION FairSpec
CONSTANTS
  Temps <- SomeTemps
INVARIANTS ReadingTrue CtrlTrue BusFree ConversionRight
PROPERTIES ConfigKept RoutinesEnd
CHECK_DEADLOCK FALSE
