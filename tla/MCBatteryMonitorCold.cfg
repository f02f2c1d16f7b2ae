CONSTANTS
  Temps <- AllTemps
  WakeTemps <- OnWaking
SPECIFICATION Spec
INVARIANT ColdIsHandled
