CONSTANTS
  Temps <- AroundLimits
  WakeTemps <- OnePerBand
SPECIFICATION Spec
INVARIANTS TypeOK WarmIsHandled CanWakeUp PowerDownCuts
