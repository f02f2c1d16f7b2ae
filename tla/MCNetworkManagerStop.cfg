CONSTANTS
  FlightCycles = 1
  SignalErrors = 0
  Retries = 0
  DialTries = 2
  Modes = 1
  DetachPolls = 3
  Fds = {0, 3, 4}
  HasGps = FALSE
  Reinit = FALSE
  Restart = FALSE
SPECIFICATION FairSpec
INVARIANT GateSound
 
