CONSTANTS
  FlightCycles = 2
  SignalErrors = 0
  Retries = 1
  DialTries = 2
  Modes = 1
  DetachPolls = 2
  Fds = {0, 3}
  HasGps = TRUE
  Reinit = TRUE
  Restart = TRUE
SPECIFICATION Spec
INVARIANTS TypeOK StoppedIsQuiet OwnSocket
PROPERTIES NoLeakWhileRunning LifecycleSpec StopComesNearer
