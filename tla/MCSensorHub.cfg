CONSTANTS
  Threads = {"main", "reader"}
  Ops <- MainAndReader
  DeviceZero = "acc"
  MaxFaults = 2
SPECIFICATION Spec
INVARIANTS TypeOK ReadSafe DeinitHonest InitRecovers
PROPERTY OwnDevice
