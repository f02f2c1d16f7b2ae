CONSTANTS
  Slots <- TwoSlots
  DefaultOrder <- AThenB
  Attempts = 3
  MaxFaults = 1
SPECIFICATION FairSpec
INVARIANTS TypeOK AttemptsBounded
PROPERTY EverySlotTried
