CONSTANT Rtc = TRUE
SPECIFICATION Spec
INVARIANTS TypeOK DisabledAfterInit RequestHonoured
