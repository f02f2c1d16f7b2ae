CONSTANT Rtc = TRUE
SPECIFICATION Spec
INVARIANT RtcZeroDisables
