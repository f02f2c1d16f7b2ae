CONSTANT Rtc = TRUE
SPECIFICATION Spec
PROPERTY OnlyAskedCanWakes
