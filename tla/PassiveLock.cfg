\* Two connections in two zones; each sample is evaluated by itself, since how the
\* window smooths the samples does not matter here.
CONSTANTS
    Conns = 2
    Sample <- NearFar
    ThresholdFar <- MinusFar
    ThresholdImm <- MinusImm
    Window = 1
    IdxMod = 2
    HoldTicks = 1
    LongPress = 3
    RunCap = 2
SPECIFICATION Spec
INVARIANTS PassiveTypeOK LedShowsLock
PROPERTY OnlySteadyImmediateUnlocks
