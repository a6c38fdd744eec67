\* The firmware's window of five samples on one connection, fair polling. 11 and
\* 256 leave the same remainder by five, so the index wraps as in the firmware.
CONSTANTS
    Conns = 1
    Sample <- NearFar
    ThresholdFar <- MinusFar
    ThresholdImm <- MinusImm
    Window = 5
    IdxMod = 11
    HoldTicks = 1
    LongPress = 3
    RunCap = 2
SPECIFICATION FairSpec
INVARIANT EvaluatesLastSamples
PROPERTIES OnlySteadyImmediateUnlocks UnlocksWhenNear LocksWhenAway
