\* Two devices, so that one can starve the other; several registers each, so that
\* one of a poll can fail, and in the second device one that is not asked for;
\* bytes of one bit, so that every answer can be enumerated.
CONSTANTS
    Base = 2
    Setup <- SmallSetup
SPECIFICATION FairSpec
INVARIANTS TypeOK DecodedRight
PROPERTIES EveryTickIsServed DeadDeviceDropsOut LoopsEnd
CHECK_DEADLOCK FALSE
