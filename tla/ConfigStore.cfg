\* A value, or none, so that a stale secret can be told; two faults, and a key
\* more than that, so that one can always be generated; one edit, which makes a
\* file with a plain secret and a sealed one.
CONSTANTS
    Values = {v1}
    MaxKeys = 3
    MaxEdits = 1
    MaxFaults = 2
CHECK_DEADLOCK FALSE
SPECIFICATION FairSpec
INVARIANTS TypeOK SecretsAreKept
PROPERTIES GetsConnected NeverAllPlain SealedIsOpened
