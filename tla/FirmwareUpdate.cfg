\* Two images that run and one that does not; three commands, so that an update
\* meets the restart of the one before it; two faults.
CONSTANTS
    Images = {i1, i2, bad}
    First = i1
    Works = {i1, i2}
    MaxCommands = 3
    MaxFaults = 2
CHECK_DEADLOCK FALSE
SPECIFICATION FairSpec
INVARIANTS TypeOK AWayBack
PROPERTIES ImplementsInstallation RestartsIntoIt
