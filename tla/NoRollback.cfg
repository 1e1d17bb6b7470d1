\* The image that runs, one that does not, and one command.
CONSTANTS
    Images = {i1, bad}
    First = i1
    Works = {i1}
    MaxCommands = 1
    MaxFaults = 0
CHECK_DEADLOCK FALSE
SPECIFICATION FairSpec
PROPERTY RollsBack
