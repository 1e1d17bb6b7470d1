\* Two PTYs: both of the id that is started again, or one of each id.
CONSTANTS
    Sessions = {s1, s2}
    Reused = {s1}
    MaxPtys = 2
SPECIFICATION FairSpec
INVARIANTS TypeOK EntriesAreServed ShellsStayReachable
PROPERTIES DeadSessionsLeave ClosedShellsDie NoticesUnlessBlocked
