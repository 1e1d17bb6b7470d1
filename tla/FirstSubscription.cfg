\* One connection, which is never lost.
CONSTANTS
    Main = main
    Watchdog = watchdog
    Handlers = {h1}
    MaxMissed = 1
    CleanSession = TRUE
    Action = "restart"
SPECIFICATION Spec
INVARIANT SettledMeansSubscribed
