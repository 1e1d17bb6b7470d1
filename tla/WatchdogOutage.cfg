\* One connection and the most impatient watchdog.
CONSTANTS
    Main = main
    Watchdog = watchdog
    Handlers = {h1}
    MaxMissed = 1
    CleanSession = TRUE
    Action = "restart"
SPECIFICATION FairSpec
PROPERTY WatchdogCatchesOutage
