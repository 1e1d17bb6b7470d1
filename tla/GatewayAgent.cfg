\* Two connections: the first, whose handler may find no client, and one that
\* follows a break.  One missed ping is enough for the watchdog to act in the one
\* window in which isConnected is false.
CONSTANTS
    Main = main
    Watchdog = watchdog
    Handlers = {h1, h2}
    MaxMissed = 1
    CleanSession = TRUE
    Action = "restart"
SPECIFICATION FairSpec
INVARIANTS TypeOK CrashesOnlyInShutdown OnlineWhileWaiting
PROPERTIES ReconnectSubscribes GetsOnline ShutdownCompletes
