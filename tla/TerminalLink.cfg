\* Two connections, so that a stale heartbeat, window or flag can meet a new
\* link; two messages, so that one can be overtaken.
CONSTANTS
    Reader = reader
    Workers = {w1}
    Beats = {b1, b2}
    MaxConns = 2
    MaxSeq = 3
    MaxInbound = 1
SPECIFICATION FairSpec
INVARIANTS TypeOK NumbersAreUnique ConnectedMeansAcked WindowIsOfThisConnection HeartbeatKeptUp SenderOrder
PROPERTIES ImplementsChannel RedialsAfterBreak HeartbeatsEnd
