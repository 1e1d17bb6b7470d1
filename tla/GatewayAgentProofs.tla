------------------------- MODULE GatewayAgentProofs -------------------------
(***************************************************************************)
(* Proofs about GatewayAgent, for any number of connections and any number *)
(* of missed pings: its types, that the watchdog's unlocked reads of       *)
(* mqttClient cannot end a process that has not been told to shut down,    *)
(* that a handler with a client leaves its connection subscribed, and that *)
(* the status reads ONLINE while main waits.                               *)
(*                                                                         *)
(* The types alone are not inductive: that missed stays within its bound   *)
(* rests on the watchdog being past its count only when it acts (DogInv).  *)
(* The crash needs to know who still holds the client: from mqttConnect's  *)
(* return until main's cleanup it is set (ClientInv). The subscription     *)
(* needs that the client is not given up before its connection is closed   *)
(* (SubscribeInv), the status that until the signal nobody publishes or    *)
(* stores anything but ONLINE (OnlineInv).                                 *)
(***************************************************************************)
EXTENDS GatewayAgent, TLAPS

DogInv ==
    /\ wd \in {"wait", "ask"} => missed < MaxMissed
    /\ wd \in {"off", "send"} => missed = 0

ClientInv ==
    /\ main \in {"start", "hello", "wait", "bye", "drain", "closing"} => client
    /\ main \in {"bye", "drain", "closing", "cleanup"} => signalled
    /\ main \in {"connect", "start"} => wd = "off"
    /\ CrashesOnlyInShutdown

Flags == /\ signalled \in BOOLEAN /\ client \in BOOLEAN
         /\ opened \in BOOLEAN /\ losing \in BOOLEAN /\ flag \in BOOLEAN
         /\ subscribed \in BOOLEAN /\ grace \in BOOLEAN

States ==
    /\ main \in {"connect", "start", "hello", "wait", "bye", "drain", "closing",
                 "cleanup"} \cup Ends
    /\ link \in {"connecting", "up", "reconnecting", "closed"}
    /\ handler \in [Handlers -> {"unborn", "flag", "subscribe", "status", "done"}]
    /\ knew \in SUBSET Handlers
    /\ retained \in {"none", "ONLINE", "OFFLINE"}
    /\ pending \in SUBSET {"ONLINE", "OFFLINE"}
    /\ tries \in [Senders -> 0..2]
    /\ wd \in {"off", "wait", "ask", "send", "act", "gone"}
    /\ missed \in 0..MaxMissed

AgentInv == TypeOK /\ DogInv /\ ClientInv

\* The broker knows what to send to a connection that a handler with a client
\* serves, or a handler is still on its way to subscribe: no handler of an
\* earlier connection takes the subscription of a later one for its own.
KnownAreSubscribed ==
    link = "up" /\ knew # {} =>
        subscribed \/ \E h \in knew : handler[h] \in {"flag", "subscribe"}

\* A handler knows the client only in a process that still has it, and main
\* gives it up on a closed connection.
SubscribeInv ==
    /\ main = "closing" => link = "closed"
    /\ knew # {} => client \/ link = "closed"
    /\ KnownAreSubscribed

Working == {"connect", "start", "hello", "wait"}

\* Until its signal a process stores nothing but ONLINE, main has reported
\* before it waits, and paho's store is empty on an open connection.
OnlineInv ==
    /\ main \in Working => pending \subseteq {"ONLINE"}
    /\ main \in Working \cup {"bye", "drain"} => link # "closed"
    /\ main = "wait" => retained = "ONLINE" \/ "ONLINE" \in pending
    /\ link = "up" => pending = {}

-----------------------------------------------------------------------------
(* What the shared pieces of the actions may do to their variables *)

BrokerTypes == /\ retained' \in {"none", "ONLINE", "OFFLINE"}
               /\ pending' \in SUBSET {"ONLINE", "OFFLINE"}
               /\ subscribed' \in BOOLEAN

LEMMA AttemptTypes ==
    ASSUME TypeOK, NEW a \in Senders, NEW s \in {"ONLINE", "OFFLINE"}, Attempt(a, s)
    PROVE  BrokerTypes /\ tries' \in [Senders -> 0..2]
<1>1. CASE Publish(s) /\ tries' = [tries EXCEPT ![a] = 0]
  <2>1. tries' \in [Senders -> 0..2]
    BY <1>1 DEF TypeOK
  <2>2. subscribed' \in BOOLEAN
    BY <1>1, Zenon DEF Publish, TypeOK
  <2>3. retained' \in {"none", "ONLINE", "OFFLINE"}
    BY <1>1, Zenon DEF Publish, TypeOK
  <2>4. pending' = pending \/ pending' = pending \cup {s}
    BY <1>1, Zenon DEF Publish
  <2>5. pending' \in SUBSET {"ONLINE", "OFFLINE"}
    BY <2>4 DEF TypeOK
  <2> QED BY <2>1, <2>2, <2>3, <2>5 DEF BrokerTypes
<1>2. CASE tries' = [tries EXCEPT ![a] = (@ + 1) % 3] /\ UNCHANGED brokerVars
  <2>1. (tries[a] + 1) % 3 \in 0..2
    BY DEF TypeOK
  <2>2. tries' \in [Senders -> 0..2]
    BY <1>2, <2>1 DEF TypeOK
  <2>3. BrokerTypes
    BY <1>2, Zenon DEF BrokerTypes, TypeOK, brokerVars
  <2> QED BY <2>2, <2>3
<1> QED BY <1>1, <1>2 DEF Attempt

LEMMA JudgeTypes ==
    ASSUME TypeOK, missed < MaxMissed, NEW c, Judge(c)
    PROVE  /\ wd' \in {"wait", "send", "act"} /\ missed' \in 0..MaxMissed
           /\ DogInv'
<1>1. MaxMissed \in Nat \ {0} /\ missed \in 0..MaxMissed
  BY AgentAssumption DEF TypeOK
<1>2. CASE missed' = 0 /\ wd' = "send"
  BY <1>1, <1>2 DEF DogInv
<1>3. CASE missed' = missed + 1 /\ wd' = IF missed + 1 >= MaxMissed THEN "act" ELSE "wait"
  BY <1>1, <1>3 DEF DogInv
<1> QED BY <1>2, <1>3, Zenon DEF Judge

LEMMA MainStates ==
    ASSUME TypeOK
    PROVE  main \in {"connect", "start", "hello", "wait", "bye", "drain", "closing",
                     "cleanup"} \cup Ends
BY Zenon DEF TypeOK

-----------------------------------------------------------------------------
(* The invariant *)

LEMMA AgentInit == Init => AgentInv
<1> SUFFICES ASSUME Init PROVE AgentInv
  OBVIOUS
<1>1. /\ signalled \in BOOLEAN /\ client \in BOOLEAN
      /\ opened \in BOOLEAN /\ losing \in BOOLEAN /\ flag \in BOOLEAN
      /\ subscribed \in BOOLEAN /\ grace \in BOOLEAN
  BY Zenon DEF Init
<1>2. main = "connect" /\ wd = "off" /\ missed = 0 /\ link = "connecting"
      /\ knew = {} /\ pending = {} /\ retained \in {"none", "ONLINE", "OFFLINE"}
  BY Zenon DEF Init
<1>3. /\ handler \in [Handlers -> {"unborn", "flag", "subscribe", "status", "done"}]
      /\ tries \in [Senders -> 0..2]
  BY DEF Init
<1>4. TypeOK
  BY <1>1, <1>2, <1>3, AgentAssumption DEF TypeOK
<1> QED BY <1>2, <1>4 DEF AgentInv, DogInv, ClientInv, CrashesOnlyInShutdown

LEMMA AgentStep ==
    ASSUME AgentInv, [Next]_vars
    PROVE  AgentInv'
<1>0. TypeOK /\ DogInv /\ ClientInv /\ Main \in Senders /\ Watchdog \in Senders
      /\ Handlers \subseteq Senders /\ MaxMissed \in Nat \ {0}
  BY AgentAssumption DEF AgentInv, Senders
<1> USE DEF procVars, pahoVars, hookVars, brokerVars, dogVars, Ends, Alive
<1>1. CASE ConnectReturns
  <2>1. Flags'
    BY <1>0, <1>1, Zenon DEF ConnectReturns, Flags, TypeOK
  <2>2. States'
    BY <1>0, <1>1, Zenon DEF ConnectReturns, States, TypeOK
  <2>3. DogInv'
    BY <1>0, <1>1 DEF ConnectReturns, DogInv
  <2>4. ClientInv'
    BY <1>0, <1>1 DEF ConnectReturns, ClientInv, CrashesOnlyInShutdown
  <2> QED BY <2>1, <2>2, <2>3, <2>4 DEF AgentInv, Flags, States, TypeOK
<1>2. CASE ConnectTimesOut
  <2>1. Flags'
    BY <1>0, <1>2, Zenon DEF ConnectTimesOut, Flags, TypeOK
  <2>2. States'
    BY <1>0, <1>2, Zenon DEF ConnectTimesOut, States, TypeOK
  <2>3. DogInv'
    BY <1>0, <1>2 DEF ConnectTimesOut, DogInv
  <2>4. ClientInv'
    BY <1>0, <1>2 DEF ConnectTimesOut, ClientInv, CrashesOnlyInShutdown
  <2> QED BY <2>1, <2>2, <2>3, <2>4 DEF AgentInv, Flags, States, TypeOK
<1>3. CASE StartLoops
  <2>1. Flags'
    BY <1>0, <1>3, Zenon DEF StartLoops, Flags, TypeOK
  <2>2. States'
    BY <1>0, <1>3, Zenon DEF StartLoops, States, TypeOK
  <2>3. DogInv'
    BY <1>0, <1>3 DEF StartLoops, DogInv, ClientInv
  <2>4. ClientInv'
    BY <1>0, <1>3 DEF StartLoops, ClientInv, CrashesOnlyInShutdown
  <2> QED BY <2>1, <2>2, <2>3, <2>4 DEF AgentInv, Flags, States, TypeOK
<1>4. CASE Signal
  <2>1. Flags'
    BY <1>0, <1>4, Zenon DEF Signal, Flags, TypeOK
  <2>2. States'
    BY <1>0, <1>4, Zenon DEF Signal, States, TypeOK
  <2>3. DogInv'
    BY <1>0, <1>4 DEF Signal, DogInv
  <2>4. ClientInv'
    BY <1>0, <1>4 DEF Signal, ClientInv, CrashesOnlyInShutdown
  <2> QED BY <2>1, <2>2, <2>3, <2>4 DEF AgentInv, Flags, States, TypeOK
<1>5. CASE Disconnect
  <2>1. Flags'
    BY <1>0, <1>5, Zenon DEF Disconnect, Flags, TypeOK
  <2>2. States'
    BY <1>0, <1>5, Zenon DEF Disconnect, States, TypeOK
  <2>3. DogInv'
    BY <1>0, <1>5 DEF Disconnect, DogInv
  <2>4. ClientInv'
    BY <1>0, <1>5 DEF Disconnect, ClientInv, CrashesOnlyInShutdown
  <2> QED BY <2>1, <2>2, <2>3, <2>4 DEF AgentInv, Flags, States, TypeOK
<1>6. CASE DropClient
  <2>1. Flags'
    BY <1>0, <1>6, Zenon DEF DropClient, Flags, TypeOK
  <2>2. States'
    BY <1>0, <1>6, Zenon DEF DropClient, States, TypeOK
  <2>3. DogInv'
    BY <1>0, <1>6 DEF DropClient, DogInv
  <2>4. ClientInv'
    BY <1>0, <1>6 DEF DropClient, ClientInv, CrashesOnlyInShutdown
  <2> QED BY <2>1, <2>2, <2>3, <2>4 DEF AgentInv, Flags, States, TypeOK
<1>7. CASE Exit
  <2>1. Flags'
    BY <1>0, <1>7, Zenon DEF Exit, Flags, TypeOK
  <2>2. States'
    BY <1>0, <1>7, Zenon DEF Exit, States, TypeOK
  <2>3. DogInv'
    BY <1>0, <1>7 DEF Exit, DogInv
  <2>4. ClientInv'
    BY <1>0, <1>7 DEF Exit, ClientInv, CrashesOnlyInShutdown
  <2> QED BY <2>1, <2>2, <2>3, <2>4 DEF AgentInv, Flags, States, TypeOK
<1>8. CASE LinkBreaks
  <2>1. Flags'
    BY <1>0, <1>8, Zenon DEF LinkBreaks, Flags, TypeOK
  <2>2. States'
    BY <1>0, <1>8, Zenon DEF LinkBreaks, States, TypeOK
  <2>3. DogInv'
    BY <1>0, <1>8 DEF LinkBreaks, DogInv
  <2>4. ClientInv'
    BY <1>0, <1>8 DEF LinkBreaks, ClientInv, CrashesOnlyInShutdown
  <2> QED BY <2>1, <2>2, <2>3, <2>4 DEF AgentInv, Flags, States, TypeOK
<1>9. CASE NoticeLoss
  <2>1. Flags'
    BY <1>0, <1>9, Zenon DEF NoticeLoss, Flags, TypeOK
  <2>2. States'
    BY <1>0, <1>9, Zenon DEF NoticeLoss, States, TypeOK
  <2>3. DogInv'
    BY <1>0, <1>9 DEF NoticeLoss, DogInv
  <2>4. ClientInv'
    BY <1>0, <1>9 DEF NoticeLoss, ClientInv, CrashesOnlyInShutdown
  <2> QED BY <2>1, <2>2, <2>3, <2>4 DEF AgentInv, Flags, States, TypeOK
<1>10. CASE GraceEnds
  <2>1. Flags'
    BY <1>0, <1>10, Zenon DEF GraceEnds, Flags, TypeOK
  <2>2. States'
    BY <1>0, <1>10, Zenon DEF GraceEnds, States, TypeOK
  <2>3. DogInv'
    BY <1>0, <1>10 DEF GraceEnds, DogInv
  <2>4. ClientInv'
    BY <1>0, <1>10 DEF GraceEnds, ClientInv, CrashesOnlyInShutdown
  <2> QED BY <2>1, <2>2, <2>3, <2>4 DEF AgentInv, Flags, States, TypeOK
<1>11. CASE DogStops
  <2>1. Flags'
    BY <1>0, <1>11, Zenon DEF DogStops, Flags, TypeOK
  <2>2. States'
    BY <1>0, <1>11, Zenon DEF DogStops, States, TypeOK
  <2>3. DogInv'
    BY <1>0, <1>11 DEF DogStops, DogInv
  <2>4. ClientInv'
    BY <1>0, <1>11 DEF DogStops, ClientInv, CrashesOnlyInShutdown
  <2> QED BY <2>1, <2>2, <2>3, <2>4 DEF AgentInv, Flags, States, TypeOK
<1>12. CASE DogCrashes
  <2>1. Flags'
    BY <1>0, <1>12, Zenon DEF DogCrashes, Flags, TypeOK
  <2>2. States'
    BY <1>0, <1>12, Zenon DEF DogCrashes, States, TypeOK
  <2>3. DogInv'
    BY <1>0, <1>12 DEF DogCrashes, DogInv
  <2>4. ClientInv'
    BY <1>0, <1>12, MainStates DEF DogCrashes, ClientInv, CrashesOnlyInShutdown
  <2> QED BY <2>1, <2>2, <2>3, <2>4 DEF AgentInv, Flags, States, TypeOK
<1>13. CASE DogActs
  <2>1. Flags'
    BY <1>0, <1>13, Zenon DEF DogActs, Flags, TypeOK
  <2>2. States'
    BY <1>0, <1>13, Zenon DEF DogActs, States, TypeOK
  <2>3. DogInv'
    BY <1>0, <1>13 DEF DogActs, DogInv
  <2>4. ClientInv'
    BY <1>0, <1>13 DEF DogActs, ClientInv, CrashesOnlyInShutdown
  <2> QED BY <2>1, <2>2, <2>3, <2>4 DEF AgentInv, Flags, States, TypeOK
<1>14. ASSUME NEW h \in Handlers, HandlerFlags(h) PROVE AgentInv'
  <2>0. handler' \in [Handlers -> {"unborn", "flag", "subscribe", "status", "done"}]
    BY <1>0, <1>14 DEF HandlerFlags, TypeOK
  <2>1. Flags'
    BY <1>0, <1>14, <2>0, Zenon DEF HandlerFlags, Flags, TypeOK
  <2>2. States'
    BY <1>0, <1>14, <2>0, Zenon DEF HandlerFlags, States, TypeOK
  <2>3. DogInv'
    BY <1>0, <1>14, <2>0 DEF HandlerFlags, DogInv
  <2>4. ClientInv'
    BY <1>0, <1>14 DEF HandlerFlags, ClientInv, CrashesOnlyInShutdown
  <2> QED BY <2>1, <2>2, <2>3, <2>4 DEF AgentInv, Flags, States, TypeOK
<1>15. ASSUME NEW h \in Handlers, HandlerSubscribes(h) PROVE AgentInv'
  <2>0. handler' \in [Handlers -> {"unborn", "flag", "subscribe", "status", "done"}]
    BY <1>0, <1>15 DEF HandlerSubscribes, TypeOK
  <2>1. Flags'
    BY <1>0, <1>15, <2>0, Zenon DEF HandlerSubscribes, Flags, TypeOK
  <2>2. States'
    BY <1>0, <1>15, <2>0, Zenon DEF HandlerSubscribes, States, TypeOK
  <2>3. DogInv'
    BY <1>0, <1>15, <2>0 DEF HandlerSubscribes, DogInv
  <2>4. ClientInv'
    BY <1>0, <1>15 DEF HandlerSubscribes, ClientInv, CrashesOnlyInShutdown
  <2> QED BY <2>1, <2>2, <2>3, <2>4 DEF AgentInv, Flags, States, TypeOK
<1>16. CASE SayOnline
  <2>0. BrokerTypes /\ tries' \in [Senders -> 0..2]
    BY <1>0, <1>16, AttemptTypes DEF SayOnline
  <2>1. Flags'
    BY <1>0, <1>16, <2>0, Zenon DEF SayOnline, Flags, TypeOK, BrokerTypes
  <2>2. States'
    BY <1>0, <1>16, <2>0, Zenon DEF SayOnline, States, TypeOK, BrokerTypes
  <2>3. DogInv'
    BY <1>0, <1>16, <2>0 DEF SayOnline, DogInv, BrokerTypes
  <2>4. ClientInv'
    BY <1>0, <1>16 DEF SayOnline, ClientInv, CrashesOnlyInShutdown
  <2> QED BY <2>1, <2>2, <2>3, <2>4 DEF AgentInv, Flags, States, TypeOK
<1>17. CASE SayOffline
  <2>0. BrokerTypes /\ tries' \in [Senders -> 0..2]
    BY <1>0, <1>17, AttemptTypes DEF SayOffline
  <2>1. Flags'
    BY <1>0, <1>17, <2>0, Zenon DEF SayOffline, Flags, TypeOK, BrokerTypes
  <2>2. States'
    BY <1>0, <1>17, <2>0, Zenon DEF SayOffline, States, TypeOK, BrokerTypes
  <2>3. DogInv'
    BY <1>0, <1>17, <2>0 DEF SayOffline, DogInv, BrokerTypes
  <2>4. ClientInv'
    BY <1>0, <1>17 DEF SayOffline, ClientInv, CrashesOnlyInShutdown
  <2> QED BY <2>1, <2>2, <2>3, <2>4 DEF AgentInv, Flags, States, TypeOK
<1>18. ASSUME NEW h \in Handlers, HandlerReports(h) PROVE AgentInv'
  <2>0. BrokerTypes /\ tries' \in [Senders -> 0..2]
    BY <1>0, <1>18, AttemptTypes DEF HandlerReports
  <2>9. handler' \in [Handlers -> {"unborn", "flag", "subscribe", "status", "done"}]
    BY <1>0, <1>18 DEF HandlerReports, TypeOK
  <2>1. Flags'
    BY <1>0, <1>18, <2>0, <2>9, Zenon DEF HandlerReports, Flags, TypeOK, BrokerTypes
  <2>2. States'
    BY <1>0, <1>18, <2>0, <2>9, Zenon DEF HandlerReports, States, TypeOK, BrokerTypes
  <2>3. DogInv'
    BY <1>0, <1>18, <2>0, <2>9 DEF HandlerReports, DogInv, BrokerTypes
  <2>4. ClientInv'
    BY <1>0, <1>18 DEF HandlerReports, ClientInv, CrashesOnlyInShutdown
  <2> QED BY <2>1, <2>2, <2>3, <2>4 DEF AgentInv, Flags, States, TypeOK
<1>19. CASE DogReports
  <2>0. BrokerTypes /\ tries' \in [Senders -> 0..2]
    BY <1>0, <1>19, AttemptTypes DEF DogReports
  <2>1. Flags'
    BY <1>0, <1>19, <2>0, Zenon DEF DogReports, Flags, TypeOK, BrokerTypes
  <2>2. States'
    BY <1>0, <1>19, <2>0, Zenon DEF DogReports, States, TypeOK, BrokerTypes
  <2>3. DogInv'
    BY <1>0, <1>19, <2>0 DEF DogReports, DogInv, BrokerTypes
  <2>4. ClientInv'
    BY <1>0, <1>19 DEF DogReports, ClientInv, CrashesOnlyInShutdown
  <2> QED BY <2>1, <2>2, <2>3, <2>4 DEF AgentInv, Flags, States, TypeOK
<1>20. CASE BrokerAccepts
  <2>0. /\ handler' \in [Handlers -> {"unborn", "flag", "subscribe", "status", "done"}]
        /\ knew' \in SUBSET Handlers
    BY <1>0, <1>20 DEF BrokerAccepts, TypeOK
  <2>9. /\ retained' \in {"none", "ONLINE", "OFFLINE"}
         /\ pending' \in SUBSET {"ONLINE", "OFFLINE"}
    BY <1>0, <1>20 DEF BrokerAccepts, TypeOK
  <2>1. Flags'
    BY <1>0, <1>20, <2>0, <2>9, Zenon DEF BrokerAccepts, Flags, TypeOK
  <2>2. States'
    BY <1>0, <1>20, <2>0, <2>9, Zenon DEF BrokerAccepts, States, TypeOK
  <2>3. DogInv'
    BY <1>0, <1>20, <2>0, <2>9 DEF BrokerAccepts, DogInv
  <2>4. ClientInv'
    BY <1>0, <1>20 DEF BrokerAccepts, ClientInv, CrashesOnlyInShutdown
  <2> QED BY <2>1, <2>2, <2>3, <2>4 DEF AgentInv, Flags, States, TypeOK
<1>21. CASE DogTicks
  <2>0. /\ wd' \in {"wait", "ask", "send", "act"} /\ missed' \in 0..MaxMissed
        /\ DogInv'
    <3>1. CASE client
      BY <1>0, <1>21, <3>1 DEF DogTicks, DogInv, TypeOK
    <3>2. CASE ~client
      BY <1>0, <1>21, <3>2, JudgeTypes DEF DogTicks, DogInv
    <3> QED BY <3>1, <3>2
  <2>1. Flags'
    BY <1>0, <1>21, <2>0, Zenon DEF DogTicks, Flags, TypeOK
  <2>2. States'
    BY <1>0, <1>21, <2>0, Zenon DEF DogTicks, States, TypeOK
  <2>3. DogInv'
    BY <2>0
  <2>4. ClientInv'
    BY <1>0, <1>21, <2>0 DEF DogTicks, ClientInv, CrashesOnlyInShutdown
  <2> QED BY <2>1, <2>2, <2>3, <2>4 DEF AgentInv, Flags, States, TypeOK
<1>22. CASE DogAsks
  <2>0. /\ wd' \in {"wait", "ask", "send", "act"} /\ missed' \in 0..MaxMissed
        /\ DogInv'
    BY <1>0, <1>22, JudgeTypes DEF DogAsks, DogInv
  <2>1. Flags'
    BY <1>0, <1>22, <2>0, Zenon DEF DogAsks, Flags, TypeOK
  <2>2. States'
    BY <1>0, <1>22, <2>0, Zenon DEF DogAsks, States, TypeOK
  <2>3. DogInv'
    BY <2>0
  <2>4. ClientInv'
    BY <1>0, <1>22 DEF DogAsks, ClientInv, CrashesOnlyInShutdown
  <2> QED BY <2>1, <2>2, <2>3, <2>4 DEF AgentInv, Flags, States, TypeOK
<1>23. CASE Ended \/ UNCHANGED vars
  <2>1. Flags'
    BY <1>0, <1>23, Zenon DEF Ended, Flags, TypeOK, vars
  <2>2. States'
    BY <1>0, <1>23, Zenon DEF Ended, States, TypeOK, vars
  <2>3. DogInv'
    BY <1>0, <1>23 DEF Ended, DogInv, vars
  <2>4. ClientInv'
    BY <1>0, <1>23 DEF Ended, vars, ClientInv, CrashesOnlyInShutdown
  <2> QED BY <2>1, <2>2, <2>3, <2>4 DEF AgentInv, Flags, States, TypeOK
<1> QED
  BY <1>1, <1>2, <1>3, <1>4, <1>5, <1>6, <1>7, <1>8, <1>9, <1>10, <1>11, <1>12,
     <1>13, <1>14, <1>15, <1>16, <1>17, <1>18, <1>19, <1>20, <1>21, <1>22, <1>23
  DEF Next, MainStep, HandlerStep, DogStep

LEMMA AgentInvariant == Spec => []AgentInv
BY AgentInit, AgentStep, PTL DEF Spec

\* The state of the process always has its types.
THEOREM AgentTypes == Spec => []TypeOK
<1>1. AgentInv => TypeOK
  BY DEF AgentInv
<1> QED BY <1>1, AgentInvariant, PTL

\* No read of mqttClient ends a process that has not been told to shut down.
THEOREM NoCrashWhileRunning == Spec => []CrashesOnlyInShutdown
<1>1. AgentInv => CrashesOnlyInShutdown
  BY DEF AgentInv, ClientInv
<1> QED BY <1>1, AgentInvariant, PTL

-----------------------------------------------------------------------------
(* The subscription *)

LEMMA AttemptKeepsSubscribed ==
    ASSUME NEW a, NEW s, Attempt(a, s)
    PROVE  subscribed' = subscribed
BY Zenon DEF Attempt, Publish, brokerVars

LEMMA SubscribeStep ==
    ASSUME AgentInv, SubscribeInv, [Next]_vars
    PROVE  SubscribeInv'
<1>0. /\ handler \in [Handlers -> {"unborn", "flag", "subscribe", "status", "done"}]
      /\ knew \subseteq Handlers
  BY DEF AgentInv, TypeOK
<1> USE DEF SubscribeInv, KnownAreSubscribed,
            procVars, pahoVars, hookVars, brokerVars, dogVars
<1>1. CASE \/ ConnectReturns \/ ConnectTimesOut \/ StartLoops \/ Exit \/ Signal
           \/ NoticeLoss \/ GraceEnds \/ DogStops \/ DogTicks \/ DogAsks
           \/ DogCrashes \/ DogActs
  <2>1. /\ UNCHANGED <<link, handler, knew, subscribed>>
        /\ main' = "closing" => main = "closing"
        /\ client => client'
    BY <1>1 DEF ConnectReturns, ConnectTimesOut, StartLoops, Exit, Signal, NoticeLoss,
       GraceEnds, DogStops, DogTicks, DogAsks, DogCrashes, DogActs
  <2> QED BY <2>1
<1>2. CASE SayOnline \/ SayOffline \/ DogReports
  <2>1. /\ UNCHANGED <<link, handler, knew, client>>
        /\ main' = "closing" => main = "closing"
    BY <1>2 DEF SayOnline, SayOffline, DogReports
  <2>2. subscribed' = subscribed
    BY <1>2, AttemptKeepsSubscribed DEF SayOnline, SayOffline, DogReports
  <2> QED BY <2>1, <2>2
<1>3. CASE Disconnect \/ DropClient
  <2>1. link' = "closed"
    BY <1>3 DEF Disconnect, DropClient
  <2> QED BY <2>1
<1>4. CASE LinkBreaks
  BY <1>4 DEF LinkBreaks
<1>5. CASE BrokerAccepts
  <2>1. PICK h \in Handlers :
          /\ handler[h] = "unborn"
          /\ handler' = [handler EXCEPT ![h] = "flag"]
          /\ knew' = IF client THEN knew \cup {h} ELSE knew
    BY <1>5 DEF BrokerAccepts
  <2>2. /\ link \in {"connecting", "reconnecting"} /\ link' = "up"
        /\ UNCHANGED <<main, client>>
    BY <1>5 DEF BrokerAccepts
  <2>3. CASE client
    <3>1. h \in knew' /\ handler'[h] = "flag"
      BY <1>0, <2>1, <2>3
    <3> QED BY <2>2, <2>3, <3>1
  <2>4. CASE ~client
    <3>1. knew' = {}
      BY <2>1, <2>2, <2>4
    <3> QED BY <2>2, <3>1
  <2> QED BY <2>3, <2>4
<1>6. ASSUME NEW h \in Handlers, HandlerFlags(h) PROVE SubscribeInv'
  <2>1. /\ handler' = [handler EXCEPT ![h] = "subscribe"]
        /\ UNCHANGED <<main, client, link, knew, subscribed>>
    BY <1>6 DEF HandlerFlags
  <2>2. \A g \in Handlers : handler[g] \in {"flag", "subscribe"}
                               => handler'[g] \in {"flag", "subscribe"}
    BY <1>0, <2>1
  <2> QED BY <1>0, <2>1, <2>2
<1>7. ASSUME NEW h \in Handlers, HandlerSubscribes(h) PROVE SubscribeInv'
  <2>1. /\ handler' = [handler EXCEPT ![h] = "status"]
        /\ subscribed' = (subscribed \/ (client /\ link = "up"))
        /\ UNCHANGED <<main, client, link, knew>>
    BY <1>7 DEF HandlerSubscribes
  <2>2. link' = "up" /\ knew' # {} => subscribed'
    BY <2>1
  <2> QED BY <2>1, <2>2
<1>8. ASSUME NEW h \in Handlers, HandlerReports(h) PROVE SubscribeInv'
  <2>1. /\ handler[h] = "status"
        /\ handler' = handler \/ handler' = [handler EXCEPT ![h] = "done"]
        /\ UNCHANGED <<main, client, link, knew>>
    BY <1>8, Zenon DEF HandlerReports
  <2>2. subscribed' = subscribed
    BY <1>8, AttemptKeepsSubscribed DEF HandlerReports
  <2>3. \A g \in Handlers : handler[g] \in {"flag", "subscribe"} => handler'[g] = handler[g]
    BY <1>0, <2>1
  <2> QED BY <1>0, <2>1, <2>2, <2>3
<1>9. CASE Ended \/ UNCHANGED vars
  BY <1>9 DEF Ended, vars
<1> QED
  BY <1>1, <1>2, <1>3, <1>4, <1>5, <1>6, <1>7, <1>8, <1>9
  DEF Next, MainStep, HandlerStep, DogStep

-----------------------------------------------------------------------------
(* The status *)

LEMMA AttemptOnline ==
    ASSUME NEW a, Attempt(a, "ONLINE")
    PROVE  /\ retained' \in {retained, "ONLINE"}
           /\ pending \subseteq pending' /\ pending' \subseteq pending \cup {"ONLINE"}
           /\ link = "up" => pending' = pending
           /\ client /\ link # "closed" => retained' = "ONLINE" \/ "ONLINE" \in pending'
<1>1. CASE Publish("ONLINE")
  <2>1. CASE link = "up"
    BY <1>1, <2>1 DEF Publish
  <2>2. CASE link # "up"
    BY <1>1, <2>2 DEF Publish
  <2> QED BY <2>1, <2>2
<1>2. CASE ~(client /\ link # "closed") /\ UNCHANGED brokerVars
  BY <1>2 DEF brokerVars
<1> QED BY <1>1, <1>2, Zenon DEF Attempt

LEMMA AttemptStores ==
    ASSUME NEW a, NEW s, Attempt(a, s)
    PROVE  link = "up" => pending' = pending
BY Zenon DEF Attempt, Publish, brokerVars

LEMMA OnlineStep ==
    ASSUME AgentInv, OnlineInv, [Next]_vars
    PROVE  OnlineInv'
<1>0. /\ retained \in {"none", "ONLINE", "OFFLINE"}
      /\ pending \subseteq {"ONLINE", "OFFLINE"}
  BY DEF AgentInv, TypeOK
<1> USE DEF OnlineInv, Working, Alive, Ends,
            procVars, pahoVars, hookVars, brokerVars, dogVars
<1>1. CASE \/ ConnectReturns \/ ConnectTimesOut \/ StartLoops \/ DropClient \/ Exit
           \/ Signal \/ DogCrashes \/ DogActs
  <2>1. UNCHANGED <<link, retained, pending>>
    BY <1>1 DEF ConnectReturns, ConnectTimesOut, StartLoops, DropClient, Exit, Signal,
       DogCrashes, DogActs
  <2>2. /\ main' \in Working => main \in Working
        /\ main' \in Working \cup {"bye", "drain"} => main \in Working \cup {"bye", "drain"}
        /\ main' = "wait" => main = "wait"
    BY <1>1 DEF ConnectReturns, ConnectTimesOut, StartLoops, DropClient, Exit, Signal,
       DogCrashes, DogActs
  <2> QED BY <2>1, <2>2
<1>2. CASE SayOnline
  <2>1. /\ main = "hello" /\ main' \in {"hello", "wait"} /\ link' = link
        /\ Attempt(Main, "ONLINE")
    BY <1>2 DEF SayOnline
  <2>2. client /\ link # "closed"
    BY <2>1 DEF AgentInv, ClientInv
  <2> QED BY <2>1, <2>2, AttemptOnline
<1>3. CASE SayOffline
  <2>1. main = "bye" /\ main' \in {"bye", "drain"} /\ link' = link /\ Attempt(Main, "OFFLINE")
    BY <1>3 DEF SayOffline
  <2>2. link = "up" => pending' = pending
    BY <2>1, AttemptStores
  <2> QED BY <2>1, <2>2
<1>4. ASSUME DogReports \/ \E h \in Handlers : HandlerReports(h) PROVE OnlineInv'
  <2>1. UNCHANGED <<main, link>> /\ \E a : Attempt(a, "ONLINE")
    BY <1>4 DEF DogReports, HandlerReports
  <2> QED BY <2>1, AttemptOnline
<1>5. CASE Disconnect
  BY <1>5 DEF Disconnect
<1>6. CASE BrokerAccepts
  <2>1. CASE pending = {}
    BY <1>6, <2>1 DEF BrokerAccepts
  <2>2. CASE pending # {}
    <3>1. /\ retained' \in pending /\ pending' = {} /\ link' = "up" /\ main' = main
      BY <1>6, <2>2 DEF BrokerAccepts
    <3> QED BY <3>1
  <2> QED BY <2>1, <2>2
<1>7. CASE LinkBreaks
  BY <1>7 DEF LinkBreaks
<1>8. CASE \/ NoticeLoss \/ GraceEnds \/ DogStops \/ DogTicks \/ DogAsks
           \/ \E h \in Handlers : HandlerFlags(h) \/ HandlerSubscribes(h)
           \/ Ended \/ UNCHANGED vars
  <2>1. UNCHANGED <<main, link, retained, pending>>
    BY <1>8 DEF NoticeLoss, GraceEnds, DogStops, DogTicks, DogAsks, HandlerFlags,
       HandlerSubscribes, Ended, vars
  <2> QED BY <2>1
<1> QED
  BY <1>1, <1>2, <1>3, <1>4, <1>5, <1>6, <1>7, <1>8
  DEF Next, MainStep, HandlerStep, DogStep

LEMMA SessionInit == Init => SubscribeInv /\ OnlineInv
BY DEF Init, SubscribeInv, KnownAreSubscribed, OnlineInv, Working

\* The broker sends a connection its commands, or a handler is still to
\* subscribe, once mqttConnect has published the client.
THEOREM KnownSubscribed == Spec => []KnownAreSubscribed
<1>1. SubscribeInv => KnownAreSubscribed
  BY DEF SubscribeInv
<1> QED BY <1>1, SessionInit, SubscribeStep, AgentInvariant, PTL DEF Spec

\* A process that waits for its signal on an open connection is ONLINE.
THEOREM OnlineTillSignal == Spec => []OnlineWhileWaiting
<1>1. OnlineInv => OnlineWhileWaiting
  BY DEF OnlineInv, OnlineWhileWaiting
<1> QED BY <1>1, SessionInit, OnlineStep, AgentInvariant, PTL DEF Spec
=============================================================================
