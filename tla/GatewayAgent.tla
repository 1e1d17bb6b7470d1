---------------------------- MODULE GatewayAgent ----------------------------
(***************************************************************************)
(* The life of one agent process and its MQTT session: main (main.go), the *)
(* connection callbacks (mqtt.go), the status reports (telemetry.go) and   *)
(* the watchdog (watchdog.go), beside the paho client and the broker.      *)
(*                                                                         *)
(* paho is external.  It connects and reconnects by itself, runs           *)
(* OnConnect and OnConnectionLost each in a goroutine of its own, and its  *)
(* IsConnected is true unless the client has been disconnected for good:   *)
(* with ConnectRetry and AutoReconnect a client that is trying counts.  A  *)
(* QoS 1 publish on an open connection reaches the broker; without one it  *)
(* is stored, and sent when the connection is back, in no promised order.  *)
(*                                                                         *)
(* Abstracted: time (a sleep, a tick, a timeout is a step taken at any     *)
(* later moment), topics and payloads (a status is ONLINE or OFFLINE), and *)
(* the loops that have no part in the session (telemetry, modbus, health). *)
(***************************************************************************)
EXTENDS Naturals

CONSTANTS
    Main, Watchdog,   \* the two goroutines that report a status of their own
    Handlers,         \* OnConnect goroutines; bound: connections made
    MaxMissed,        \* cfg.Watchdog.MaxMissedPings
    CleanSession,     \* cfg.MQTT.CleanSession
    Action            \* cfg.Watchdog.Action

ASSUME AgentAssumption ==
    /\ MaxMissed \in Nat \ {0}
    /\ CleanSession \in BOOLEAN
    /\ Action \in {"restart", "reboot", "command"}
    /\ Main # Watchdog /\ {Main, Watchdog} \cap Handlers = {}

VARIABLES
    main,        \* where main is
    signalled,   \* main has received its signal
    client,      \* mqttClient is set
    link,        \* the paho client's connection
    opened,      \* the token of Connect is complete
    losing,      \* an OnConnectionLost goroutine has still to run
    flag,        \* state.Connected
    handler,     \* where each OnConnect goroutine is
    knew,        \* history: handlers started when mqttClient was set
    subscribed,  \* the broker sends the agent its commands
    retained,    \* the retained message on the status topic
    pending,     \* statuses stored by paho
    tries,       \* publishStatus attempts that failed, per goroutine
    wd,          \* where startWatchdog is
    grace,       \* the startup grace is not over
    missed       \* missed of startWatchdog

procVars   == <<main, signalled, client>>
pahoVars   == <<link, opened, losing, flag>>
hookVars   == <<handler, knew>>
brokerVars == <<subscribed, retained, pending>>
dogVars    == <<wd, grace, missed>>
vars == <<procVars, pahoVars, hookVars, brokerVars, tries, dogVars>>

Senders == {Main, Watchdog} \cup Handlers

Ends == {"exited", "fatal", "killed", "crashed"}

\* Each goroutine, flag and counter has the states the code gives it.
TypeOK ==
    /\ main \in {"connect", "start", "hello", "wait", "bye", "drain", "closing",
                 "cleanup"} \cup Ends
    /\ signalled \in BOOLEAN
    /\ client \in BOOLEAN
    /\ link \in {"connecting", "up", "reconnecting", "closed"}
    /\ opened \in BOOLEAN /\ losing \in BOOLEAN /\ flag \in BOOLEAN
    /\ handler \in [Handlers -> {"unborn", "flag", "subscribe", "status", "done"}]
    /\ knew \in SUBSET Handlers
    /\ subscribed \in BOOLEAN
    /\ retained \in {"none", "ONLINE", "OFFLINE"}
    /\ pending \in SUBSET {"ONLINE", "OFFLINE"}
    /\ tries \in [Senders -> 0..2]
    /\ wd \in {"off", "wait", "ask", "send", "act", "gone"}
    /\ grace \in BOOLEAN
    /\ missed \in 0..MaxMissed

\* The status topic keeps what an earlier process left there.
Init ==
    /\ main = "connect"
    /\ signalled = FALSE
    /\ client = FALSE
    /\ link = "connecting"
    /\ opened = FALSE /\ losing = FALSE /\ flag = FALSE
    /\ handler = [h \in Handlers |-> "unborn"]
    /\ knew = {}
    /\ subscribed = FALSE
    /\ retained \in {"none", "ONLINE", "OFFLINE"}
    /\ pending = {}
    /\ tries = [a \in Senders |-> 0]
    /\ wd = "off"
    /\ grace = TRUE
    /\ missed = 0

Alive == main \notin Ends

-----------------------------------------------------------------------------
(* publishStatus, as each of the senders runs it *)

\* Main holds mqttMu from Disconnect until mqttClient is nil.
MutexFree == main # "closing"

\* Mutant: a status is published like telemetry, without the retain flag.
Publish_NotRetained(status) ==
    /\ client /\ link # "closed"
    /\ IF link = "up" THEN UNCHANGED pending ELSE pending' = pending \cup {status}
    /\ UNCHANGED <<retained, subscribed>>

\* Mutant: the publish waits for its acknowledgement without a timeout.
Publish_Waits(status) ==
    /\ client /\ link = "up"
    /\ retained' = status
    /\ UNCHANGED <<pending, subscribed>>

\* An attempt of mqttPublish that returns no error: the status is with the
\* broker, or stored, and the wait for its acknowledgement has timed out.
Publish(status) ==
    /\ client /\ link # "closed"
    /\ IF link = "up"
       THEN retained' = status /\ UNCHANGED pending
       ELSE pending' = pending \cup {status} /\ UNCHANGED retained
    /\ UNCHANGED subscribed

\* One of the three attempts of publishStatus by a; Returned says whether it
\* was the last, by success or by giving up.
Attempt(a, status) ==
    \/ Publish(status) /\ tries' = [tries EXCEPT ![a] = 0]
    \/ /\ ~(client /\ link # "closed")
       /\ tries' = [tries EXCEPT ![a] = (@ + 1) % 3]
       /\ UNCHANGED brokerVars

Returned(a) == tries'[a] = 0

-----------------------------------------------------------------------------
(* main *)

\* mqttConnect returns and publishes the client to the other goroutines.
ConnectReturns ==
    /\ main = "connect"
    /\ opened
    /\ main' = "start"
    /\ client' = TRUE
    /\ UNCHANGED <<signalled, pahoVars, hookVars, brokerVars, tries, dogVars>>

\* Thirty seconds without a connection are fatal.
ConnectTimesOut ==
    /\ main = "connect"
    /\ main' = "fatal"
    /\ UNCHANGED <<signalled, client, pahoVars, hookVars, brokerVars, tries, dogVars>>

StartLoops ==
    /\ main = "start"
    /\ main' = "hello"
    /\ wd' = "wait"
    /\ UNCHANGED <<signalled, client, pahoVars, hookVars, brokerVars, tries,
                   grace, missed>>

\* The initial ONLINE, after which main waits for its signal.
SayOnline ==
    /\ main = "hello"
    /\ Attempt(Main, "ONLINE")
    /\ main' = IF Returned(Main) THEN "wait" ELSE main
    /\ UNCHANGED <<signalled, client, pahoVars, hookVars, dogVars>>

\* SIGTERM ends a process that has not called signal.Notify yet; from then on
\* it makes main cancel the context.
Signal ==
    /\ Alive /\ ~signalled
    /\ signalled' = TRUE
    /\ main' = IF main = "wait" THEN "bye" ELSE "killed"
    /\ UNCHANGED <<client, pahoVars, hookVars, brokerVars, tries, dogVars>>

Cancelled == main \in {"bye", "drain", "closing", "cleanup"}

SayOffline ==
    /\ main = "bye"
    /\ Attempt(Main, "OFFLINE")
    /\ main' = IF Returned(Main) THEN "drain" ELSE main
    /\ UNCHANGED <<signalled, client, pahoVars, hookVars, dogVars>>

\* Under mqttMu: Disconnect ...
Disconnect ==
    /\ main = "drain"
    /\ main' = "closing"
    /\ link' = "closed"
    /\ subscribed' = (subscribed /\ ~CleanSession)
    /\ UNCHANGED <<signalled, client, opened, losing, flag, hookVars, retained,
                   pending, tries, dogVars>>

\* ... and mqttClient = nil.
DropClient ==
    /\ main = "closing"
    /\ main' = "cleanup"
    /\ client' = FALSE
    /\ UNCHANGED <<signalled, pahoVars, hookVars, brokerVars, tries, dogVars>>

Exit ==
    /\ main = "cleanup"
    /\ main' = "exited"
    /\ UNCHANGED <<signalled, client, pahoVars, hookVars, brokerVars, tries, dogVars>>

-----------------------------------------------------------------------------
(* The broker and the callbacks of paho *)

\* A connection is made: paho starts OnConnect and sends what it has stored.
BrokerAccepts ==
    /\ Alive
    /\ link \in {"connecting", "reconnecting"}
    /\ link' = "up"
    /\ opened' = TRUE
    /\ \E h \in Handlers :
         /\ handler[h] = "unborn"
         /\ handler' = [handler EXCEPT ![h] = "flag"]
         /\ knew' = IF client THEN knew \cup {h} ELSE knew
    /\ retained' \in IF pending = {} THEN {retained} ELSE pending
    /\ pending' = {}
    /\ UNCHANGED <<procVars, losing, flag, subscribed, tries, dogVars>>

\* The connection is lost, and with it a clean session.
LinkBreaks ==
    /\ Alive
    /\ link = "up"
    /\ link' = "reconnecting"
    /\ losing' = TRUE
    /\ subscribed' = (subscribed /\ ~CleanSession)
    /\ UNCHANGED <<main, signalled, client, opened, flag, hookVars, retained, pending,
                   tries, dogVars>>

\* Mutant: the handler forgets the lost client.
NoticeLoss_DropsClient ==
    /\ Alive /\ losing
    /\ losing' = FALSE
    /\ flag' = FALSE
    /\ client' = FALSE
    /\ UNCHANGED <<main, signalled, link, opened, hookVars, brokerVars, tries, dogVars>>

\* OnConnectionLost.
NoticeLoss ==
    /\ Alive /\ losing
    /\ losing' = FALSE
    /\ flag' = FALSE
    /\ UNCHANGED <<procVars, link, opened, hookVars, brokerVars, tries, dogVars>>

\* OnConnect: setConnected(true) ...
HandlerFlags(h) ==
    /\ Alive
    /\ handler[h] = "flag"
    /\ handler' = [handler EXCEPT ![h] = "subscribe"]
    /\ flag' = TRUE
    /\ UNCHANGED <<procVars, link, opened, losing, knew, brokerVars, tries, dogVars>>

\* Mutant: paho is trusted to restore the subscription, as ResumeSubs would.
HandlerSubscribes_Trusts(h) ==
    /\ Alive /\ MutexFree
    /\ handler[h] = "subscribe"
    /\ handler' = [handler EXCEPT ![h] = "status"]
    /\ UNCHANGED <<procVars, pahoVars, knew, brokerVars, tries, dogVars>>

\* ... subscribeCommands, which gives up without a word when there is no
\* client, and with a log line when paho is reconnecting ...
HandlerSubscribes(h) ==
    /\ Alive /\ MutexFree
    /\ handler[h] = "subscribe"
    /\ handler' = [handler EXCEPT ![h] = "status"]
    /\ subscribed' = (subscribed \/ (client /\ link = "up"))
    /\ UNCHANGED <<procVars, pahoVars, knew, retained, pending, tries, dogVars>>

\* ... and sendStatus("ONLINE").
HandlerReports(h) ==
    /\ Alive /\ MutexFree
    /\ handler[h] = "status"
    /\ Attempt(h, "ONLINE")
    /\ handler' = IF Returned(h) THEN [handler EXCEPT ![h] = "done"] ELSE handler
    /\ UNCHANGED <<procVars, pahoVars, knew, dogVars>>

-----------------------------------------------------------------------------
(* startWatchdog *)

GraceEnds ==
    /\ Alive /\ grace
    /\ grace' = FALSE
    /\ UNCHANGED <<procVars, pahoVars, hookVars, brokerVars, tries, wd, missed>>

DogStops ==
    /\ Alive /\ Cancelled
    /\ wd = "wait"
    /\ wd' = "gone"
    /\ UNCHANGED <<procVars, pahoVars, hookVars, brokerVars, tries, grace, missed>>

\* Mutant: the watchdog goes on counting when it should act.
Judge_GoesOn(connected) ==
    IF connected
    THEN missed' = 0 /\ wd' = "send"
    ELSE missed' = missed + 1 /\ wd' = "wait"

\* What a tick does with the answer of isConnected.
Judge(connected) ==
    IF connected
    THEN missed' = 0 /\ wd' = "send"
    ELSE /\ missed' = missed + 1
         /\ wd' = IF missed + 1 >= MaxMissed THEN "act" ELSE "wait"

\* isConnected tests mqttClient, without mqttMu ...
DogTicks ==
    /\ Alive /\ ~grace
    /\ wd = "wait"
    /\ IF client THEN wd' = "ask" /\ UNCHANGED missed
                 ELSE Judge(flag)
    /\ UNCHANGED <<procVars, pahoVars, hookVars, brokerVars, tries, grace>>

\* ... and reads it again to ask it.
DogAsks ==
    /\ Alive
    /\ wd = "ask" /\ client
    /\ Judge(link # "closed")
    /\ UNCHANGED <<procVars, pahoVars, hookVars, brokerVars, tries, grace>>

\* The call on the nil client that main has left meanwhile: a panic.
DogCrashes ==
    /\ Alive
    /\ wd = "ask" /\ ~client
    /\ main' = "crashed"
    /\ UNCHANGED <<signalled, client, pahoVars, hookVars, brokerVars, tries, dogVars>>

DogReports ==
    /\ Alive /\ MutexFree
    /\ wd = "send"
    /\ Attempt(Watchdog, "ONLINE")
    /\ wd' = IF Returned(Watchdog) THEN "wait" ELSE wd
    /\ UNCHANGED <<procVars, pahoVars, hookVars, grace, missed>>

\* The configured action, after which the goroutine returns.
DogActs ==
    /\ Alive
    /\ wd = "act"
    /\ wd' = "gone"
    /\ main' = IF Action = "restart" THEN "exited" ELSE main
    /\ UNCHANGED <<signalled, client, pahoVars, hookVars, brokerVars, tries,
                   grace, missed>>

Ended == ~Alive /\ UNCHANGED vars

MainStep == \/ ConnectReturns \/ ConnectTimesOut \/ StartLoops \/ SayOnline
            \/ SayOffline \/ Disconnect \/ DropClient \/ Exit

HandlerStep(h) == HandlerFlags(h) \/ HandlerSubscribes(h) \/ HandlerReports(h)

DogStep == \/ DogStops \/ DogTicks \/ DogAsks \/ DogCrashes \/ DogReports \/ DogActs

Next ==
    \/ MainStep \/ Signal
    \/ BrokerAccepts \/ LinkBreaks \/ NoticeLoss
    \/ \E h \in Handlers : HandlerStep(h)
    \/ GraceEnds \/ DogStep
    \/ Ended

Spec == Init /\ [][Next]_vars

\* Goroutines run, sleeps end, timers tick and mqttMu is handed on; whether the
\* broker accepts, a connection breaks or a signal comes is not for the agent.
Fairness ==
    /\ WF_vars(MainStep)
    /\ \A h \in Handlers : WF_vars(HandlerStep(h))
    /\ WF_vars(NoticeLoss)
    /\ WF_vars(GraceEnds)
    /\ WF_vars(DogStep)

FairSpec == Spec /\ Fairness

-----------------------------------------------------------------------------
(* Properties *)

Running == main \in {"start", "hello", "wait"}

\* isConnected may meet a nil client only in a shutdown: before its signal a
\* process is never lost to the watchdog's unlocked reads.
CrashesOnlyInShutdown == main = "crashed" => signalled

\* A connection made after mqttConnect has published the client gets its
\* command subscription, while it lasts: OnConnect is a goroutine, and may find
\* the connection lost again, or a later one, when it comes to subscribe.
ReconnectSubscribes ==
    \A h \in Handlers :
        (h \in knew /\ handler[h] = "flag" /\ link = "up")
            ~> (subscribed \/ link # "up" \/ ~Running)

\* A process that runs on with its connection up is ONLINE on the status topic,
\* whatever an earlier process or an outage has left there.
GetsOnline == (Running /\ link = "up") ~> (retained = "ONLINE" \/ link # "up" \/ ~Running)

\* A signalled process ends, also when the broker is out of reach.
ShutdownCompletes == signalled ~> ~Alive

\* While main waits for its signal, whoever can read the broker reads ONLINE: no
\* status that an earlier process has left, and none that was stored during an
\* outage, stands on the topic once the connection is up and paho has sent what
\* it had stored.
OnlineWhileWaiting == main = "wait" /\ link = "up" => retained = "ONLINE"

\* Commands sent to command/set reach an agent that is up and settled.
SettledMeansSubscribed ==
    (main = "wait" /\ link = "up" /\ \A h \in Handlers : handler[h] \in {"unborn", "done"})
        => subscribed

\* The watchdog acts on an MQTT connection that stays lost.
WatchdogCatchesOutage ==
    (main = "wait" /\ link = "reconnecting") ~> (link # "reconnecting" \/ wd = "gone" \/ ~Running)
=============================================================================
