---------------------------- MODULE TerminalLink ----------------------------
(***************************************************************************)
(* The reverse connection of the terminal agent (terminal.go): the         *)
(* goroutine that dials, reads and reconnects, the heartbeat loops it      *)
(* spawns, and every other goroutine that sends (PTY pumps, downloads).    *)
(* They share one struct: conn, connected, seq and lastSeq are read and    *)
(* written under a.mu, but a frame is written to the socket after a.mu is  *)
(* released, so any two goroutines may be inside WriteMessage at once.     *)
(*                                                                         *)
(* Abstracted: payloads, signatures and JSON; the length of every delay    *)
(* (dial, backoff, heartbeat tick), each of which is a step that may be    *)
(* taken at any later time; sessions and uploads, whose tables closeAll    *)
(* empties, are no part of the link.                                       *)
(***************************************************************************)
EXTENDS Naturals, Sequences, FiniteSets

CONSTANTS
    Reader,       \* the goroutine of startTerminalAgent, connect and readLoop
    Workers,      \* PTY pumps and download goroutines
    Beats,        \* heartbeatLoop goroutines, in the order they are spawned
    MaxConns,     \* bound: successful dials
    MaxSeq,       \* bound: messages stamped
    MaxInbound    \* bound: the largest number the backend stamps

ASSUME LinkAssumption ==
    /\ MaxConns \in Nat
    /\ MaxSeq \in Nat
    /\ MaxInbound \in Nat
    /\ Reader \notin Workers \cup Beats
    /\ Workers \cap Beats = {}

VARIABLES
    loop,         \* where the Reader is in startTerminalAgent
    stopped,      \* ctx is cancelled
    conn,         \* a.conn: 0 is nil, n the n-th connection
    dials,        \* connections opened so far
    up,           \* connections whose transport is alive
    phase,        \* how far the handshake of the last connection has come
    connected,    \* a.connected
    seq,          \* a.seq
    lastSeq,      \* a.lastSeq
    heardOn,      \* history: the connection whose message set lastSeq
    out,          \* the frame each goroutine is sending
    working,      \* the workers that have been started
    todo,         \* what the handler of the last frame has still to do
    beat,         \* where each heartbeat loop is
    wire          \* per connection, the messages the backend received

linkVars  == <<conn, dials, up, phase, connected>>
frameVars == <<seq, out, wire>>
goVars    == <<working, todo, beat>>
vars == <<loop, stopped, linkVars, frameVars, lastSeq, heardOn, goVars>>

Conns   == 1..MaxConns
Senders == {Reader} \cup Workers \cup Beats

NoFrame == [at |-> "idle", kind |-> "none", seq |-> 0, conn |-> 0]
BareFrames == [at : {"ready", "writing"}, kind : {"connect", "pong"},
               seq : {0}, conn : 0..MaxConns]
MessageFrames == [at : {"ready", "writing"}, kind : {"message"},
                  seq : 1..MaxSeq, conn : 0..MaxConns]
Frames == {NoFrame} \cup BareFrames \cup MessageFrames

\* What the backend received on each connection: who sent it, and its number.
Receipts == [by : Senders, seq : 1..MaxSeq]
Logs     == [Conns -> Seq(Receipts)]

\* The state belongs to the types of struct terminalAgent and of its goroutines.
TypeOK ==
    /\ loop \in {"top", "dial", "read", "close", "wait", "done", "panicked"}
    /\ stopped \in BOOLEAN
    /\ conn \in 0..MaxConns
    /\ dials \in 0..MaxConns
    /\ up \in SUBSET Conns
    /\ phase \in {"fresh", "opened", "joined", "acked"}
    /\ connected \in BOOLEAN
    /\ seq \in 0..MaxSeq
    /\ lastSeq \in 0..MaxInbound
    /\ heardOn \in 0..MaxConns
    /\ out \in [Senders -> Frames]
    /\ working \in SUBSET Workers
    /\ todo \in {"no", "hello", "spawn", "reply"}
    /\ beat \in [Beats -> {"unborn", "check", "send", "gone"}]
    /\ wire \in Logs

Init ==
    /\ loop = "top"
    /\ stopped = FALSE
    /\ conn = 0
    /\ dials = 0
    /\ up = {}
    /\ phase = "fresh"
    /\ connected = FALSE
    /\ seq = 0
    /\ lastSeq = 0
    /\ heardOn = 0
    /\ out = [g \in Senders |-> NoFrame]
    /\ working = {}
    /\ todo = "no"
    /\ beat = [b \in Beats |-> "unborn"]
    /\ wire = [c \in Conns |-> <<>>]

-----------------------------------------------------------------------------
(* Sending *)

Idle(g) == out[g].at = "idle"

\* Mutant: the number is taken before the increment, so the first one is 0.
SendMessage_ZeroBased(g) ==
    IF connected /\ conn # 0 /\ seq < MaxSeq
    THEN /\ seq' = seq + 1
         /\ out' = [out EXCEPT ![g] = [at |-> "ready", kind |-> "message",
                                       seq |-> seq, conn |-> 0]]
    ELSE UNCHANGED <<seq, out>>

\* Mutant: the number is drawn before the test for a connection.
SendMessage_DrawsFirst(g) ==
    /\ seq < MaxSeq
    /\ seq' = seq + 1
    /\ out' = IF connected /\ conn # 0
              THEN [out EXCEPT ![g] = [at |-> "ready", kind |-> "message",
                                       seq |-> seq + 1, conn |-> 0]]
              ELSE out

\* sendMessage up to its unlock: stamp the next number, or drop the message.  At
\* the bound MaxSeq it drops what the code would send, so that senders go on.
SendMessage(g) ==
    IF connected /\ conn # 0 /\ seq < MaxSeq
    THEN /\ seq' = seq + 1
         /\ out' = [out EXCEPT ![g] = [at |-> "ready", kind |-> "message",
                                       seq |-> seq + 1, conn |-> 0]]
    ELSE UNCHANGED <<seq, out>>

\* A frame that carries no number: CONNECT or PONG.
SendBare(g, kind) ==
    /\ out' = [out EXCEPT ![g] = [at |-> "ready", kind |-> kind, seq |-> 0, conn |-> 0]]
    /\ UNCHANGED seq

\* writeFrame under the lock: the connection is whatever a.conn is by now.
BeginWrite(g) ==
    /\ loop # "panicked"
    /\ out[g].at = "ready"
    /\ out' = [out EXCEPT ![g] =
                 IF conn = 0 THEN NoFrame
                 ELSE [at |-> "writing", kind |-> @.kind, seq |-> @.seq, conn |-> conn]]
    /\ UNCHANGED <<loop, stopped, linkVars, seq, wire, lastSeq, heardOn, goVars>>

Writing(g, c) == out[g].at = "writing" /\ out[g].conn = c

\* Another goroutine is inside WriteMessage on the connection g writes to.
Collides(g) == \E h \in Senders \ {g} : Writing(h, out[g].conn)

\* WriteMessage returns and the whole frame reaches the backend.
FrameArrives(g) ==
    /\ loop # "panicked"
    /\ out[g].at = "writing"
    /\ out[g].conn \in up
    /\ wire' = IF out[g].kind = "message"
               THEN [wire EXCEPT ![out[g].conn] =
                       Append(@, [by |-> g, seq |-> out[g].seq])]
               ELSE wire
    /\ phase' = IF out[g].kind = "connect" THEN "joined" ELSE phase
    /\ out' = [out EXCEPT ![g] = NoFrame]
    /\ UNCHANGED <<loop, stopped, conn, dials, up, connected, seq, lastSeq, heardOn,
                   goVars>>

\* WriteMessage returns, with an error nobody reads, or after another writer
\* spoiled the frame in the shared buffer.
FrameLost(g) ==
    /\ loop # "panicked"
    /\ out[g].at = "writing"
    /\ out[g].conn \notin up \/ Collides(g)
    /\ out' = [out EXCEPT ![g] = NoFrame]
    /\ UNCHANGED <<loop, stopped, linkVars, seq, wire, lastSeq, heardOn, goVars>>

\* gorilla/websocket detects the second writer and panics; nothing recovers,
\* so the process ends.
ConcurrentWrite(g) ==
    /\ loop # "panicked"
    /\ out[g].at = "writing"
    /\ Collides(g)
    /\ loop' = "panicked"
    /\ UNCHANGED <<stopped, linkVars, frameVars, lastSeq, heardOn, goVars>>

-----------------------------------------------------------------------------
(* startTerminalAgent and connect *)

\* The select at the top of the loop.
LoopTop ==
    /\ loop = "top"
    /\ loop' = IF stopped THEN "done" ELSE "dial"
    /\ UNCHANGED <<stopped, linkVars, frameVars, lastSeq, heardOn, goVars>>

DialFails ==
    /\ loop = "dial"
    /\ loop' = "close"
    /\ UNCHANGED <<stopped, linkVars, frameVars, lastSeq, heardOn, goVars>>

DialSucceeds ==
    /\ loop = "dial"
    /\ dials < MaxConns
    /\ loop' = "read"
    /\ dials' = dials + 1
    /\ conn' = dials + 1
    /\ up' = up \cup {dials + 1}
    /\ phase' = "fresh"
    /\ UNCHANGED <<stopped, connected, frameVars, lastSeq, heardOn, goVars>>

\* Mutant: a read error is skipped like an empty frame.
ReadFails_Continues ==
    /\ loop = "read" /\ Idle(Reader) /\ todo = "no"
    /\ conn \notin up
    /\ UNCHANGED vars

\* Mutant: connect leaves clearing the flag to closeAll.
ReadFails_KeepsFlag ==
    /\ loop = "read" /\ Idle(Reader) /\ todo = "no"
    /\ conn \notin up
    /\ loop' = "close"
    /\ conn' = 0
    /\ UNCHANGED <<stopped, dials, up, phase, connected, frameVars, lastSeq,
                   heardOn, goVars>>

\* readLoop returns the read error and connect forgets the connection.
ReadFails ==
    /\ loop = "read" /\ Idle(Reader) /\ todo = "no"
    /\ conn \notin up
    /\ loop' = "close"
    /\ connected' = FALSE
    /\ conn' = 0
    /\ UNCHANGED <<stopped, dials, up, phase, frameVars, lastSeq, heardOn, goVars>>

\* closeAll, whose Close is for a connection that connect left in place.
CloseAll ==
    /\ loop = "close"
    /\ loop' = "wait"
    /\ up' = up \ {conn}
    /\ conn' = 0
    /\ connected' = FALSE
    /\ UNCHANGED <<stopped, dials, phase, frameVars, lastSeq, heardOn, goVars>>

\* The select on ctx.Done and the backoff timer.
BackoffElapses ==
    /\ loop = "wait"
    /\ loop' = "top"
    /\ UNCHANGED <<stopped, linkVars, frameVars, lastSeq, heardOn, goVars>>

WaitStopped ==
    /\ loop = "wait"
    /\ stopped
    /\ loop' = "done"
    /\ UNCHANGED <<stopped, linkVars, frameVars, lastSeq, heardOn, goVars>>

-----------------------------------------------------------------------------
(* readLoop: one frame of the backend each *)

Reading == loop = "read" /\ Idle(Reader) /\ todo = "no" /\ conn \in up

\* engine.io OPEN is answered with sendConnect.
ReadOpen ==
    /\ Reading
    /\ phase = "fresh"
    /\ phase' = "opened"
    /\ SendBare(Reader, "connect")
    /\ UNCHANGED <<loop, stopped, conn, dials, up, connected, wire, lastSeq, heardOn,
                   goVars>>

\* engine.io PING is answered with a PONG.
ReadPing ==
    /\ Reading
    /\ phase # "fresh"
    /\ SendBare(Reader, "pong")
    /\ UNCHANGED <<loop, stopped, linkVars, wire, lastSeq, heardOn, goVars>>

\* Mutant: the receive window survives the reconnect.
ReadAck_KeepsWindow ==
    /\ Reading
    /\ phase = "joined"
    /\ phase' = "acked"
    /\ connected' = TRUE
    /\ todo' = "hello"
    /\ UNCHANGED <<loop, stopped, conn, dials, up, frameVars, lastSeq, heardOn,
                   working, beat>>

\* Mutant: the numbers sent start again, as those received do.
ReadAck_RestartsNumbers ==
    /\ Reading
    /\ phase = "joined"
    /\ phase' = "acked"
    /\ connected' = TRUE
    /\ lastSeq' = 0
    /\ seq' = 0
    /\ todo' = "hello"
    /\ UNCHANGED <<loop, stopped, conn, dials, up, out, wire, heardOn, working, beat>>

\* onConnected under its lock.
ReadAck ==
    /\ Reading
    /\ phase = "joined"
    /\ phase' = "acked"
    /\ connected' = TRUE
    /\ lastSeq' = 0
    /\ todo' = "hello"
    /\ UNCHANGED <<loop, stopped, conn, dials, up, frameVars, heardOn, working, beat>>

\* onConnected sends AGENT_HELLO ...
SayHello ==
    /\ loop = "read"
    /\ todo = "hello"
    /\ todo' = "spawn"
    /\ SendMessage(Reader)
    /\ UNCHANGED <<loop, stopped, linkVars, wire, lastSeq, heardOn, working, beat>>

\* Mutant: only the first connection starts a loop.
StartHeartbeat_Once ==
    /\ loop = "read"
    /\ todo = "spawn"
    /\ Idle(Reader)
    /\ todo' = "no"
    /\ \E b \in Beats : beat' = IF dials = 1 THEN [beat EXCEPT ![b] = "check"]
                                             ELSE beat
    /\ UNCHANGED <<loop, stopped, linkVars, frameVars, lastSeq, heardOn, working>>

\* ... and, once that call has returned, starts one more heartbeat loop.
StartHeartbeat ==
    /\ loop = "read"
    /\ todo = "spawn"
    /\ Idle(Reader)
    /\ todo' = "no"
    /\ \E b \in Beats :
         /\ beat[b] = "unborn"
         /\ beat' = [beat EXCEPT ![b] = "check"]
    /\ UNCHANGED <<loop, stopped, linkVars, frameVars, lastSeq, heardOn, working>>

\* onBackendMessage accepts number n; its handler may start a worker (a PTY
\* pump or a download), which then sends beside it, and may have a reply to
\* send.  A number the agent has already passed is dropped, which changes
\* nothing.  Socket.IO sends no event before its ack.
ReadMessage(n) ==
    /\ Reading
    /\ phase = "acked"
    /\ n > lastSeq
    /\ lastSeq' = n
    /\ heardOn' = conn
    /\ working' \in {working} \cup {working \cup {w} : w \in Workers}
    /\ todo' \in {"no", "reply"}
    /\ UNCHANGED <<loop, stopped, linkVars, frameVars, beat>>

\* The handler's reply.  SESSION_READY follows the start of the pump; the INIT
\* of a download precedes its goroutine, a worker that sends nothing before it.
Reply ==
    /\ loop = "read"
    /\ todo = "reply"
    /\ todo' = "no"
    /\ SendMessage(Reader)
    /\ UNCHANGED <<loop, stopped, linkVars, wire, lastSeq, heardOn, working, beat>>

-----------------------------------------------------------------------------
(* Heartbeat loops and the other senders *)

\* Mutant: the loop never looks whether the link is still there.
BeatChecks_Blind(b) ==
    /\ loop # "panicked"
    /\ beat[b] = "check" /\ Idle(b)
    /\ beat' = [beat EXCEPT ![b] = "send"]
    /\ UNCHANGED <<loop, stopped, linkVars, frameVars, lastSeq, heardOn, working, todo>>

\* The test at the top of heartbeatLoop, at its start or after a tick.
BeatChecks(b) ==
    /\ loop # "panicked"
    /\ beat[b] = "check" /\ Idle(b)
    /\ beat' = [beat EXCEPT ![b] =
                  IF connected /\ conn # 0 THEN "send" ELSE "gone"]
    /\ UNCHANGED <<loop, stopped, linkVars, frameVars, lastSeq, heardOn, working, todo>>

\* HEARTBEAT, for which the link may be down again; then the loop awaits its tick.
BeatSends(b) ==
    /\ loop # "panicked"
    /\ beat[b] = "send"
    /\ beat' = [beat EXCEPT ![b] = "check"]
    /\ SendMessage(b)
    /\ UNCHANGED <<loop, stopped, linkVars, wire, lastSeq, heardOn, working, todo>>

\* A chunk of PTY output or of a file.
WorkerSends(w) ==
    /\ loop # "panicked"
    /\ w \in working /\ Idle(w)
    /\ SendMessage(w)
    /\ UNCHANGED <<loop, stopped, linkVars, wire, lastSeq, heardOn, goVars>>

-----------------------------------------------------------------------------
(* The environment *)

\* main cancels the context.
Cancel ==
    /\ loop # "panicked"
    /\ ~stopped
    /\ stopped' = TRUE
    /\ UNCHANGED <<loop, linkVars, frameVars, lastSeq, heardOn, goVars>>

TransportBreaks ==
    /\ loop # "panicked"
    /\ \E c \in up : up' = up \ {c}
    /\ UNCHANGED <<loop, stopped, conn, dials, phase, connected, frameVars,
                   lastSeq, heardOn, goVars>>

\* The process has crashed, or its terminal agent has returned.
Ended == loop \in {"panicked", "done"} /\ UNCHANGED vars

ReaderStep ==
    \/ LoopTop \/ DialFails \/ DialSucceeds \/ ReadFails \/ CloseAll
    \/ BackoffElapses \/ WaitStopped
    \/ ReadOpen \/ ReadPing \/ ReadAck \/ SayHello \/ StartHeartbeat \/ Reply
    \/ \E n \in 1..MaxInbound : ReadMessage(n)

Next ==
    \/ ReaderStep
    \/ \E g \in Senders : \/ BeginWrite(g)
                          \/ FrameArrives(g)
                          \/ FrameLost(g)
                          \/ ConcurrentWrite(g)
    \/ \E b \in Beats : BeatChecks(b) \/ BeatSends(b)
    \/ \E w \in Workers : WorkerSends(w)
    \/ Cancel
    \/ TransportBreaks
    \/ Ended

Spec == Init /\ [][Next]_vars

\* Runnable goroutines run, writes and dials return, timers fire; nothing says
\* that the backend sends, that a worker has output or that a link breaks.
Fairness ==
    /\ WF_vars(LoopTop \/ DialFails \/ DialSucceeds)
    /\ WF_vars(ReadFails \/ CloseAll \/ BackoffElapses \/ WaitStopped)
    /\ WF_vars(SayHello \/ StartHeartbeat \/ Reply)
    /\ \A g \in Senders : WF_vars(BeginWrite(g) \/ FrameArrives(g) \/ FrameLost(g))
    /\ \A b \in Beats : WF_vars(BeatChecks(b) \/ BeatSends(b))

FairSpec == Spec /\ Fairness

-----------------------------------------------------------------------------
(* Properties *)

Carries(g, n) == out[g].kind = "message" /\ out[g].seq = n

InFlight(n) == \E g \in Senders : Carries(g, n)

Arrived(n) == \E c \in Conns : \E i \in DOMAIN wire[c] : wire[c][i].seq = n

\* No two messages of the whole run carry one sequence number, wherever they
\* are: being sent by two goroutines, or received on one connection or on two.
\* The number is drawn in sendMessage and used after the unlock.
NumbersAreUnique ==
    /\ \A g, h \in Senders : \A n \in 1..MaxSeq :
         Carries(g, n) /\ Carries(h, n) => g = h
    /\ \A c, d \in Conns : \A i \in DOMAIN wire[c], j \in DOMAIN wire[d] :
         wire[c][i].seq = wire[d][j].seq => c = d /\ i = j
    /\ \A n \in 1..MaxSeq : ~(InFlight(n) /\ Arrived(n))

\* What one goroutine sends reaches the backend in the order of its numbers, on
\* one connection and from one to the next: between drawing a number and
\* writing the frame it may be overtaken by the others, and the link replaced,
\* but it never overtakes itself.  So a SESSION_END never comes before the last
\* output of its pump, nor the END of a download before its chunks.  Of two
\* goroutines it says nothing: a SESSION_READY, which the Reader sends, may come
\* after the pump's first output, and before a message of a lower number.
SenderOrder ==
    \A c, d \in Conns : \A i \in DOMAIN wire[c], j \in DOMAIN wire[d] :
      /\ wire[c][i].by = wire[d][j].by
      /\ c < d \/ (c = d /\ i < j)
      => wire[c][i].seq < wire[d][j].seq

\* While a.connected is set, a.conn is the newest connection, its handshake is
\* complete and the Reader serves it: no goroutine can take a half-open link,
\* or the flag of the previous one, for a session with the backend.
ConnectedMeansAcked ==
    connected => conn = dials /\ conn # 0 /\ phase = "acked" /\ loop \in {"read", "panicked"}

\* The replay window of onBackendMessage is that of the current connection:
\* numbers heard on an earlier one never make the agent refuse the backend.
WindowIsOfThisConnection ==
    connected /\ lastSeq > 0 => heardOn = conn

\* Once onConnected is through, an established link always has a heartbeat
\* loop that goes on: none exits on the sight of the previous link's end and
\* leaves the next one silent.
HeartbeatKeptUp ==
    connected /\ todo \in {"no", "reply"} => \E b \in Beats : beat[b] \in {"check", "send"}

\* What became of a number.
StatusOf(n) == IF n > seq THEN "unsent"
               ELSE IF InFlight(n) THEN "flight"
               ELSE IF Arrived(n) THEN "arrived"
               ELSE "lost"

Status == [n \in 1..MaxSeq |-> StatusOf(n)]

Channel == INSTANCE LossyChannel WITH MaxNumber <- MaxSeq, status <- Status

\* Every number is issued in turn, and its message arrives once or never,
\* whichever goroutines send it and however many connections it outlives.
ImplementsChannel == Channel!Spec

\* After a broken link the agent dials again, unless it is told to stop (or
\* the process has crashed): no lock and no write to the socket holds the Reader
\* for ever.  A write to a PTY can, which is TerminalSessions' subject.
RedialsAfterBreak ==
    (loop = "read" /\ conn \notin up) ~> (loop \in {"dial", "done", "panicked"})

\* When the terminal agent has stopped, its heartbeat loops end as well.
HeartbeatsEnd ==
    loop = "done" ~> \/ loop = "panicked"
                     \/ \A b \in Beats : beat[b] \in {"unborn", "gone"}

\* The process is never killed by a write of its own.
NoCrash == loop # "panicked"
=============================================================================
