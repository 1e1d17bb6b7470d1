------------------------- MODULE TerminalLinkProofs -------------------------
(***************************************************************************)
(* Proofs about TerminalLink, for every number of workers, heartbeat       *)
(* loops, connections and messages.                                        *)
(*                                                                         *)
(* The link's own invariants (LinkInv) need no more than the actions.  The *)
(* numbering needs one thing more, that a goroutine stamps a message only  *)
(* when the frame before it is out of its hands, which is what LinkInv     *)
(* says of a loop about to send; FrameStep then sorts the steps by what    *)
(* they do to the frames, and the numbering and the implementation of      *)
(* LossyChannel are proved from that.                                      *)
(*                                                                         *)
(* That a goroutine's frames arrive in its order (SenderOrder) needs the   *)
(* frame in its hand as well: its number is above all that have arrived    *)
(* from that goroutine, and it is bound for a connection no older than     *)
(* theirs (OrderInv).                                                      *)
(***************************************************************************)
EXTENDS TerminalLink, TLAPS

\* Where the Reader is agrees with the link's flags, a CONNECT frame is the
\* Reader's while the handshake waits for it, and whoever is about to send
\* has no frame in hand.
LinkInv ==
    /\ loop = "read" => conn = dials /\ conn # 0
    /\ loop \notin {"read", "panicked"} =>
         conn = 0 /\ Idle(Reader) /\ todo = "no"
    /\ \A g \in Senders : out[g].kind = "connect" => g = Reader /\ phase = "opened"
    /\ todo \in {"hello", "reply"} => Idle(Reader)
    /\ \A b \in Beats : beat[b] = "send" => Idle(b)
    /\ ConnectedMeansAcked
    /\ WindowIsOfThisConnection
    /\ HeartbeatKeptUp

\* The numbers in use have been drawn, and are used once.
NumberInv ==
    /\ \A g \in Senders : \A n \in 1..MaxSeq : Carries(g, n) => n <= seq
    /\ \A n \in 1..MaxSeq : Arrived(n) => n <= seq
    /\ NumbersAreUnique

\* A message in hand is numbered above all that its goroutine has delivered,
\* and once it is being written, no later connection has heard from it.
OrderInv ==
    /\ \A g \in Senders : out[g].conn <= dials
    /\ \A c \in Conns : \A i \in DOMAIN wire[c] :
         /\ c <= dials
         /\ LET f == out[wire[c][i].by]
            IN  f.kind = "message" => /\ wire[c][i].seq < f.seq
                                      /\ f.conn # 0 => c <= f.conn
    /\ SenderOrder

-----------------------------------------------------------------------------
(* Type correctness *)

LEMMA SendTypes ==
    ASSUME TypeOK, NEW g \in Senders,
           SendMessage(g) \/ SendBare(g, "connect") \/ SendBare(g, "pong")
    PROVE  seq' \in 0..MaxSeq /\ out' \in [Senders -> Frames]
<1>0. /\ MaxSeq \in Nat /\ MaxConns \in Nat
      /\ seq \in 0..MaxSeq /\ out \in [Senders -> Frames]
  BY LinkAssumption DEF TypeOK
<1>1. CASE SendMessage(g) /\ connected /\ conn # 0 /\ seq < MaxSeq
  <2>1. seq + 1 \in 1..MaxSeq
    BY <1>0, <1>1
  <2>2. [at |-> "ready", kind |-> "message", seq |-> seq + 1, conn |-> 0] \in Frames
    BY <1>0, <2>1 DEF Frames, MessageFrames
  <2> QED BY <1>0, <1>1, <2>1, <2>2 DEF SendMessage
<1>2. CASE SendMessage(g) /\ ~(connected /\ conn # 0 /\ seq < MaxSeq)
  BY <1>0, <1>2 DEF SendMessage
<1>3. ASSUME NEW k \in {"connect", "pong"}, SendBare(g, k)
      PROVE  seq' \in 0..MaxSeq /\ out' \in [Senders -> Frames]
  <2>1. [at |-> "ready", kind |-> k, seq |-> 0, conn |-> 0] \in Frames
    BY <1>0 DEF Frames, BareFrames
  <2> QED BY <1>0, <1>3, <2>1 DEF SendBare
<1> QED BY <1>1, <1>2, <1>3

\* The state always has the types of the agent's fields and goroutines.
THEOREM TypeCorrect == Spec => []TypeOK
<1>1. Init => TypeOK
  <2> SUFFICES ASSUME Init PROVE TypeOK
    OBVIOUS
  <2>1. stopped \in BOOLEAN /\ connected \in BOOLEAN
    BY Zenon DEF Init
  <2>2. wire \in Logs
    BY DEF Init, Logs
  <2>3. out \in [Senders -> Frames] /\ up \in SUBSET Conns /\ working \in SUBSET Workers
    BY DEF Init, Frames
  <2> QED BY <2>1, <2>2, <2>3, LinkAssumption DEF Init, TypeOK
<1>2. TypeOK /\ [Next]_vars => TypeOK'
  <2> SUFFICES ASSUME TypeOK, [Next]_vars PROVE TypeOK'
    OBVIOUS
  <2>0. Reader \in Senders /\ Workers \subseteq Senders /\ Beats \subseteq Senders
    BY DEF Senders
  <2> USE LinkAssumption DEF linkVars, frameVars, goVars
  <2>1. CASE LoopTop \/ DialFails \/ BackoffElapses \/ WaitStopped
    BY <2>1 DEF LoopTop, DialFails, BackoffElapses, WaitStopped, TypeOK
  <2>2. CASE DialSucceeds
    BY <2>2 DEF DialSucceeds, TypeOK, Conns
  <2>3. CASE ReadOpen
    BY <2>0, <2>3, SendTypes DEF ReadOpen, TypeOK
  <2>4. CASE ReadPing
    BY <2>0, <2>4, SendTypes DEF ReadPing, TypeOK
  <2>5. CASE ReadAck
    BY <2>5 DEF ReadAck, TypeOK
  <2>6. CASE SayHello \/ Reply
    BY <2>0, <2>6, SendTypes DEF SayHello, Reply, TypeOK
  <2>7. CASE StartHeartbeat
    BY <2>7 DEF StartHeartbeat, TypeOK
  <2>8. ASSUME NEW n \in 1..MaxInbound, ReadMessage(n) PROVE TypeOK'
    <3>1. working' \in SUBSET Workers
      BY <2>8 DEF ReadMessage, TypeOK
    <3> QED BY <2>8, <3>1 DEF ReadMessage, TypeOK
  <2>9. ASSUME NEW g \in Senders, BeginWrite(g) PROVE TypeOK'
    <3>1. out[g] \in Frames /\ conn \in 0..MaxConns /\ out[g].at = "ready"
      BY <2>9 DEF TypeOK, BeginWrite
    <3>2. [at |-> "writing", kind |-> out[g].kind, seq |-> out[g].seq, conn |-> conn]
            \in Frames
      BY <3>1 DEF Frames, BareFrames, MessageFrames, NoFrame
    <3>3. out' \in [Senders -> Frames]
      BY <2>9, <3>2 DEF BeginWrite, TypeOK, Frames
    <3> QED BY <2>9, <3>3 DEF BeginWrite, TypeOK
  <2>10. ASSUME NEW g \in Senders, FrameArrives(g) PROVE TypeOK'
    <3>1. out' \in [Senders -> Frames] /\ phase' \in {"fresh", "opened", "joined", "acked"}
      BY <2>10 DEF FrameArrives, TypeOK, Frames
    <3>2. wire' \in Logs
      <4>1. CASE out[g].kind = "message"
        <5>1. out[g] \in MessageFrames /\ out[g].conn \in Conns
          BY <2>10, <4>1 DEF FrameArrives, TypeOK, Frames, BareFrames, NoFrame
        <5>2. [by |-> g, seq |-> out[g].seq] \in Receipts
          BY <5>1 DEF MessageFrames, Receipts
        <5>3. wire[out[g].conn] \in Seq(Receipts)
          BY <5>1 DEF TypeOK, Logs
        <5>4. Append(wire[out[g].conn], [by |-> g, seq |-> out[g].seq])
                \in Seq(Receipts)
          BY <5>2, <5>3
        <5> QED BY <2>10, <4>1, <5>4 DEF FrameArrives, TypeOK, Logs
      <4>2. CASE out[g].kind # "message"
        BY <2>10, <4>2 DEF FrameArrives, TypeOK
      <4> QED BY <4>1, <4>2
    <3> QED BY <2>10, <3>1, <3>2 DEF FrameArrives, TypeOK
  <2>11. ASSUME NEW g \in Senders, FrameLost(g) PROVE TypeOK'
    BY <2>11 DEF FrameLost, TypeOK, Frames
  <2>12. ASSUME NEW g \in Senders, ConcurrentWrite(g) PROVE TypeOK'
    BY <2>12 DEF ConcurrentWrite, TypeOK
  <2>13. ASSUME NEW b \in Beats, BeatChecks(b) PROVE TypeOK'
    BY <2>13 DEF BeatChecks, TypeOK
  <2>14. ASSUME NEW b \in Beats, BeatSends(b) PROVE TypeOK'
    <3>1. seq' \in 0..MaxSeq /\ out' \in [Senders -> Frames]
      BY <2>0, <2>14, SendTypes DEF BeatSends
    <3> QED BY <2>14, <3>1 DEF BeatSends, TypeOK
  <2>15. ASSUME NEW w \in Workers, WorkerSends(w) PROVE TypeOK'
    <3>1. seq' \in 0..MaxSeq /\ out' \in [Senders -> Frames]
      BY <2>0, <2>15, SendTypes DEF WorkerSends
    <3> QED BY <2>15, <3>1 DEF WorkerSends, TypeOK
  <2>16. CASE Cancel \/ TransportBreaks
    BY <2>16 DEF Cancel, TransportBreaks, TypeOK
  <2>17. CASE Ended \/ UNCHANGED vars
    BY <2>17 DEF Ended, vars, TypeOK
  <2>18. CASE ReadFails \/ CloseAll
    <3>1. connected' \in BOOLEAN
      BY <2>18, Zenon DEF ReadFails, CloseAll
    <3> QED BY <2>18, <3>1 DEF ReadFails, CloseAll, TypeOK
  <2> QED
    BY <2>1, <2>2, <2>3, <2>4, <2>5, <2>6, <2>7, <2>8, <2>9, <2>10, <2>11, <2>12,
       <2>13, <2>14, <2>15, <2>16, <2>17, <2>18 DEF Next, ReaderStep
<1> QED BY <1>1, <1>2, PTL DEF Spec

-----------------------------------------------------------------------------
(* The link *)

LEMMA LinkStep ==
    ASSUME TypeOK, LinkInv, [Next]_vars
    PROVE  LinkInv'
<1>0. /\ Reader \in Senders /\ Workers \subseteq Senders /\ Beats \subseteq Senders
      /\ Reader \notin Workers \cup Beats
  BY LinkAssumption DEF Senders
<1> USE LinkAssumption, <1>0
    DEF linkVars, frameVars, goVars, LinkInv, Idle,
        ConnectedMeansAcked, WindowIsOfThisConnection, HeartbeatKeptUp
<1>1. CASE LoopTop \/ DialFails \/ BackoffElapses \/ WaitStopped
  BY <1>1 DEF LoopTop, DialFails, BackoffElapses, WaitStopped
<1>2. CASE DialSucceeds
  <2>1. out[Reader] \in Frames /\ out[Reader].at = "idle" /\ ~connected
    BY <1>2, LinkAssumption DEF DialSucceeds, TypeOK
  <2>2. out[Reader].kind = "none"
    BY <2>1 DEF Frames, NoFrame, BareFrames, MessageFrames
  <2>3. \A g \in Senders : out[g].kind # "connect"
    BY <2>2
  <2> QED BY <1>2, <2>1, <2>3 DEF DialSucceeds, TypeOK
<1>3. CASE ReadFails \/ CloseAll
  <2>1. ~connected'
    BY <1>3, Zenon DEF ReadFails, CloseAll
  <2>2. /\ loop' \in {"close", "wait"} /\ conn' = 0
        /\ todo = "no" /\ Idle(Reader)
        /\ UNCHANGED <<out, phase, todo, beat>>
    BY <1>3, Zenon DEF ReadFails, CloseAll
  <2> QED BY <2>1, <2>2
<1>4. CASE ReadOpen
  BY <1>4 DEF ReadOpen, Reading, SendBare, TypeOK
<1>5. CASE ReadPing
  BY <1>5 DEF ReadPing, Reading, SendBare, TypeOK
<1>6. CASE ReadAck
  BY <1>6 DEF ReadAck, Reading
<1>7. CASE SayHello \/ Reply
  BY <1>7 DEF SayHello, Reply, SendMessage, TypeOK
<1>8. CASE StartHeartbeat
  BY <1>8 DEF StartHeartbeat, TypeOK
<1>9. ASSUME NEW n \in 1..MaxInbound, ReadMessage(n) PROVE LinkInv'
  BY <1>9 DEF ReadMessage, Reading
<1>10. ASSUME NEW g \in Senders, BeginWrite(g) PROVE LinkInv'
  BY <1>10 DEF BeginWrite, NoFrame, TypeOK
<1>11. ASSUME NEW g \in Senders, FrameArrives(g) PROVE LinkInv'
  BY <1>11 DEF FrameArrives, NoFrame, TypeOK
<1>12. ASSUME NEW g \in Senders, FrameLost(g) PROVE LinkInv'
  BY <1>12 DEF FrameLost, NoFrame, TypeOK
<1>13. ASSUME NEW g \in Senders, ConcurrentWrite(g) PROVE LinkInv'
  BY <1>13 DEF ConcurrentWrite
<1>14. ASSUME NEW b \in Beats, BeatChecks(b) PROVE LinkInv'
  BY <1>14 DEF BeatChecks, TypeOK
<1>15. ASSUME NEW b \in Beats, BeatSends(b) PROVE LinkInv'
  BY <1>15 DEF BeatSends, SendMessage, TypeOK
<1>16. ASSUME NEW w \in Workers, WorkerSends(w) PROVE LinkInv'
  BY <1>16 DEF WorkerSends, SendMessage, TypeOK
<1>17. CASE Cancel \/ TransportBreaks
  BY <1>17 DEF Cancel, TransportBreaks
<1>18. CASE Ended \/ UNCHANGED vars
  BY <1>18 DEF Ended, vars
<1> QED
  BY <1>1, <1>2, <1>3, <1>4, <1>5, <1>6, <1>7, <1>8, <1>9, <1>10, <1>11, <1>12,
     <1>13, <1>14, <1>15, <1>16, <1>17, <1>18 DEF Next, ReaderStep

LEMMA LinkInit == Init => LinkInv
<1> SUFFICES ASSUME Init PROVE LinkInv
  OBVIOUS
<1>1. ~connected
  BY Zenon DEF Init
<1>2. \A g \in Senders : Idle(g) /\ out[g].kind = "none"
  BY DEF Init, Idle, NoFrame
<1>3. loop = "top" /\ conn = 0 /\ todo = "no" /\ \A b \in Beats : beat[b] = "unborn"
  BY DEF Init
<1> QED
  BY <1>1, <1>2, <1>3 DEF LinkInv, ConnectedMeansAcked, WindowIsOfThisConnection,
     HeartbeatKeptUp, Senders

LEMMA LinkInvariant == Spec => []LinkInv
BY LinkInit, LinkStep, TypeCorrect, PTL DEF Spec

\* Being connected means a complete handshake on the newest connection.
THEOREM ConnectedIsAcked == Spec => []ConnectedMeansAcked
<1>1. LinkInv => ConnectedMeansAcked
  BY DEF LinkInv
<1> QED BY <1>1, LinkInvariant, PTL

\* The receive window never refuses this connection for an earlier one.
THEOREM WindowIsFresh == Spec => []WindowIsOfThisConnection
<1>1. LinkInv => WindowIsOfThisConnection
  BY DEF LinkInv
<1> QED BY <1>1, LinkInvariant, PTL

\* An established link has a heartbeat loop that goes on.
THEOREM HeartbeatLives == Spec => []HeartbeatKeptUp
<1>1. LinkInv => HeartbeatKeptUp
  BY DEF LinkInv
<1> QED BY <1>1, LinkInvariant, PTL

-----------------------------------------------------------------------------
(* What a step does to the frames *)

Stamps(g) ==
    /\ Idle(g) /\ seq + 1 \in 1..MaxSeq
    /\ seq' = seq + 1
    /\ out' = [out EXCEPT ![g] = [at |-> "ready", kind |-> "message",
                                  seq |-> seq + 1, conn |-> 0]]
    /\ UNCHANGED wire

\* The frame is taken up, for the newest connection, or one without a number is
\* made ready.
Handles(g) ==
    /\ \E f \in Frames :
         /\ f.kind = "message" => out[g].kind = "message" /\ f.seq = out[g].seq
         /\ out[g].kind = "message" => f.kind = "message"
         /\ f.conn \in {0, dials}
         /\ out' = [out EXCEPT ![g] = f]
    /\ UNCHANGED <<seq, wire>>

Drops(g) ==
    /\ out' = [out EXCEPT ![g] = NoFrame]
    /\ UNCHANGED <<seq, wire>>

Lands(g) ==
    /\ out[g] \in MessageFrames /\ out[g].conn \in Conns
    /\ wire' = [wire EXCEPT ![out[g].conn] =
                  Append(@, [by |-> g, seq |-> out[g].seq])]
    /\ out' = [out EXCEPT ![g] = NoFrame]
    /\ UNCHANGED seq

LEMMA SendShape ==
    ASSUME TypeOK, NEW g \in Senders, Idle(g), UNCHANGED wire,
           \/ SendMessage(g)
           \/ SendBare(g, "connect")
           \/ SendBare(g, "pong")
    PROVE  Stamps(g) \/ Handles(g) \/ UNCHANGED frameVars
<1>0. /\ MaxSeq \in Nat /\ MaxConns \in Nat
      /\ seq \in 0..MaxSeq /\ out[g] \in Frames
  BY LinkAssumption DEF TypeOK
<1>1. CASE SendMessage(g)
  BY <1>0, <1>1 DEF SendMessage, Stamps, frameVars
<1>2. ASSUME NEW k \in {"connect", "pong"}, SendBare(g, k) PROVE Handles(g)
  <2>1. [at |-> "ready", kind |-> k, seq |-> 0, conn |-> 0] \in Frames
    BY <1>0 DEF Frames, BareFrames
  <2>2. out[g].kind = "none"
    BY <1>0 DEF Idle, Frames, NoFrame, BareFrames, MessageFrames
  <2> QED BY <1>2, <2>1, <2>2 DEF SendBare, Handles
<1> QED BY <1>1, <1>2

LEMMA FrameStep ==
    ASSUME TypeOK, LinkInv, [Next]_vars
    PROVE  \/ \E g \in Senders : Stamps(g) \/ Handles(g) \/ Drops(g) \/ Lands(g)
           \/ UNCHANGED frameVars
<1>0. Reader \in Senders /\ Workers \subseteq Senders /\ Beats \subseteq Senders
  BY DEF Senders
<1>1. CASE ReadOpen \/ ReadPing \/ SayHello \/ Reply
  <2>1. Idle(Reader) /\ UNCHANGED wire
    BY <1>1 DEF ReadOpen, ReadPing, SayHello, Reply, Reading, LinkInv
  <2>2. SendMessage(Reader) \/ SendBare(Reader, "connect") \/ SendBare(Reader, "pong")
    BY <1>1 DEF ReadOpen, ReadPing, SayHello, Reply
  <2> QED BY <1>0, <2>1, <2>2, SendShape
<1>2. ASSUME NEW n \in 1..MaxInbound, ReadMessage(n) PROVE UNCHANGED frameVars
  BY <1>2 DEF ReadMessage
<1>3. ASSUME NEW g \in Senders, BeginWrite(g) PROVE Handles(g) \/ Drops(g)
  <2>1. out[g] \in Frames /\ conn \in 0..MaxConns /\ out[g].at = "ready"
    BY <1>3 DEF TypeOK, BeginWrite
  <2>2. CASE conn = 0
    BY <1>3, <2>2 DEF BeginWrite, Drops
  <2>3. CASE conn # 0
    <3> DEFINE f == [at |-> "writing", kind |-> out[g].kind, seq |-> out[g].seq,
                     conn |-> conn]
    <3>1. f \in Frames
      BY <2>1 DEF Frames, BareFrames, MessageFrames, NoFrame
    <3>2. out' = [out EXCEPT ![g] = f] /\ UNCHANGED <<seq, wire>>
      BY <1>3, <2>3 DEF BeginWrite
    <3>3. f.kind = out[g].kind /\ f.seq = out[g].seq
      OBVIOUS
    <3>4. f.conn = dials
      BY <1>3, <2>3 DEF BeginWrite, LinkInv
    <3> QED BY <3>1, <3>2, <3>3, <3>4 DEF Handles
  <2> QED BY <2>2, <2>3
<1>4. ASSUME NEW g \in Senders, FrameArrives(g) PROVE Lands(g) \/ Drops(g)
  <2>1. out[g] \in Frames /\ out[g].conn \in Conns /\ out[g].at = "writing"
    BY <1>4 DEF TypeOK, FrameArrives
  <2>2. CASE out[g].kind = "message"
    <3>1. out[g] \in MessageFrames
      BY <2>1, <2>2 DEF Frames, BareFrames, NoFrame
    <3> QED BY <1>4, <2>1, <2>2, <3>1 DEF FrameArrives, Lands
  <2>3. CASE out[g].kind # "message"
    BY <1>4, <2>3 DEF FrameArrives, Drops
  <2> QED BY <2>2, <2>3
<1>5. ASSUME NEW g \in Senders, FrameLost(g) PROVE Drops(g)
  BY <1>5 DEF FrameLost, Drops
<1>6. ASSUME NEW b \in Beats, BeatSends(b)
      PROVE  Stamps(b) \/ Handles(b) \/ UNCHANGED frameVars
  BY <1>0, <1>6, SendShape DEF BeatSends, LinkInv
<1>7. ASSUME NEW w \in Workers, WorkerSends(w)
      PROVE  Stamps(w) \/ Handles(w) \/ UNCHANGED frameVars
  BY <1>0, <1>7, SendShape DEF WorkerSends
<1>8. CASE \/ LoopTop \/ DialFails \/ DialSucceeds \/ ReadFails \/ CloseAll
           \/ BackoffElapses \/ WaitStopped \/ ReadAck \/ StartHeartbeat
           \/ \E g \in Senders : ConcurrentWrite(g)
           \/ \E b \in Beats : BeatChecks(b)
           \/ Cancel \/ TransportBreaks \/ Ended \/ UNCHANGED vars
  BY <1>8, Zenon DEF LoopTop, DialFails, DialSucceeds, ReadFails, CloseAll,
     BackoffElapses, WaitStopped, ReadAck, StartHeartbeat, ConcurrentWrite,
     BeatChecks, Cancel, TransportBreaks, Ended, vars, frameVars
<1> QED
  BY <1>0, <1>1, <1>2, <1>3, <1>4, <1>5, <1>6, <1>7, <1>8 DEF Next, ReaderStep

-----------------------------------------------------------------------------
(* Numbering *)

\* A stamp puts one more number in flight and leaves the others where they are.
LEMMA StampEffect ==
    ASSUME TypeOK, NEW g \in Senders, Stamps(g)
    PROVE  /\ \A h \in Senders : \A n \in 1..MaxSeq :
                Carries(h, n)' <=> (h = g /\ n = seq + 1) \/ (h # g /\ Carries(h, n))
           /\ ~ \E n \in 1..MaxSeq : Carries(g, n)
<1>1. out[g] \in Frames /\ out \in [Senders -> Frames]
  BY DEF TypeOK
<1>2. out[g].kind = "none"
  BY <1>1 DEF Stamps, Idle, NoFrame, Frames, BareFrames, MessageFrames
<1> QED BY <1>1, <1>2 DEF Stamps, Carries

\* Handling a frame moves no number.
LEMMA HandleEffect ==
    ASSUME TypeOK, NEW g \in Senders, Handles(g)
    PROVE  \A h \in Senders : \A n \in 1..MaxSeq : Carries(h, n)' <=> Carries(h, n)
<1>1. out \in [Senders -> Frames]
  BY DEF TypeOK
<1> QED BY <1>1 DEF Handles, Carries

\* A frame that is dropped or has landed is in nobody's hands.
LEMMA ReleaseEffect ==
    ASSUME TypeOK, NEW g \in Senders, out' = [out EXCEPT ![g] = NoFrame]
    PROVE  \A h \in Senders : \A n \in 1..MaxSeq :
             Carries(h, n)' <=> h # g /\ Carries(h, n)
<1>1. out \in [Senders -> Frames]
  BY DEF TypeOK
<1> QED BY <1>1 DEF NoFrame, Carries

\* A landed message is the last entry of one connection's log.
LEMMA LandEffect ==
    ASSUME TypeOK, NEW g \in Senders, Lands(g)
    PROVE  /\ out[g].seq \in 1..MaxSeq /\ Carries(g, out[g].seq)
           /\ \A c \in Conns :
                /\ wire[c] \in Seq(Receipts)
                /\ c # out[g].conn => wire'[c] = wire[c]
           /\ LET c == out[g].conn
              IN  /\ DOMAIN wire'[c] = 1..Len(wire[c]) + 1
                  /\ DOMAIN wire[c] = 1..Len(wire[c]) /\ Len(wire[c]) \in Nat
                  /\ wire'[c][Len(wire[c]) + 1].seq = out[g].seq
                  /\ wire'[c][Len(wire[c]) + 1].by = g
                  /\ \A i \in DOMAIN wire[c] : wire'[c][i] = wire[c][i]
<1> DEFINE c == out[g].conn
           e == [by |-> g, seq |-> out[g].seq]
<1>1. out[g].seq \in 1..MaxSeq /\ Carries(g, out[g].seq)
  BY DEF Lands, MessageFrames, Carries
<1>2. wire \in [Conns -> Seq(Receipts)] /\ c \in Conns
  BY DEF TypeOK, Logs, Lands
<1>3. e \in Receipts
  BY <1>1 DEF Receipts
<1>4. wire'[c] = Append(wire[c], e)
  BY <1>2 DEF Lands
<1>5. \A d \in Conns : d # c => wire'[d] = wire[d]
  BY <1>2 DEF Lands
<1> HIDE DEF c, e
<1>6. /\ DOMAIN wire'[c] = 1..Len(wire[c]) + 1
      /\ DOMAIN wire[c] = 1..Len(wire[c]) /\ Len(wire[c]) \in Nat
      /\ wire'[c][Len(wire[c]) + 1] = e
      /\ \A i \in DOMAIN wire[c] : wire'[c][i] = wire[c][i]
  BY <1>2, <1>3, <1>4
<1> QED BY <1>1, <1>2, <1>5, <1>6 DEF c, e

\* A landed number has arrived; the numbers that had arrived before stay so.
LEMMA LandArrives ==
    ASSUME TypeOK, NEW g \in Senders, Lands(g), NEW n \in 1..MaxSeq
    PROVE  Arrived(n)' <=> Arrived(n) \/ n = out[g].seq
<1> DEFINE c == out[g].conn
<1>0. c \in Conns
  BY DEF Lands
<1>1. ASSUME Arrived(n) PROVE Arrived(n)'
  <2>1. PICK d \in Conns : \E i \in DOMAIN wire[d] : wire[d][i].seq = n
    BY <1>1 DEF Arrived
  <2>2. PICK i \in DOMAIN wire[d] : wire[d][i].seq = n
    BY <2>1
  <2>3. i \in DOMAIN wire'[d] /\ wire'[d][i] = wire[d][i]
    <3>1. CASE d = c
      BY <3>1, LandEffect
    <3>2. CASE d # c
      BY <3>2, LandEffect
    <3> QED BY <3>1, <3>2
  <2> QED BY <2>2, <2>3 DEF Arrived
<1>2. ASSUME n = out[g].seq PROVE Arrived(n)'
  <2>1. Len(wire[c]) + 1 \in DOMAIN wire'[c] /\ wire'[c][Len(wire[c]) + 1].seq = n
    BY <1>2, LandEffect
  <2> QED BY <1>0, <2>1 DEF Arrived
<1>3. ASSUME Arrived(n)' PROVE Arrived(n) \/ n = out[g].seq
  <2>1. PICK d \in Conns : \E i \in DOMAIN wire'[d] : wire'[d][i].seq = n
    BY <1>3 DEF Arrived
  <2>2. PICK i \in DOMAIN wire'[d] : wire'[d][i].seq = n
    BY <2>1
  <2>3. CASE i \in DOMAIN wire[d]
    BY <2>2, <2>3, LandEffect DEF Arrived
  <2>4. CASE i \notin DOMAIN wire[d]
    <3>1. d = c /\ i = Len(wire[c]) + 1
      BY <2>4, LandEffect
    <3> QED BY <2>2, <3>1, LandEffect
  <2> QED BY <2>3, <2>4
<1> QED BY <1>1, <1>2, <1>3

\* A step that neither draws nor delivers a number keeps them in order.
LEMMA NumberKeeps ==
    ASSUME TypeOK, NumberInv, UNCHANGED <<seq, wire>>,
           \A h \in Senders : \A n \in 1..MaxSeq : Carries(h, n)' => Carries(h, n)
    PROVE  NumberInv'
<1>1. \A n \in 1..MaxSeq : Arrived(n)' <=> Arrived(n)
  BY DEF Arrived
<1>2. \A n \in 1..MaxSeq : InFlight(n)' => InFlight(n)
  BY DEF InFlight
<1>3. NumbersAreUnique'
  BY <1>1, <1>2 DEF NumberInv, NumbersAreUnique
<1> QED BY <1>1, <1>3 DEF NumberInv

LEMMA NumberStamps ==
    ASSUME TypeOK, NumberInv, NEW g \in Senders, Stamps(g)
    PROVE  NumberInv'
<1>0. /\ MaxSeq \in Nat /\ seq \in 0..MaxSeq
      /\ wire' = wire /\ seq' = seq + 1
  BY LinkAssumption DEF TypeOK, Stamps
<1>1. \A h \in Senders : \A n \in 1..MaxSeq :
        Carries(h, n)' <=> (h = g /\ n = seq + 1) \/ (h # g /\ Carries(h, n))
  BY StampEffect
<1>2. \A n \in 1..MaxSeq : Arrived(n)' <=> Arrived(n)
  BY <1>0 DEF Arrived
<1>3. /\ \A h \in Senders : \A n \in 1..MaxSeq : Carries(h, n) => n <= seq
      /\ \A n \in 1..MaxSeq : Arrived(n) => n <= seq
      /\ \A h, k \in Senders : \A n \in 1..MaxSeq :
           Carries(h, n) /\ Carries(k, n) => h = k
      /\ \A n \in 1..MaxSeq : ~(InFlight(n) /\ Arrived(n))
  BY DEF NumberInv, NumbersAreUnique
<1>4. \A h, k \in Senders : \A n \in 1..MaxSeq :
        Carries(h, n)' /\ Carries(k, n)' => h = k
  BY <1>0, <1>1, <1>3
<1>5. \A n \in 1..MaxSeq : ~(InFlight(n)' /\ Arrived(n)')
  BY <1>0, <1>1, <1>2, <1>3 DEF InFlight
<1>6. NumbersAreUnique'
  BY <1>0, <1>4, <1>5 DEF NumberInv, NumbersAreUnique
<1> QED BY <1>0, <1>1, <1>2, <1>3, <1>6 DEF NumberInv

LEMMA NumberLands ==
    ASSUME TypeOK, NumberInv, NEW g \in Senders, Lands(g)
    PROVE  NumberInv'
<1> DEFINE s == out[g].seq
           c == out[g].conn
<1>0. /\ MaxSeq \in Nat /\ seq \in 0..MaxSeq /\ seq' = seq
      /\ s \in 1..MaxSeq /\ Carries(g, s) /\ c \in Conns
  BY LinkAssumption, LandEffect DEF TypeOK, Lands
<1>1. \A h \in Senders : \A n \in 1..MaxSeq :
        Carries(h, n)' <=> h # g /\ Carries(h, n)
  BY ReleaseEffect DEF Lands
<1>2. \A n \in 1..MaxSeq : Arrived(n)' <=> Arrived(n) \/ n = s
  BY LandArrives
<1>3. /\ \A h, k \in Senders : \A n \in 1..MaxSeq :
           Carries(h, n) /\ Carries(k, n) => h = k
      /\ \A n \in 1..MaxSeq : ~(InFlight(n) /\ Arrived(n))
      /\ \A a, b \in Conns : \A i \in DOMAIN wire[a], j \in DOMAIN wire[b] :
           wire[a][i].seq = wire[b][j].seq => a = b /\ i = j
  BY DEF NumberInv, NumbersAreUnique
<1>4. ~Arrived(s)
  BY <1>0, <1>3 DEF InFlight
<1>5. \A n \in 1..MaxSeq : ~(InFlight(n)' /\ Arrived(n)')
  BY <1>0, <1>1, <1>2, <1>3 DEF InFlight
<1>6. ASSUME NEW a \in Conns, NEW b \in Conns,
             NEW i \in DOMAIN wire'[a], NEW j \in DOMAIN wire'[b],
             wire'[a][i].seq = wire'[b][j].seq
      PROVE  a = b /\ i = j
  <2>1. \A d \in Conns : \A k \in DOMAIN wire'[d] :
          \/ k \in DOMAIN wire[d] /\ wire'[d][k] = wire[d][k] /\ wire'[d][k].seq # s
          \/ d = c /\ k = Len(wire[c]) + 1 /\ wire'[d][k].seq = s
    <3> SUFFICES ASSUME NEW d \in Conns, NEW k \in DOMAIN wire'[d]
                 PROVE  \/ /\ k \in DOMAIN wire[d] /\ wire'[d][k] = wire[d][k]
                           /\ wire'[d][k].seq # s
                        \/ d = c /\ k = Len(wire[c]) + 1 /\ wire'[d][k].seq = s
      OBVIOUS
    <3>1. CASE k \in DOMAIN wire[d]
      <4>1. wire'[d][k] = wire[d][k]
        BY <3>1, LandEffect
      <4>2. wire[d][k].seq # s
        BY <1>4, <3>1 DEF Arrived
      <4> QED BY <3>1, <4>1, <4>2
    <3>2. CASE k \notin DOMAIN wire[d]
      <4>1. d = c /\ k = Len(wire[c]) + 1
        BY <3>2, LandEffect
      <4> QED BY <4>1, LandEffect
    <3> QED BY <3>1, <3>2
  <2> HIDE DEF s, c
  <2>2. CASE wire'[a][i].seq = s
    BY <1>6, <2>1, <2>2
  <2>3. CASE wire'[a][i].seq # s
    <3>1. i \in DOMAIN wire[a] /\ j \in DOMAIN wire[b] /\ wire[a][i].seq = wire[b][j].seq
      BY <1>6, <2>1, <2>3
    <3> QED BY <1>3, <3>1
  <2> QED BY <2>2, <2>3
<1>7. \A h, k \in Senders : \A n \in 1..MaxSeq :
        Carries(h, n)' /\ Carries(k, n)' => h = k
  BY <1>1, <1>3
<1>8. NumbersAreUnique'
  BY <1>5, <1>6, <1>7 DEF NumbersAreUnique
<1>9. /\ \A h \in Senders : \A n \in 1..MaxSeq : Carries(h, n) => n <= seq
      /\ \A n \in 1..MaxSeq : Arrived(n) => n <= seq
  BY DEF NumberInv
<1> QED BY <1>0, <1>1, <1>2, <1>8, <1>9 DEF NumberInv

LEMMA NumberStep ==
    ASSUME TypeOK, LinkInv, NumberInv, [Next]_vars
    PROVE  NumberInv'
<1>1. CASE \E g \in Senders : Stamps(g)
  BY <1>1, NumberStamps
<1>2. CASE \E g \in Senders : Lands(g)
  BY <1>2, NumberLands
<1>3. CASE \E g \in Senders : Handles(g)
  <2>1. UNCHANGED <<seq, wire>>
    BY <1>3 DEF Handles
  <2> QED BY <1>3, <2>1, HandleEffect, NumberKeeps
<1>4. CASE \E g \in Senders : Drops(g)
  <2>1. UNCHANGED <<seq, wire>>
    BY <1>4 DEF Drops
  <2>2. \A h \in Senders : \A n \in 1..MaxSeq : Carries(h, n)' => Carries(h, n)
    BY <1>4, ReleaseEffect DEF Drops
  <2> QED BY <2>1, <2>2, NumberKeeps
<1>5. CASE UNCHANGED frameVars
  BY <1>5, NumberKeeps DEF frameVars, Carries
<1> QED BY <1>1, <1>2, <1>3, <1>4, <1>5, FrameStep

LEMMA NumberInit == Init => NumberInv
<1> SUFFICES ASSUME Init PROVE NumberInv
  OBVIOUS
<1>1. \A g \in Senders : out[g].kind = "none"
  BY DEF Init, NoFrame
<1>2. \A c \in Conns : DOMAIN wire[c] = {}
  BY DEF Init
<1> QED BY <1>1, <1>2 DEF NumberInv, NumbersAreUnique, Carries, InFlight, Arrived

LEMMA NumberInvariant == Spec => []NumberInv
BY NumberInit, NumberStep, LinkInvariant, TypeCorrect, PTL DEF Spec

\* No sequence number is used twice, in flight or on any wire.
THEOREM UniqueNumbers == Spec => []NumbersAreUnique
<1>1. NumberInv => NumbersAreUnique
  BY DEF NumberInv
<1> QED BY <1>1, NumberInvariant, PTL

-----------------------------------------------------------------------------
(* The order of a sender's messages *)

LEMMA DialsGrow ==
    ASSUME TypeOK, [Next]_vars
    PROVE  dials \in Nat /\ dials' \in Nat /\ dials <= dials'
<1>0. dials \in 0..MaxConns /\ MaxConns \in Nat
  BY LinkAssumption DEF TypeOK
<1>1. dials' = dials \/ dials' = dials + 1
  <2>1. CASE DialSucceeds
    BY <2>1 DEF DialSucceeds
  <2>2. CASE \/ LoopTop \/ DialFails \/ ReadFails \/ CloseAll \/ BackoffElapses
             \/ WaitStopped \/ ReadOpen \/ ReadPing \/ ReadAck \/ SayHello
             \/ StartHeartbeat \/ Reply \/ \E n \in 1..MaxInbound : ReadMessage(n)
    BY <2>2, Zenon DEF LoopTop, DialFails, ReadFails, CloseAll, BackoffElapses, WaitStopped,
       ReadOpen, ReadPing, ReadAck, SayHello, StartHeartbeat, Reply, ReadMessage, linkVars
  <2>3. CASE \/ \E g \in Senders : \/ BeginWrite(g) \/ FrameArrives(g)
                                   \/ FrameLost(g) \/ ConcurrentWrite(g)
             \/ \E b \in Beats : BeatChecks(b) \/ BeatSends(b)
             \/ \E w \in Workers : WorkerSends(w)
             \/ Cancel \/ TransportBreaks \/ Ended \/ UNCHANGED vars
    BY <2>3, Zenon DEF BeginWrite, FrameArrives, FrameLost, ConcurrentWrite, BeatChecks,
       BeatSends, WorkerSends, Cancel, TransportBreaks, Ended, vars, linkVars
  <2> QED BY <2>1, <2>2, <2>3 DEF Next, ReaderStep
<1> QED BY <1>0, <1>1

\* What a message of the logs is: a number between 1 and MaxSeq and its sender.
LEMMA ReceiptAt ==
    ASSUME TypeOK, NEW c \in Conns, NEW i \in DOMAIN wire[c]
    PROVE  wire[c][i].by \in Senders /\ wire[c][i].seq \in 1..MaxSeq
<1>1. wire[c] \in Seq(Receipts)
  BY DEF TypeOK, Logs
<1>2. wire[c][i] \in Receipts
  BY <1>1
<1> QED BY <1>2 DEF Receipts

\* A step that delivers nothing keeps the order, if whatever message is in hand
\* after it was in hand before or is new, and is not on an earlier connection.
LEMMA OrderKeeps ==
    ASSUME TypeOK, TypeOK', OrderInv, dials \in Nat, dials' \in Nat, dials <= dials',
           UNCHANGED wire,
           NEW g \in Senders, NEW f \in Frames, out' = [out EXCEPT ![g] = f],
           f.conn \in {0, dials},
           f.kind = "message" =>
              \/ f.seq = seq + 1 /\ \A n \in 1..MaxSeq : Arrived(n) => n <= seq
              \/ out[g].kind = "message" /\ f.seq = out[g].seq
    PROVE  OrderInv'
<1>0. out \in [Senders -> Frames] /\ wire' = wire /\ seq \in Nat
  BY DEF TypeOK
<1>1. \A h \in Senders : out'[h] = IF h = g THEN f ELSE out[h]
  BY <1>0
<1>2. ASSUME NEW h \in Senders PROVE out'[h].conn <= dials'
  <2>1. out[h] \in Frames /\ out[h].conn <= dials
    BY <1>0 DEF OrderInv
  <2>2. out[h].conn \in Nat
    BY <2>1, LinkAssumption DEF Frames, NoFrame, BareFrames, MessageFrames
  <2> QED BY <1>1, <2>1, <2>2
<1>3. ASSUME NEW c \in Conns, NEW i \in DOMAIN wire[c]
      PROVE  /\ c <= dials'
             /\ out'[wire[c][i].by].kind = "message" =>
                  /\ wire[c][i].seq < out'[wire[c][i].by].seq
                  /\ out'[wire[c][i].by].conn # 0 => c <= out'[wire[c][i].by].conn
  <2> DEFINE h == wire[c][i].by
  <2>1. h \in Senders /\ wire[c][i].seq \in 1..MaxSeq /\ c \in Nat
    BY ReceiptAt DEF Conns
  <2>2. /\ c <= dials
        /\ out[h].kind = "message" => /\ wire[c][i].seq < out[h].seq
                                      /\ out[h].conn # 0 => c <= out[h].conn
    BY DEF OrderInv
  <2>3. Arrived(wire[c][i].seq)
    BY DEF Arrived
  <2> HIDE DEF h
  <2>4. CASE h = g
    <3>1. out'[h] = f
      BY <1>1, <2>1, <2>4
    <3>2. wire[c][i].seq < f.seq \/ f.kind # "message"
      BY <1>0, <2>1, <2>2, <2>3, <2>4
    <3> QED BY <2>1, <2>2, <3>1, <3>2 DEF h
  <2>5. CASE h # g
    <3>1. out'[h] = out[h]
      BY <1>1, <2>1, <2>5
    <3> QED BY <2>1, <2>2, <3>1 DEF h
  <2> QED BY <2>1, <2>2, <2>4, <2>5 DEF h
<1>4. SenderOrder'
  BY <1>0 DEF OrderInv, SenderOrder
<1> QED BY <1>0, <1>2, <1>3, <1>4 DEF OrderInv

\* A landed message comes after all that its sender has delivered.
LEMMA OrderLands ==
    ASSUME TypeOK, OrderInv, dials \in Nat, dials' \in Nat, dials <= dials',
           NEW g \in Senders, Lands(g)
    PROVE  OrderInv'
<1> DEFINE s == out[g].seq
           c == out[g].conn
           k == Len(wire[c]) + 1
<1>0. /\ out \in [Senders -> Frames] /\ c \in Conns /\ c \in Nat /\ s \in 1..MaxSeq
      /\ out[g].kind = "message" /\ c <= dials /\ c # 0
      /\ out' = [out EXCEPT ![g] = NoFrame]
  BY LinkAssumption DEF TypeOK, Lands, Conns, MessageFrames, OrderInv
<1>1. \A d \in Conns : \A i \in DOMAIN wire'[d] :
        \/ i \in DOMAIN wire[d] /\ wire'[d][i] = wire[d][i]
        \/ d = c /\ i = k /\ wire'[d][i].by = g /\ wire'[d][i].seq = s
  <2> SUFFICES ASSUME NEW d \in Conns, NEW i \in DOMAIN wire'[d]
               PROVE  \/ i \in DOMAIN wire[d] /\ wire'[d][i] = wire[d][i]
                      \/ d = c /\ i = k /\ wire'[d][i].by = g /\ wire'[d][i].seq = s
    OBVIOUS
  <2>1. CASE d # c
    BY <2>1, LandEffect
  <2>2. CASE d = c
    <3>1. /\ i \in 1..Len(wire[c]) + 1 /\ Len(wire[c]) \in Nat
          /\ DOMAIN wire[c] = 1..Len(wire[c])
      BY <2>2, LandEffect
    <3>2. i \in DOMAIN wire[c] \/ i = k
      BY <3>1
    <3> QED BY <2>2, <3>2, LandEffect
  <2> QED BY <2>1, <2>2
<1>2. k \in Nat /\ \A i \in DOMAIN wire[c] : i \in Nat /\ i < k
  <2>1. DOMAIN wire[c] = 1..Len(wire[c]) /\ Len(wire[c]) \in Nat
    BY LandEffect
  <2> QED BY <2>1
<1>3. \A d \in Conns : \A i \in DOMAIN wire[d] :
        /\ wire[d][i].by \in Senders /\ wire[d][i].seq \in 1..MaxSeq
        /\ d \in Nat /\ d <= dials
        /\ wire[d][i].by = g => wire[d][i].seq < s /\ d <= c
  BY <1>0, ReceiptAt DEF OrderInv, Conns
<1> HIDE DEF s, c, k
<1>4. SenderOrder'
  <2> SUFFICES ASSUME NEW a \in Conns, NEW b \in Conns,
                      NEW i \in DOMAIN wire'[a], NEW j \in DOMAIN wire'[b],
                      wire'[a][i].by = wire'[b][j].by, a < b \/ (a = b /\ i < j)
               PROVE  wire'[a][i].seq < wire'[b][j].seq
    BY DEF SenderOrder
  <2>1. CASE i \in DOMAIN wire[a] /\ wire'[a][i] = wire[a][i]
    <3>1. CASE j \in DOMAIN wire[b] /\ wire'[b][j] = wire[b][j]
      BY <2>1, <3>1 DEF OrderInv, SenderOrder
    <3>2. CASE b = c /\ j = k /\ wire'[b][j].by = g /\ wire'[b][j].seq = s
      BY <1>3, <2>1, <3>2
    <3> QED BY <1>1, <3>1, <3>2
  <2>2. CASE a = c /\ i = k /\ wire'[a][i].by = g /\ wire'[a][i].seq = s
    <3>1. CASE j \in DOMAIN wire[b] /\ wire'[b][j] = wire[b][j]
      <4>1. b <= c /\ b \in Nat
        BY <1>3, <2>2, <3>1
      <4>2. a = b /\ i < j
        BY <1>0, <2>2, <4>1
      <4> QED BY <1>2, <2>2, <3>1, <4>2
    <3>2. CASE b = c /\ j = k /\ wire'[b][j].by = g /\ wire'[b][j].seq = s
      BY <1>0, <1>2, <2>2, <3>2
    <3> QED BY <1>1, <3>1, <3>2
  <2> QED BY <1>1, <2>1, <2>2
<1>5. \A h \in Senders : out'[h] = IF h = g THEN NoFrame ELSE out[h]
  BY <1>0
<1>6. ASSUME NEW h \in Senders PROVE out'[h].conn <= dials'
  <2>1. out[h] \in Frames /\ out[h].conn <= dials
    BY <1>0 DEF OrderInv
  <2>2. out[h].conn \in Nat
    BY <2>1, LinkAssumption DEF Frames, NoFrame, BareFrames, MessageFrames
  <2> QED BY <1>5, <2>1, <2>2 DEF NoFrame
<1>7. ASSUME NEW d \in Conns, NEW i \in DOMAIN wire'[d]
      PROVE  /\ d <= dials'
             /\ out'[wire'[d][i].by].kind = "message" =>
                  /\ wire'[d][i].seq < out'[wire'[d][i].by].seq
                  /\ out'[wire'[d][i].by].conn # 0 => d <= out'[wire'[d][i].by].conn
  <2>1. CASE i \in DOMAIN wire[d] /\ wire'[d][i] = wire[d][i]
    <3> DEFINE h == wire[d][i].by
    <3>1. h \in Senders /\ d \in Nat /\ d <= dials
      BY <1>3, <2>1
    <3>2. out[h].kind = "message" => /\ wire[d][i].seq < out[h].seq
                                     /\ out[h].conn # 0 => d <= out[h].conn
      BY <2>1 DEF OrderInv
    <3> HIDE DEF h
    <3>3. CASE h = g
      BY <1>5, <2>1, <3>1, <3>3 DEF NoFrame, h
    <3>4. CASE h # g
      BY <1>5, <2>1, <3>1, <3>2, <3>4 DEF h
    <3> QED BY <3>3, <3>4
  <2>2. CASE d = c /\ i = k /\ wire'[d][i].by = g /\ wire'[d][i].seq = s
    BY <1>0, <1>5, <2>2 DEF NoFrame
  <2> QED BY <1>1, <2>1, <2>2
<1> QED BY <1>4, <1>6, <1>7 DEF OrderInv

LEMMA OrderStep ==
    ASSUME TypeOK, TypeOK', LinkInv, NumberInv, OrderInv, [Next]_vars
    PROVE  OrderInv'
<1>0. dials \in Nat /\ dials' \in Nat /\ dials <= dials'
  BY DialsGrow
<1>1. ASSUME NEW g \in Senders, Stamps(g) PROVE OrderInv'
  <2> DEFINE f == [at |-> "ready", kind |-> "message", seq |-> seq + 1, conn |-> 0]
  <2>1. f \in Frames /\ f.conn = 0 /\ f.seq = seq + 1
    BY <1>1, LinkAssumption DEF Stamps, Frames, MessageFrames
  <2>2. out' = [out EXCEPT ![g] = f] /\ UNCHANGED wire
    BY <1>1 DEF Stamps
  <2>3. \A n \in 1..MaxSeq : Arrived(n) => n <= seq
    BY DEF NumberInv
  <2> HIDE DEF f
  <2> QED BY <1>0, <2>1, <2>2, <2>3, OrderKeeps
<1>2. ASSUME NEW g \in Senders, Handles(g) PROVE OrderInv'
  <2>1. PICK f \in Frames : /\ f.kind = "message" => out[g].kind = "message" /\ f.seq = out[g].seq
                            /\ f.conn \in {0, dials}
                            /\ out' = [out EXCEPT ![g] = f]
    BY <1>2 DEF Handles
  <2> QED BY <1>0, <1>2, <2>1, OrderKeeps DEF Handles
<1>3. ASSUME NEW g \in Senders, Drops(g) PROVE OrderInv'
  <2>1. NoFrame \in Frames /\ NoFrame.conn = 0 /\ NoFrame.kind # "message"
    BY DEF Frames, NoFrame
  <2>2. out' = [out EXCEPT ![g] = NoFrame] /\ UNCHANGED wire
    BY <1>3 DEF Drops
  <2> HIDE DEF NoFrame
  <2> QED BY <1>0, <2>1, <2>2, OrderKeeps
<1>4. ASSUME NEW g \in Senders, Lands(g) PROVE OrderInv'
  BY <1>0, <1>4, OrderLands
<1>5. CASE UNCHANGED frameVars
  <2>1. out' = out /\ wire' = wire
    BY <1>5 DEF frameVars
  <2>2. \A g \in Senders : out[g].conn \in Nat
    BY LinkAssumption DEF TypeOK, Frames, NoFrame, BareFrames, MessageFrames
  <2>3. \A g \in Senders : out[g].conn <= dials'
    BY <1>0, <2>2 DEF OrderInv
  <2>4. \A c \in Conns : DOMAIN wire[c] # {} => c <= dials'
    BY <1>0 DEF OrderInv, Conns
  <2> QED BY <2>1, <2>3, <2>4 DEF OrderInv, SenderOrder
<1> QED BY <1>1, <1>2, <1>3, <1>4, <1>5, FrameStep

LEMMA OrderInit == Init => OrderInv
<1> SUFFICES ASSUME Init PROVE OrderInv
  OBVIOUS
<1>1. \A g \in Senders : out[g].conn = 0
  BY DEF Init, NoFrame
<1>2. dials = 0 /\ \A c \in Conns : DOMAIN wire[c] = {}
  BY DEF Init
<1> QED BY <1>1, <1>2 DEF OrderInv, SenderOrder

\* What one goroutine sends arrives in the order of its numbers, however often
\* it is overtaken and the connection replaced.
THEOREM SendersInOrder == Spec => []SenderOrder
<1>1. OrderInv => SenderOrder
  BY DEF OrderInv
<1> QED
  BY <1>1, OrderInit, OrderStep, NumberInvariant, LinkInvariant, TypeCorrect, PTL DEF Spec

-----------------------------------------------------------------------------
(* The link implements the lossy channel *)

LEMMA ChannelInit == Init => Channel!Init
<1> SUFFICES ASSUME Init PROVE Channel!Init
  OBVIOUS
<1>1. \A n \in 1..MaxSeq : n > seq
  BY LinkAssumption DEF Init
<1> QED BY <1>1 DEF Status, StatusOf, Channel!Init, Channel!Numbers

\* It suffices to follow one number, the others keeping their status.
LEMMA OneNumberMoves ==
    ASSUME NEW n \in 1..MaxSeq, NEW v,
           StatusOf(n)' = v,
           \A m \in 1..MaxSeq : m # n => StatusOf(m)' = StatusOf(m)
    PROVE  Status' = [Status EXCEPT ![n] = v]
<1>1. Status = [m \in 1..MaxSeq |-> StatusOf(m)]
  BY DEF Status, StatusOf
<1>2. Status' = [m \in 1..MaxSeq |-> StatusOf(m)']
  BY DEF Status, StatusOf
<1> QED BY <1>1, <1>2

LEMMA NoNumberMoves ==
    ASSUME \A m \in 1..MaxSeq : StatusOf(m)' = StatusOf(m)
    PROVE  UNCHANGED Status
BY DEF Status, StatusOf

LEMMA StatusAt ==
    ASSUME NEW n \in 1..MaxSeq
    PROVE  Status[n] = StatusOf(n)
BY DEF Status, StatusOf

LEMMA StampIssues ==
    ASSUME TypeOK, NEW g \in Senders, Stamps(g)
    PROVE  \E n \in 1..MaxSeq : Channel!Issue(n)
<1>1. PICK n \in 1..MaxSeq : n = seq + 1
  BY DEF Stamps
<1>2. /\ MaxSeq \in Nat /\ seq \in 0..MaxSeq
      /\ wire' = wire /\ seq' = n
  BY <1>1, LinkAssumption DEF TypeOK, Stamps
<1>3. \A h \in Senders : \A m \in 1..MaxSeq :
        Carries(h, m)' <=> (h = g /\ m = n) \/ (h # g /\ Carries(h, m))
  BY <1>1, StampEffect
<1>4. ~ \E m \in 1..MaxSeq : Carries(g, m)
  BY StampEffect
<1>5. \A m \in 1..MaxSeq : Arrived(m)' <=> Arrived(m)
  BY <1>2 DEF Arrived
<1>6. \A m \in 1..MaxSeq : m # n => (InFlight(m)' <=> InFlight(m))
  BY <1>3, <1>4 DEF InFlight
<1>7. InFlight(n)'
  BY <1>3 DEF InFlight
<1>8. StatusOf(n)' = "flight"
  BY <1>2, <1>7 DEF StatusOf
<1>9. \A m \in 1..MaxSeq : m # n => StatusOf(m)' = StatusOf(m)
  BY <1>1, <1>2, <1>5, <1>6 DEF StatusOf
<1>10. Status' = [Status EXCEPT ![n] = "flight"]
  BY <1>8, <1>9, OneNumberMoves
<1>11. Status[n] = "unsent"
  BY <1>1, <1>2, StatusAt DEF StatusOf
<1>12. \A m \in 1..MaxSeq : m < n => Status[m] # "unsent"
  BY <1>1, <1>2, StatusAt DEF StatusOf
<1> QED BY <1>10, <1>11, <1>12 DEF Channel!Issue, Channel!Numbers

\* A released message leaves the air: the rest of a step decides where to.
LEMMA ReleaseMoves ==
    ASSUME TypeOK, NumberInv, UNCHANGED seq,
           NEW g \in Senders, out' = [out EXCEPT ![g] = NoFrame],
           NEW n \in 1..MaxSeq, Carries(g, n)
    PROVE  /\ n <= seq /\ ~InFlight(n)' /\ ~Arrived(n)
           /\ Status[n] = "flight"
           /\ \A m \in 1..MaxSeq : m # n => (InFlight(m)' <=> InFlight(m))
<1>1. \A h \in Senders : \A m \in 1..MaxSeq :
        Carries(h, m)' <=> h # g /\ Carries(h, m)
  BY ReleaseEffect
<1>2. \A h \in Senders : Carries(h, n) => h = g
  BY DEF NumberInv, NumbersAreUnique
<1>3. n <= seq /\ InFlight(n) /\ ~Arrived(n)
  BY DEF NumberInv, NumbersAreUnique, InFlight
<1>4. ~InFlight(n)'
  BY <1>1, <1>2 DEF InFlight
<1>5. \A m \in 1..MaxSeq : m # n => ~Carries(g, m)
  BY DEF Carries
<1>6. \A m \in 1..MaxSeq : m # n => (InFlight(m)' <=> InFlight(m))
  BY <1>1, <1>5 DEF InFlight
<1>7. Status[n] = "flight"
  <2>1. seq \in Nat
    BY LinkAssumption DEF TypeOK
  <2> QED BY <1>3, <2>1, StatusAt DEF StatusOf
<1> QED BY <1>3, <1>4, <1>6, <1>7

LEMMA DropLoses ==
    ASSUME TypeOK, NumberInv, NEW g \in Senders, Drops(g)
    PROVE  (\E n \in 1..MaxSeq : Channel!Lose(n)) \/ UNCHANGED Status
<1>0. /\ out' = [out EXCEPT ![g] = NoFrame] /\ wire' = wire /\ seq' = seq
      /\ seq \in 0..MaxSeq /\ MaxSeq \in Nat
  BY LinkAssumption DEF Drops, TypeOK
<1>1. \A m \in 1..MaxSeq : Arrived(m)' <=> Arrived(m)
  BY <1>0 DEF Arrived
<1>2. CASE \E n \in 1..MaxSeq : Carries(g, n)
  <2>1. PICK n \in 1..MaxSeq : Carries(g, n)
    BY <1>2
  <2>2. /\ n <= seq /\ ~InFlight(n)' /\ ~Arrived(n)
        /\ Status[n] = "flight"
        /\ \A m \in 1..MaxSeq : m # n => (InFlight(m)' <=> InFlight(m))
    BY <1>0, <2>1, ReleaseMoves
  <2>3. StatusOf(n)' = "lost"
    BY <1>0, <1>1, <2>2 DEF StatusOf
  <2>4. \A m \in 1..MaxSeq : m # n => StatusOf(m)' = StatusOf(m)
    BY <1>0, <1>1, <2>2 DEF StatusOf
  <2>5. Status' = [Status EXCEPT ![n] = "lost"]
    BY <2>3, <2>4, OneNumberMoves
  <2> QED BY <2>2, <2>5 DEF Channel!Lose
<1>3. CASE ~ \E n \in 1..MaxSeq : Carries(g, n)
  <2>1. \A m \in 1..MaxSeq : InFlight(m)' <=> InFlight(m)
    BY <1>0, <1>3, ReleaseEffect DEF InFlight
  <2>2. \A m \in 1..MaxSeq : StatusOf(m)' = StatusOf(m)
    BY <1>0, <1>1, <2>1 DEF StatusOf
  <2> QED BY <2>2, NoNumberMoves
<1> QED BY <1>2, <1>3

LEMMA LandingArrives ==
    ASSUME TypeOK, NumberInv, NEW g \in Senders, Lands(g)
    PROVE  \E n \in 1..MaxSeq : Channel!Arrive(n)
<1>0. /\ out' = [out EXCEPT ![g] = NoFrame] /\ seq' = seq
      /\ seq \in 0..MaxSeq /\ MaxSeq \in Nat
  BY LinkAssumption DEF Lands, TypeOK
<1>1. PICK n \in 1..MaxSeq : n = out[g].seq /\ Carries(g, n)
  BY LandEffect
<1>2. /\ n <= seq /\ ~InFlight(n)' /\ ~Arrived(n)
      /\ Status[n] = "flight"
      /\ \A m \in 1..MaxSeq : m # n => (InFlight(m)' <=> InFlight(m))
  BY <1>0, <1>1, ReleaseMoves
<1>3. \A m \in 1..MaxSeq : Arrived(m)' <=> Arrived(m) \/ m = n
  BY <1>1, LandArrives
<1>4. StatusOf(n)' = "arrived"
  BY <1>0, <1>2, <1>3 DEF StatusOf
<1>5. \A m \in 1..MaxSeq : m # n => StatusOf(m)' = StatusOf(m)
  BY <1>0, <1>2, <1>3 DEF StatusOf
<1>6. Status' = [Status EXCEPT ![n] = "arrived"]
  BY <1>4, <1>5, OneNumberMoves
<1> QED BY <1>2, <1>6 DEF Channel!Arrive

LEMMA ChannelStep ==
    ASSUME TypeOK, LinkInv, NumberInv, [Next]_vars
    PROVE  [Channel!Next]_Status
<1> USE DEF Channel!Next, Channel!Numbers
<1>1. CASE \E g \in Senders : Stamps(g)
  BY <1>1, StampIssues
<1>2. CASE \E g \in Senders : Lands(g)
  BY <1>2, LandingArrives
<1>3. CASE \E g \in Senders : Drops(g)
  BY <1>3, DropLoses
<1>4. CASE \E g \in Senders : Handles(g)
  <2>1. wire' = wire /\ seq' = seq
    BY <1>4 DEF Handles
  <2>2. \A m \in 1..MaxSeq : InFlight(m)' <=> InFlight(m)
    BY <1>4, HandleEffect DEF InFlight
  <2>3. \A m \in 1..MaxSeq : StatusOf(m)' = StatusOf(m)
    BY <2>1, <2>2 DEF StatusOf, Arrived
  <2> QED BY <2>3, NoNumberMoves
<1>5. CASE UNCHANGED frameVars
  <2>1. UNCHANGED Status
    BY <1>5 DEF frameVars, Status, StatusOf, InFlight, Carries, Arrived
  <2> QED BY <2>1
<1> QED BY <1>1, <1>2, <1>3, <1>4, <1>5, FrameStep

\* The agent's outbound traffic is a lossy channel: at most once, numbered in
\* the order of issue.
THEOREM LinkImplementsChannel == Spec => ImplementsChannel
<1>1. Spec => Channel!Init /\ [][Channel!Next]_Status
  BY ChannelInit, ChannelStep, NumberInvariant, LinkInvariant, TypeCorrect, PTL DEF Spec
<1> QED BY <1>1 DEF ImplementsChannel, Channel!Spec

\* The channel keeps its word: no step undoes what became of a number.
LEMMA ChannelFate ==
    ASSUME [Channel!Next]_Status
    PROVE  [Channel!KeepsFates]_Status
BY DEF Channel!Next, Channel!Issue, Channel!Arrive, Channel!Lose, Channel!KeepsFates,
       Channel!Numbers, Status

\* A message that has arrived does not arrive again, one that was lost is never
\* sent a second time, and an issued number is not issued anew, whatever the
\* goroutines and the connections do.
THEOREM FatesAreFinal == Spec => Channel!FateIsFinal
<1>1. Spec => [][Channel!Next]_Status
  BY LinkImplementsChannel, PTL DEF ImplementsChannel, Channel!Spec
<1> QED BY <1>1, ChannelFate, PTL DEF Channel!FateIsFinal
=============================================================================
