-------------------------- MODULE TerminalSessions --------------------------
(***************************************************************************)
(* The PTY sessions of the terminal agent (terminal.go): the table that    *)
(* names them, the shells behind them, the pump goroutine of each, and the *)
(* Reader, which handles the backend's messages one at a time and empties  *)
(* the table when the link is lost.  Reader and pumps both delete entries: *)
(* a pump by its session id, whatever PTY the id names by then.            *)
(*                                                                         *)
(* Abstracted: the link's handshake and frames (TerminalLink), output and  *)
(* replies, of which nothing here depends; SESSION_RESIZE, which looks a   *)
(* session up and changes its window.  External: the kernel's PTY, where a *)
(* write to a terminal nobody reads blocks, a read fails once the shell is *)
(* dead or the file closed, and a killed shell dies.                       *)
(***************************************************************************)
EXTENDS Naturals

CONSTANTS
    Sessions,     \* session ids
    Reused,       \* those the backend may start more than once
    MaxPtys       \* bound: PTYs spawned

ASSUME SessionAssumption ==
    /\ Reused \subseteq Sessions
    /\ "none" \notin Sessions
    /\ MaxPtys \in Nat

Ptys == 1..MaxPtys

VARIABLES
    reader,     \* where the Reader is
    subject,    \* the session to spawn for, or the PTY to write to or to kill
    link,       \* a.connected and the transport below it
    stopped,    \* ctx is cancelled
    table,      \* a.sessions: the PTY of each id, 0 for none
    started,    \* the ids to be used once that the backend has started
    made,       \* PTYs spawned
    of,         \* the session each PTY was spawned for
    shell,      \* its process
    killed,     \* the processes that were sent SIGKILL
    file,       \* its master side
    full,       \* the PTYs that take no more input
    pump        \* its goroutine

readerVars == <<reader, subject, link, stopped, started>>
ptyVars    == <<made, of, shell, killed, file, full>>
vars == <<readerVars, table, ptyVars, pump>>

Nobody == [session |-> "none", pty |-> 0]

\* The tables and the processes have the states the code and the kernel give them.
TypeOK ==
    /\ reader \in {"read", "spawn", "write", "kill", "away", "done"}
    /\ subject \in [session : Sessions \cup {"none"}, pty : 0..MaxPtys]
    /\ link \in {"up", "broken", "off"}
    /\ stopped \in BOOLEAN
    /\ table \in [Sessions -> 0..MaxPtys]
    /\ started \in SUBSET Sessions
    /\ made \in 0..MaxPtys
    /\ of \in [Ptys -> Sessions \cup {"none"}]
    /\ shell \in [Ptys -> {"none", "alive", "dead"}]
    /\ killed \in SUBSET Ptys
    /\ file \in [Ptys -> {"none", "open", "closed"}]
    /\ full \in SUBSET Ptys
    /\ pump \in [Ptys -> {"none", "read", "end", "delete", "gone"}]

Init ==
    /\ reader = "away"
    /\ subject = Nobody
    /\ link = "off"
    /\ stopped = FALSE
    /\ table = [s \in Sessions |-> 0]
    /\ started = {}
    /\ made = 0
    /\ of = [p \in Ptys |-> "none"]
    /\ shell = [p \in Ptys |-> "none"]
    /\ killed = {}
    /\ file = [p \in Ptys |-> "none"]
    /\ full = {}
    /\ pump = [p \in Ptys |-> "none"]

-----------------------------------------------------------------------------
(* The Reader: one message of the backend at a time *)

Reading == reader = "read" /\ link = "up"

\* SESSION_START: the test under the lock.  For an id in the table the reply is
\* "resumed" and nothing changes; for any other the handler goes on unlocked.
Start(s) ==
    /\ Reading
    /\ s \notin started
    /\ table[s] = 0
    /\ started' = started \cup ({s} \ Reused)
    /\ reader' = "spawn"
    /\ subject' = [session |-> s, pty |-> 0]
    /\ UNCHANGED <<link, stopped, table, ptyVars, pump>>

\* Mutant: the session is registered although its shell did not start.
SpawnFails_Registers ==
    /\ reader = "spawn"
    /\ table' = [table EXCEPT ![subject.session] = made + 1]
    /\ reader' = "read"
    /\ subject' = Nobody
    /\ UNCHANGED <<link, stopped, started, ptyVars, pump>>

\* pty.StartWithSize fails: an ERROR, and no session.
SpawnFails ==
    /\ reader = "spawn"
    /\ reader' = "read"
    /\ subject' = Nobody
    /\ UNCHANGED <<link, stopped, started, table, ptyVars, pump>>

\* The shell starts, its PTY enters the table, and its pump starts.
Spawn ==
    /\ reader = "spawn"
    /\ made < MaxPtys
    /\ made' = made + 1
    /\ of' = [of EXCEPT ![made + 1] = subject.session]
    /\ shell' = [shell EXCEPT ![made + 1] = "alive"]
    /\ file' = [file EXCEPT ![made + 1] = "open"]
    /\ table' = [table EXCEPT ![subject.session] = made + 1]
    /\ pump' = [pump EXCEPT ![made + 1] = "read"]
    /\ reader' = "read"
    /\ subject' = Nobody
    /\ UNCHANGED <<link, stopped, started, killed, full>>

\* SESSION_DATA: the session is looked up under the lock ...
Data(s) ==
    /\ Reading
    /\ table[s] # 0
    /\ reader' = "write"
    /\ subject' = [session |-> "none", pty |-> table[s]]
    /\ UNCHANGED <<link, stopped, started, table, ptyVars, pump>>

\* ... and written to without it, which may take as long as the PTY is full.
WriteReturns ==
    /\ reader = "write"
    /\ subject.pty \notin full
    /\ reader' = "read"
    /\ subject' = Nobody
    /\ UNCHANGED <<link, stopped, started, table, ptyVars, pump>>

\* Mutant: the session is killed under the lock but stays in the table.
End_Keeps(s) ==
    /\ Reading
    /\ table[s] # 0
    /\ reader' = "kill"
    /\ subject' = [session |-> "none", pty |-> table[s]]
    /\ UNCHANGED <<link, stopped, started, table, ptyVars, pump>>

\* SESSION_END: the session leaves the table under the lock ...
End(s) ==
    /\ Reading
    /\ table[s] # 0
    /\ table' = [table EXCEPT ![s] = 0]
    /\ reader' = "kill"
    /\ subject' = [session |-> "none", pty |-> table[s]]
    /\ UNCHANGED <<link, stopped, started, ptyVars, pump>>

\* Mutant: the file is closed and the shell left to notice.
Kill_ClosesOnly ==
    /\ reader = "kill"
    /\ file' = [file EXCEPT ![subject.pty] = "closed"]
    /\ UNCHANGED killed
    /\ reader' = "read"
    /\ subject' = Nobody
    /\ UNCHANGED <<link, stopped, started, table, made, of, shell, full, pump>>

\* ... and is closed and killed without it.
Kill ==
    /\ reader = "kill"
    /\ file' = [file EXCEPT ![subject.pty] = "closed"]
    /\ killed' = killed \cup {subject.pty}
    /\ reader' = "read"
    /\ subject' = Nobody
    /\ UNCHANGED <<link, stopped, started, table, made, of, shell, full, pump>>

Listed == {table[s] : s \in Sessions} \ {0}

\* Mutant: closeAll forgets the sessions without closing them.
CloseAll_Forgets ==
    /\ reader = "read" /\ link = "broken"
    /\ reader' = "away"
    /\ link' = "off"
    /\ table' = [s \in Sessions |-> 0]
    /\ UNCHANGED <<subject, stopped, started, ptyVars, pump>>

\* Mutant: closeAll waits for the pumps to end.
CloseAll_Waits ==
    /\ reader = "read" /\ link = "broken"
    /\ \A p \in Ptys : pump[p] \in {"none", "gone"}
    /\ reader' = "away"
    /\ link' = "off"
    /\ table' = [s \in Sessions |-> 0]
    /\ UNCHANGED <<subject, stopped, started, ptyVars, pump>>

\* The read fails: connect returns and closeAll takes every session in the table.
CloseAll ==
    /\ reader = "read" /\ link = "broken"
    /\ reader' = "away"
    /\ link' = "off"
    /\ file' = [p \in Ptys |-> IF p \in Listed THEN "closed" ELSE file[p]]
    /\ killed' = killed \cup Listed
    /\ table' = [s \in Sessions |-> 0]
    /\ UNCHANGED <<subject, stopped, started, made, of, shell, full, pump>>

\* The backoff, the dial and the handshake of the next connection.
Reconnect ==
    /\ reader = "away" /\ ~stopped
    /\ reader' = "read"
    /\ link' = "up"
    /\ UNCHANGED <<subject, stopped, started, table, ptyVars, pump>>

Return ==
    /\ reader = "away" /\ stopped
    /\ reader' = "done"
    /\ UNCHANGED <<subject, link, stopped, started, table, ptyVars, pump>>

-----------------------------------------------------------------------------
(* The pumps *)

\* f.Read fails: the shell is dead, or the Reader has closed the file.
PumpReadFails(p) ==
    /\ pump[p] = "read"
    /\ shell[p] = "dead" \/ file[p] = "closed"
    /\ pump' = [pump EXCEPT ![p] = "end"]
    /\ UNCHANGED <<readerVars, table, ptyVars>>

\* SESSION_END to the backend, which may take as long as a write to the socket.
PumpTellsEnd(p) ==
    /\ pump[p] = "end"
    /\ pump' = [pump EXCEPT ![p] = "delete"]
    /\ UNCHANGED <<readerVars, table, ptyVars>>

\* Mutant: the pump ends with its SESSION_END.
PumpDeletes_Not(p) ==
    /\ pump[p] = "delete"
    /\ pump' = [pump EXCEPT ![p] = "gone"]
    /\ UNCHANGED <<readerVars, table, ptyVars>>

\* delete(a.sessions, sessionID).
PumpDeletes(p) ==
    /\ pump[p] = "delete"
    /\ pump' = [pump EXCEPT ![p] = "gone"]
    /\ table' = [table EXCEPT ![of[p]] = 0]
    /\ UNCHANGED <<readerVars, ptyVars>>

-----------------------------------------------------------------------------
(* The environment *)

\* The shell exits by itself, or of its SIGKILL, which ends a write to its PTY.
ShellExits(p) ==
    /\ shell[p] = "alive"
    /\ shell' = [shell EXCEPT ![p] = "dead"]
    /\ full' = full \ {p}
    /\ UNCHANGED <<readerVars, table, made, of, killed, file, pump>>

\* The program in the shell stops reading its terminal, and goes on reading it.
StopsReading(p) ==
    /\ shell[p] = "alive" /\ p \notin full /\ p \notin killed
    /\ full' = full \cup {p}
    /\ UNCHANGED <<readerVars, table, made, of, shell, killed, file, pump>>

ReadsAgain(p) ==
    /\ p \in full /\ p \notin killed
    /\ full' = full \ {p}
    /\ UNCHANGED <<readerVars, table, made, of, shell, killed, file, pump>>

LinkBreaks ==
    /\ link = "up"
    /\ link' = "broken"
    /\ UNCHANGED <<reader, subject, stopped, started, table, ptyVars, pump>>

Cancel ==
    /\ ~stopped
    /\ stopped' = TRUE
    /\ UNCHANGED <<reader, subject, link, started, table, ptyVars, pump>>

Ended == reader = "done" /\ UNCHANGED vars

ReaderStep == \/ SpawnFails \/ Spawn \/ WriteReturns \/ Kill \/ CloseAll
              \/ Reconnect \/ Return

PumpStep(p) == PumpReadFails(p) \/ PumpTellsEnd(p) \/ PumpDeletes(p)

Next ==
    \/ ReaderStep
    \/ \E s \in Sessions : Start(s) \/ Data(s) \/ End(s)
    \/ \E p \in Ptys : PumpStep(p) \/ ShellExits(p) \/ StopsReading(p) \/ ReadsAgain(p)
    \/ LinkBreaks \/ Cancel
    \/ Ended

Spec == Init /\ [][Next]_vars

\* Goroutines run and killed processes die.  Nothing says that the backend
\* sends, that a shell exits, or that its program reads its terminal.
Fairness ==
    /\ WF_vars(ReaderStep)
    /\ \A p \in Ptys : WF_vars(PumpStep(p))
    /\ \A p \in Ptys : WF_vars(p \in killed /\ ShellExits(p))

FairSpec == Spec /\ Fairness

-----------------------------------------------------------------------------
(* Properties *)

\* An id in the table names a PTY of its own whose file the Reader has not
\* closed and whose pump has still to take it out: SESSION_DATA never writes to
\* a closed file, and no dead session stays behind to be "resumed" for ever.
EntriesAreServed ==
    \A s \in Sessions : table[s] # 0 =>
        /\ of[table[s]] = s
        /\ file[table[s]] = "open"
        /\ pump[table[s]] \in {"read", "end", "delete"}

\* A live shell of an id that is used once can always be reached: it is in the
\* table, unless the Reader has just taken it out to kill it.  An id that is
\* started again can lose its new shell to the pump of its old one.
ShellsStayReachable ==
    \A p \in Ptys : shell[p] = "alive" /\ p \notin killed /\ of[p] \notin Reused =>
        \/ table[of[p]] = p
        \/ reader = "kill" /\ subject.pty = p

\* A session whose shell has died leaves the table.
DeadSessionsLeave ==
    \A s \in Sessions : \A p \in Ptys :
        (table[s] = p /\ shell[p] = "dead") ~> (table[s] # p)

\* A shell whose terminal the agent has closed does not live on.
ClosedShellsDie ==
    \A p \in Ptys : (file[p] = "closed") ~> (shell[p] = "dead")

\* The agent notices a broken link.  The one thing that can keep the Reader from
\* it is a write to a PTY whose program does not read, which has no deadline.
NoticesUnlessBlocked == (link = "broken") ~> (link # "broken" \/ [](reader = "write"))
=============================================================================
