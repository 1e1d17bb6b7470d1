----------------------- MODULE TerminalSessionsProofs -----------------------
(***************************************************************************)
(* Proofs about TerminalSessions, for any number of sessions and PTYs: the *)
(* table never names a session without a file and a pump, a shell of an id *)
(* that is used once is in the table for as long as it lives, and no such  *)
(* shell outlives the link it was started on.                              *)
(*                                                                         *)
(* The first two rest on what the handlers leave true of PTYs that are not *)
(* in the table: a pump past its Read has a dead shell or a closed file    *)
(* (Deaths), a closed file a killed shell (Closings), an id used once has  *)
(* at most one PTY (Once), and between START's test and its spawn nothing  *)
(* but the Reader could have put the id in the table (Spawning).  The      *)
(* third follows from the second, since closeAll leaves the table empty    *)
(* (Emptied).                                                              *)
(***************************************************************************)
EXTENDS TerminalSessions, TLAPS

Single == Sessions \ Reused

Made ==
    \A p \in Ptys : IF p <= made THEN of[p] \in Sessions
                    ELSE of[p] = "none" /\ shell[p] = "none" /\ pump[p] = "none"

Deaths ==
    \A p \in Ptys : pump[p] \in {"end", "delete", "gone"} =>
        shell[p] = "dead" \/ file[p] = "closed"

Closings == \A p \in Ptys : file[p] = "closed" => p \in killed

Once ==
    /\ \A p \in Ptys : of[p] \in Single => of[p] \in started
    /\ \A p, q \in Ptys : of[p] = of[q] /\ of[p] \in Single => p = q

Spawning ==
    reader = "spawn" =>
        /\ subject.session \in Sessions
        /\ table[subject.session] = 0
        /\ subject.session \in Single =>
             subject.session \in started /\ \A p \in Ptys : of[p] # subject.session

Holding ==
    /\ reader \in {"write", "kill"} => subject.pty \in Ptys
    /\ reader = "kill" => \A s \in Sessions : table[s] # subject.pty

Sound == /\ Made /\ Deaths /\ Closings /\ Once /\ Spawning /\ Holding
         /\ EntriesAreServed /\ ShellsStayReachable

SessionInv == TypeOK /\ Sound

-----------------------------------------------------------------------------
LEMMA SessionInit == Init => SessionInv
<1> SUFFICES ASSUME Init PROVE SessionInv
  OBVIOUS
<1>1. stopped \in BOOLEAN
  BY Zenon DEF Init
<1>2. TypeOK
  BY <1>1, SessionAssumption DEF Init, TypeOK, Nobody, Ptys
<1>3. Sound
  BY SessionAssumption DEF Init, Nobody, Ptys, Sound, Made, Deaths, Closings, Once, Spawning,
     Holding, EntriesAreServed, ShellsStayReachable, Single
<1> QED BY <1>2, <1>3 DEF SessionInv

LEMMA SessionStep ==
    ASSUME SessionInv, [Next]_vars
    PROVE  SessionInv'
<1>0. TypeOK /\ Sound
  BY DEF SessionInv
<1> USE SessionAssumption DEF readerVars, ptyVars
<1>1. CASE SpawnFails
  <2>1. TypeOK'
    BY <1>0, <1>1 DEF SpawnFails, Nobody, TypeOK, Ptys
  <2>2. Made'
    BY <1>0, <1>1 DEF SpawnFails, Nobody, Sound, TypeOK, Ptys, Single, Made
  <2>3. Deaths'
    BY <1>0, <1>1 DEF SpawnFails, Nobody, Sound, TypeOK, Ptys, Single, Deaths
  <2>4. Closings'
    BY <1>0, <1>1 DEF SpawnFails, Nobody, Sound, TypeOK, Ptys, Single, Closings
  <2>5. Once'
    BY <1>0, <1>1 DEF SpawnFails, Nobody, Sound, TypeOK, Ptys, Single, Once, Made, Spawning
  <2>6. Spawning'
    BY <1>0, <1>1 DEF SpawnFails, Nobody, Sound, TypeOK, Ptys, Single, Spawning, Made, Once
  <2>7. Holding'
    BY <1>0, <1>1 DEF SpawnFails, Nobody, Sound, TypeOK, Ptys, Single, Holding, EntriesAreServed
  <2>8. EntriesAreServed'
    BY <1>0, <1>1 DEF SpawnFails, Nobody, Sound, TypeOK, Ptys, Single, EntriesAreServed, Made, Holding, Deaths, Spawning
  <2>9. ShellsStayReachable'
    BY <1>0, <1>1 DEF SpawnFails, Nobody, Sound, TypeOK, Ptys, Single, ShellsStayReachable, Made, Once, Deaths, Closings, Holding, Spawning, EntriesAreServed
  <2> QED BY <2>1, <2>2, <2>3, <2>4, <2>5, <2>6, <2>7, <2>8, <2>9 DEF SessionInv, Sound
<1>2. CASE Spawn
  <2>1. TypeOK'
    <3>1. made + 1 \in Ptys /\ made + 1 \in 0..MaxPtys
      BY <1>0, <1>2 DEF Spawn, TypeOK, Ptys
    <3>2. table' \in [Sessions -> 0..MaxPtys] /\ made' \in 0..MaxPtys
      BY <1>0, <1>2, <3>1 DEF Spawn, TypeOK
    <3>3. /\ of' \in [Ptys -> Sessions \cup {"none"}]
          /\ shell' \in [Ptys -> {"none", "alive", "dead"}]
      BY <1>0, <1>2, <3>1 DEF Spawn, TypeOK
    <3>4. /\ file' \in [Ptys -> {"none", "open", "closed"}]
          /\ pump' \in [Ptys -> {"none", "read", "end", "delete", "gone"}]
      BY <1>0, <1>2, <3>1 DEF Spawn, TypeOK
    <3>5. /\ reader' = "read" /\ subject' = [session |-> "none", pty |-> 0]
          /\ UNCHANGED <<link, stopped, started, killed, full>>
      BY <1>2 DEF Spawn, Nobody
    <3> QED BY <1>0, <3>2, <3>3, <3>4, <3>5 DEF TypeOK
  <2>2. Made'
    <3>1. /\ made \in Nat /\ made' = made + 1 /\ of \in [Ptys -> Sessions \cup {"none"}]
          /\ subject.session \in Sessions
          /\ of' = [of EXCEPT ![made + 1] = subject.session]
      BY <1>0, <1>2 DEF Spawn, Sound, TypeOK, Spawning
    <3>2. ASSUME NEW p \in Ptys, p # made + 1
          PROVE  of'[p] = of[p] /\ shell'[p] = shell[p] /\ pump'[p] = pump[p]
      BY <1>0, <1>2, <3>2 DEF Spawn, TypeOK
    <3> QED BY <1>0, <3>1, <3>2 DEF Sound, Made, Ptys
  <2>3. Deaths'
    BY <1>0, <1>2 DEF Spawn, Nobody, Sound, TypeOK, Ptys, Single, Deaths
  <2>4. Closings'
    BY <1>0, <1>2 DEF Spawn, Nobody, Sound, TypeOK, Ptys, Single, Closings
  <2>5. Once'
    BY <1>0, <1>2 DEF Spawn, Nobody, Sound, TypeOK, Ptys, Single, Once, Made, Spawning
  <2>6. Spawning'
    BY <1>0, <1>2 DEF Spawn, Nobody, Sound, TypeOK, Ptys, Single, Spawning, Made, Once
  <2>7. Holding'
    BY <1>0, <1>2 DEF Spawn, Nobody, Sound, TypeOK, Ptys, Single, Holding, EntriesAreServed
  <2>8. EntriesAreServed'
    BY <1>0, <1>2 DEF Spawn, Nobody, Sound, TypeOK, Ptys, Single, EntriesAreServed, Made, Holding, Deaths, Spawning
  <2>9. ShellsStayReachable'
    BY <1>0, <1>2 DEF Spawn, Nobody, Sound, TypeOK, Ptys, Single, ShellsStayReachable, Made, Once, Deaths, Closings, Holding, Spawning, EntriesAreServed
  <2> QED BY <2>1, <2>2, <2>3, <2>4, <2>5, <2>6, <2>7, <2>8, <2>9 DEF SessionInv, Sound
<1>3. CASE WriteReturns
  <2>1. TypeOK'
    BY <1>0, <1>3 DEF WriteReturns, Nobody, TypeOK, Ptys
  <2>2. Made'
    BY <1>0, <1>3 DEF WriteReturns, Nobody, Sound, TypeOK, Ptys, Single, Made
  <2>3. Deaths'
    BY <1>0, <1>3 DEF WriteReturns, Nobody, Sound, TypeOK, Ptys, Single, Deaths
  <2>4. Closings'
    BY <1>0, <1>3 DEF WriteReturns, Nobody, Sound, TypeOK, Ptys, Single, Closings
  <2>5. Once'
    BY <1>0, <1>3 DEF WriteReturns, Nobody, Sound, TypeOK, Ptys, Single, Once, Made, Spawning
  <2>6. Spawning'
    BY <1>0, <1>3 DEF WriteReturns, Nobody, Sound, TypeOK, Ptys, Single, Spawning, Made, Once
  <2>7. Holding'
    BY <1>0, <1>3 DEF WriteReturns, Nobody, Sound, TypeOK, Ptys, Single, Holding, EntriesAreServed
  <2>8. EntriesAreServed'
    BY <1>0, <1>3 DEF WriteReturns, Nobody, Sound, TypeOK, Ptys, Single, EntriesAreServed, Made, Holding, Deaths, Spawning
  <2>9. ShellsStayReachable'
    BY <1>0, <1>3 DEF WriteReturns, Nobody, Sound, TypeOK, Ptys, Single, ShellsStayReachable, Made, Once, Deaths, Closings, Holding, Spawning, EntriesAreServed
  <2> QED BY <2>1, <2>2, <2>3, <2>4, <2>5, <2>6, <2>7, <2>8, <2>9 DEF SessionInv, Sound
<1>4. CASE Kill
  <2>1. TypeOK'
    <3>1. subject.pty \in Ptys
      BY <1>0, <1>4 DEF Kill, Sound, Holding
    <3>2. /\ file' \in [Ptys -> {"none", "open", "closed"}]
          /\ killed' \in SUBSET Ptys
      BY <1>0, <1>4, <3>1 DEF Kill, TypeOK
    <3>3. /\ reader' = "read" /\ subject' = [session |-> "none", pty |-> 0]
          /\ UNCHANGED <<link, stopped, started, table, made, of, shell, full, pump>>
      BY <1>4 DEF Kill, Nobody
    <3> QED BY <1>0, <3>2, <3>3 DEF TypeOK
  <2>2. Made'
    BY <1>0, <1>4 DEF Kill, Nobody, Sound, TypeOK, Ptys, Single, Made
  <2>3. Deaths'
    BY <1>0, <1>4 DEF Kill, Nobody, Sound, TypeOK, Ptys, Single, Deaths
  <2>4. Closings'
    BY <1>0, <1>4 DEF Kill, Nobody, Sound, TypeOK, Ptys, Single, Closings
  <2>5. Once'
    BY <1>0, <1>4 DEF Kill, Nobody, Sound, TypeOK, Ptys, Single, Once, Made, Spawning
  <2>6. Spawning'
    BY <1>0, <1>4 DEF Kill, Nobody, Sound, TypeOK, Ptys, Single, Spawning, Made, Once
  <2>7. Holding'
    BY <1>0, <1>4 DEF Kill, Nobody, Sound, TypeOK, Ptys, Single, Holding, EntriesAreServed
  <2>8. EntriesAreServed'
    BY <1>0, <1>4 DEF Kill, Nobody, Sound, TypeOK, Ptys, Single, EntriesAreServed, Made, Holding, Deaths, Spawning
  <2>9. ShellsStayReachable'
    BY <1>0, <1>4 DEF Kill, Nobody, Sound, TypeOK, Ptys, Single, ShellsStayReachable, Made, Once, Deaths, Closings, Holding, Spawning, EntriesAreServed
  <2> QED BY <2>1, <2>2, <2>3, <2>4, <2>5, <2>6, <2>7, <2>8, <2>9 DEF SessionInv, Sound
<1>5. CASE CloseAll
  <2>1. TypeOK'
    <3>1. Listed \subseteq Ptys
      BY <1>0 DEF Listed, TypeOK, Ptys
    <3>2. /\ file' \in [Ptys -> {"none", "open", "closed"}]
          /\ killed' \in SUBSET Ptys /\ table' \in [Sessions -> 0..MaxPtys]
      BY <1>0, <1>5, <3>1 DEF CloseAll, TypeOK
    <3>3. /\ reader' = "away" /\ link' = "off"
          /\ UNCHANGED <<subject, stopped, started, made, of, shell, full, pump>>
      BY <1>5 DEF CloseAll
    <3> QED BY <1>0, <3>2, <3>3 DEF TypeOK
  <2>2. Made'
    BY <1>0, <1>5 DEF CloseAll, Listed, Sound, TypeOK, Ptys, Single, Made
  <2>3. Deaths'
    BY <1>0, <1>5 DEF CloseAll, Listed, Sound, TypeOK, Ptys, Single, Deaths
  <2>4. Closings'
    BY <1>0, <1>5 DEF CloseAll, Listed, Sound, TypeOK, Ptys, Single, Closings
  <2>5. Once'
    BY <1>0, <1>5 DEF CloseAll, Listed, Sound, TypeOK, Ptys, Single, Once, Made, Spawning
  <2>6. Spawning'
    BY <1>0, <1>5 DEF CloseAll, Listed, Sound, TypeOK, Ptys, Single, Spawning, Made, Once
  <2>7. Holding'
    BY <1>0, <1>5 DEF CloseAll, Listed, Sound, TypeOK, Ptys, Single, Holding, EntriesAreServed
  <2>8. EntriesAreServed'
    BY <1>0, <1>5 DEF CloseAll, Listed, Sound, TypeOK, Ptys, Single, EntriesAreServed, Made, Holding, Deaths, Spawning
  <2>9. ShellsStayReachable'
    BY <1>0, <1>5 DEF CloseAll, Listed, Sound, TypeOK, Ptys, Single, ShellsStayReachable, Made, Once, Deaths, Closings, Holding, Spawning, EntriesAreServed
  <2> QED BY <2>1, <2>2, <2>3, <2>4, <2>5, <2>6, <2>7, <2>8, <2>9 DEF SessionInv, Sound
<1>6. CASE Reconnect
  <2>1. TypeOK'
    BY <1>0, <1>6 DEF Reconnect, TypeOK, Ptys
  <2>2. Made'
    BY <1>0, <1>6 DEF Reconnect, Sound, TypeOK, Ptys, Single, Made
  <2>3. Deaths'
    BY <1>0, <1>6 DEF Reconnect, Sound, TypeOK, Ptys, Single, Deaths
  <2>4. Closings'
    BY <1>0, <1>6 DEF Reconnect, Sound, TypeOK, Ptys, Single, Closings
  <2>5. Once'
    BY <1>0, <1>6 DEF Reconnect, Sound, TypeOK, Ptys, Single, Once, Made, Spawning
  <2>6. Spawning'
    BY <1>0, <1>6 DEF Reconnect, Sound, TypeOK, Ptys, Single, Spawning, Made, Once
  <2>7. Holding'
    BY <1>0, <1>6 DEF Reconnect, Sound, TypeOK, Ptys, Single, Holding, EntriesAreServed
  <2>8. EntriesAreServed'
    BY <1>0, <1>6 DEF Reconnect, Sound, TypeOK, Ptys, Single, EntriesAreServed, Made, Holding, Deaths, Spawning
  <2>9. ShellsStayReachable'
    BY <1>0, <1>6 DEF Reconnect, Sound, TypeOK, Ptys, Single, ShellsStayReachable, Made, Once, Deaths, Closings, Holding, Spawning, EntriesAreServed
  <2> QED BY <2>1, <2>2, <2>3, <2>4, <2>5, <2>6, <2>7, <2>8, <2>9 DEF SessionInv, Sound
<1>7. CASE Return
  <2>1. TypeOK'
    BY <1>0, <1>7 DEF Return, TypeOK, Ptys
  <2>2. Made'
    BY <1>0, <1>7 DEF Return, Sound, TypeOK, Ptys, Single, Made
  <2>3. Deaths'
    BY <1>0, <1>7 DEF Return, Sound, TypeOK, Ptys, Single, Deaths
  <2>4. Closings'
    BY <1>0, <1>7 DEF Return, Sound, TypeOK, Ptys, Single, Closings
  <2>5. Once'
    BY <1>0, <1>7 DEF Return, Sound, TypeOK, Ptys, Single, Once, Made, Spawning
  <2>6. Spawning'
    BY <1>0, <1>7 DEF Return, Sound, TypeOK, Ptys, Single, Spawning, Made, Once
  <2>7. Holding'
    BY <1>0, <1>7 DEF Return, Sound, TypeOK, Ptys, Single, Holding, EntriesAreServed
  <2>8. EntriesAreServed'
    BY <1>0, <1>7 DEF Return, Sound, TypeOK, Ptys, Single, EntriesAreServed, Made, Holding, Deaths, Spawning
  <2>9. ShellsStayReachable'
    BY <1>0, <1>7 DEF Return, Sound, TypeOK, Ptys, Single, ShellsStayReachable, Made, Once, Deaths, Closings, Holding, Spawning, EntriesAreServed
  <2> QED BY <2>1, <2>2, <2>3, <2>4, <2>5, <2>6, <2>7, <2>8, <2>9 DEF SessionInv, Sound
<1>8. CASE LinkBreaks
  <2>1. TypeOK'
    BY <1>0, <1>8 DEF LinkBreaks, TypeOK, Ptys
  <2>2. Made'
    BY <1>0, <1>8 DEF LinkBreaks, Sound, TypeOK, Ptys, Single, Made
  <2>3. Deaths'
    BY <1>0, <1>8 DEF LinkBreaks, Sound, TypeOK, Ptys, Single, Deaths
  <2>4. Closings'
    BY <1>0, <1>8 DEF LinkBreaks, Sound, TypeOK, Ptys, Single, Closings
  <2>5. Once'
    BY <1>0, <1>8 DEF LinkBreaks, Sound, TypeOK, Ptys, Single, Once, Made, Spawning
  <2>6. Spawning'
    BY <1>0, <1>8 DEF LinkBreaks, Sound, TypeOK, Ptys, Single, Spawning, Made, Once
  <2>7. Holding'
    BY <1>0, <1>8 DEF LinkBreaks, Sound, TypeOK, Ptys, Single, Holding, EntriesAreServed
  <2>8. EntriesAreServed'
    BY <1>0, <1>8 DEF LinkBreaks, Sound, TypeOK, Ptys, Single, EntriesAreServed, Made, Holding, Deaths, Spawning
  <2>9. ShellsStayReachable'
    BY <1>0, <1>8 DEF LinkBreaks, Sound, TypeOK, Ptys, Single, ShellsStayReachable, Made, Once, Deaths, Closings, Holding, Spawning, EntriesAreServed
  <2> QED BY <2>1, <2>2, <2>3, <2>4, <2>5, <2>6, <2>7, <2>8, <2>9 DEF SessionInv, Sound
<1>9. CASE Cancel
  <2>1. TypeOK'
    BY <1>0, <1>9 DEF Cancel, TypeOK, Ptys
  <2>2. Made'
    BY <1>0, <1>9 DEF Cancel, Sound, TypeOK, Ptys, Single, Made
  <2>3. Deaths'
    BY <1>0, <1>9 DEF Cancel, Sound, TypeOK, Ptys, Single, Deaths
  <2>4. Closings'
    BY <1>0, <1>9 DEF Cancel, Sound, TypeOK, Ptys, Single, Closings
  <2>5. Once'
    BY <1>0, <1>9 DEF Cancel, Sound, TypeOK, Ptys, Single, Once, Made, Spawning
  <2>6. Spawning'
    BY <1>0, <1>9 DEF Cancel, Sound, TypeOK, Ptys, Single, Spawning, Made, Once
  <2>7. Holding'
    BY <1>0, <1>9 DEF Cancel, Sound, TypeOK, Ptys, Single, Holding, EntriesAreServed
  <2>8. EntriesAreServed'
    BY <1>0, <1>9 DEF Cancel, Sound, TypeOK, Ptys, Single, EntriesAreServed, Made, Holding, Deaths, Spawning
  <2>9. ShellsStayReachable'
    BY <1>0, <1>9 DEF Cancel, Sound, TypeOK, Ptys, Single, ShellsStayReachable, Made, Once, Deaths, Closings, Holding, Spawning, EntriesAreServed
  <2> QED BY <2>1, <2>2, <2>3, <2>4, <2>5, <2>6, <2>7, <2>8, <2>9 DEF SessionInv, Sound
<1>10. ASSUME NEW s \in Sessions, Start(s) PROVE SessionInv'
  <2>1. TypeOK'
    BY <1>0, <1>10 DEF Start, Reading, TypeOK, Ptys
  <2>2. Made'
    BY <1>0, <1>10 DEF Start, Reading, Sound, TypeOK, Ptys, Single, Made
  <2>3. Deaths'
    BY <1>0, <1>10 DEF Start, Reading, Sound, TypeOK, Ptys, Single, Deaths
  <2>4. Closings'
    BY <1>0, <1>10 DEF Start, Reading, Sound, TypeOK, Ptys, Single, Closings
  <2>5. Once'
    BY <1>0, <1>10 DEF Start, Reading, Sound, TypeOK, Ptys, Single, Once, Made, Spawning
  <2>6. Spawning'
    BY <1>0, <1>10 DEF Start, Reading, Sound, TypeOK, Ptys, Single, Spawning, Made, Once
  <2>7. Holding'
    BY <1>0, <1>10 DEF Start, Reading, Sound, TypeOK, Ptys, Single, Holding, EntriesAreServed
  <2>8. EntriesAreServed'
    BY <1>0, <1>10 DEF Start, Reading, Sound, TypeOK, Ptys, Single, EntriesAreServed, Made, Holding, Deaths, Spawning
  <2>9. ShellsStayReachable'
    BY <1>0, <1>10 DEF Start, Reading, Sound, TypeOK, Ptys, Single, ShellsStayReachable, Made, Once, Deaths, Closings, Holding, Spawning, EntriesAreServed
  <2> QED BY <2>1, <2>2, <2>3, <2>4, <2>5, <2>6, <2>7, <2>8, <2>9 DEF SessionInv, Sound
<1>11. ASSUME NEW s \in Sessions, Data(s) PROVE SessionInv'
  <2>1. TypeOK'
    BY <1>0, <1>11 DEF Data, Reading, TypeOK, Ptys
  <2>2. Made'
    BY <1>0, <1>11 DEF Data, Reading, Sound, TypeOK, Ptys, Single, Made
  <2>3. Deaths'
    BY <1>0, <1>11 DEF Data, Reading, Sound, TypeOK, Ptys, Single, Deaths
  <2>4. Closings'
    BY <1>0, <1>11 DEF Data, Reading, Sound, TypeOK, Ptys, Single, Closings
  <2>5. Once'
    BY <1>0, <1>11 DEF Data, Reading, Sound, TypeOK, Ptys, Single, Once, Made, Spawning
  <2>6. Spawning'
    BY <1>0, <1>11 DEF Data, Reading, Sound, TypeOK, Ptys, Single, Spawning, Made, Once
  <2>7. Holding'
    BY <1>0, <1>11 DEF Data, Reading, Sound, TypeOK, Ptys, Single, Holding, EntriesAreServed
  <2>8. EntriesAreServed'
    BY <1>0, <1>11 DEF Data, Reading, Sound, TypeOK, Ptys, Single, EntriesAreServed, Made, Holding, Deaths, Spawning
  <2>9. ShellsStayReachable'
    BY <1>0, <1>11 DEF Data, Reading, Sound, TypeOK, Ptys, Single, ShellsStayReachable, Made, Once, Deaths, Closings, Holding, Spawning, EntriesAreServed
  <2> QED BY <2>1, <2>2, <2>3, <2>4, <2>5, <2>6, <2>7, <2>8, <2>9 DEF SessionInv, Sound
<1>12. ASSUME NEW s \in Sessions, End(s) PROVE SessionInv'
  <2>1. TypeOK'
    BY <1>0, <1>12 DEF End, Reading, TypeOK, Ptys
  <2>2. Made'
    BY <1>0, <1>12 DEF End, Reading, Sound, TypeOK, Ptys, Single, Made
  <2>3. Deaths'
    BY <1>0, <1>12 DEF End, Reading, Sound, TypeOK, Ptys, Single, Deaths
  <2>4. Closings'
    BY <1>0, <1>12 DEF End, Reading, Sound, TypeOK, Ptys, Single, Closings
  <2>5. Once'
    BY <1>0, <1>12 DEF End, Reading, Sound, TypeOK, Ptys, Single, Once, Made, Spawning
  <2>6. Spawning'
    BY <1>0, <1>12 DEF End, Reading, Sound, TypeOK, Ptys, Single, Spawning, Made, Once
  <2>7. Holding'
    BY <1>0, <1>12 DEF End, Reading, Sound, TypeOK, Ptys, Single, Holding, EntriesAreServed
  <2>8. EntriesAreServed'
    BY <1>0, <1>12 DEF End, Reading, Sound, TypeOK, Ptys, Single, EntriesAreServed, Made, Holding, Deaths, Spawning
  <2>9. ShellsStayReachable'
    BY <1>0, <1>12 DEF End, Reading, Sound, TypeOK, Ptys, Single, ShellsStayReachable, Made, Once, Deaths, Closings, Holding, Spawning, EntriesAreServed
  <2> QED BY <2>1, <2>2, <2>3, <2>4, <2>5, <2>6, <2>7, <2>8, <2>9 DEF SessionInv, Sound
<1>13. ASSUME NEW p \in Ptys, PumpReadFails(p) PROVE SessionInv'
  <2>1. TypeOK'
    BY <1>0, <1>13 DEF PumpReadFails, TypeOK, Ptys
  <2>2. Made'
    BY <1>0, <1>13 DEF PumpReadFails, Sound, TypeOK, Ptys, Single, Made
  <2>3. Deaths'
    BY <1>0, <1>13 DEF PumpReadFails, Sound, TypeOK, Ptys, Single, Deaths
  <2>4. Closings'
    BY <1>0, <1>13 DEF PumpReadFails, Sound, TypeOK, Ptys, Single, Closings
  <2>5. Once'
    BY <1>0, <1>13 DEF PumpReadFails, Sound, TypeOK, Ptys, Single, Once, Made, Spawning
  <2>6. Spawning'
    BY <1>0, <1>13 DEF PumpReadFails, Sound, TypeOK, Ptys, Single, Spawning, Made, Once
  <2>7. Holding'
    BY <1>0, <1>13 DEF PumpReadFails, Sound, TypeOK, Ptys, Single, Holding, EntriesAreServed
  <2>8. EntriesAreServed'
    BY <1>0, <1>13 DEF PumpReadFails, Sound, TypeOK, Ptys, Single, EntriesAreServed, Made, Holding, Deaths, Spawning
  <2>9. ShellsStayReachable'
    BY <1>0, <1>13 DEF PumpReadFails, Sound, TypeOK, Ptys, Single, ShellsStayReachable, Made, Once, Deaths, Closings, Holding, Spawning, EntriesAreServed
  <2> QED BY <2>1, <2>2, <2>3, <2>4, <2>5, <2>6, <2>7, <2>8, <2>9 DEF SessionInv, Sound
<1>14. ASSUME NEW p \in Ptys, PumpTellsEnd(p) PROVE SessionInv'
  <2>1. TypeOK'
    BY <1>0, <1>14 DEF PumpTellsEnd, TypeOK, Ptys
  <2>2. Made'
    BY <1>0, <1>14 DEF PumpTellsEnd, Sound, TypeOK, Ptys, Single, Made
  <2>3. Deaths'
    BY <1>0, <1>14 DEF PumpTellsEnd, Sound, TypeOK, Ptys, Single, Deaths
  <2>4. Closings'
    BY <1>0, <1>14 DEF PumpTellsEnd, Sound, TypeOK, Ptys, Single, Closings
  <2>5. Once'
    BY <1>0, <1>14 DEF PumpTellsEnd, Sound, TypeOK, Ptys, Single, Once, Made, Spawning
  <2>6. Spawning'
    BY <1>0, <1>14 DEF PumpTellsEnd, Sound, TypeOK, Ptys, Single, Spawning, Made, Once
  <2>7. Holding'
    BY <1>0, <1>14 DEF PumpTellsEnd, Sound, TypeOK, Ptys, Single, Holding, EntriesAreServed
  <2>8. EntriesAreServed'
    BY <1>0, <1>14 DEF PumpTellsEnd, Sound, TypeOK, Ptys, Single, EntriesAreServed, Made, Holding, Deaths, Spawning
  <2>9. ShellsStayReachable'
    BY <1>0, <1>14 DEF PumpTellsEnd, Sound, TypeOK, Ptys, Single, ShellsStayReachable, Made, Once, Deaths, Closings, Holding, Spawning, EntriesAreServed
  <2> QED BY <2>1, <2>2, <2>3, <2>4, <2>5, <2>6, <2>7, <2>8, <2>9 DEF SessionInv, Sound
<1>15. ASSUME NEW p \in Ptys, PumpDeletes(p) PROVE SessionInv'
  <2>1. TypeOK'
    <3>1. of[p] \in Sessions
      BY <1>0, <1>15 DEF PumpDeletes, Sound, Made
    <3>2. /\ pump' \in [Ptys -> {"none", "read", "end", "delete", "gone"}]
          /\ table' \in [Sessions -> 0..MaxPtys]
      BY <1>0, <1>15, <3>1 DEF PumpDeletes, TypeOK
    <3>3. UNCHANGED <<readerVars, ptyVars>>
      BY <1>15 DEF PumpDeletes
    <3> QED BY <1>0, <3>2, <3>3 DEF TypeOK
  <2>2. Made'
    BY <1>0, <1>15 DEF PumpDeletes, Sound, TypeOK, Ptys, Single, Made
  <2>3. Deaths'
    BY <1>0, <1>15 DEF PumpDeletes, Sound, TypeOK, Ptys, Single, Deaths
  <2>4. Closings'
    BY <1>0, <1>15 DEF PumpDeletes, Sound, TypeOK, Ptys, Single, Closings
  <2>5. Once'
    BY <1>0, <1>15 DEF PumpDeletes, Sound, TypeOK, Ptys, Single, Once, Made, Spawning
  <2>6. Spawning'
    BY <1>0, <1>15 DEF PumpDeletes, Sound, TypeOK, Ptys, Single, Spawning, Made, Once
  <2>7. Holding'
    BY <1>0, <1>15 DEF PumpDeletes, Sound, TypeOK, Ptys, Single, Holding, EntriesAreServed
  <2>8. EntriesAreServed'
    BY <1>0, <1>15 DEF PumpDeletes, Sound, TypeOK, Ptys, Single, EntriesAreServed, Made, Holding, Deaths, Spawning
  <2>9. ShellsStayReachable'
    BY <1>0, <1>15 DEF PumpDeletes, Sound, TypeOK, Ptys, Single, ShellsStayReachable, Made, Once, Deaths, Closings, Holding, Spawning, EntriesAreServed
  <2> QED BY <2>1, <2>2, <2>3, <2>4, <2>5, <2>6, <2>7, <2>8, <2>9 DEF SessionInv, Sound
<1>16. ASSUME NEW p \in Ptys, ShellExits(p) PROVE SessionInv'
  <2>1. TypeOK'
    BY <1>0, <1>16 DEF ShellExits, TypeOK, Ptys
  <2>2. Made'
    BY <1>0, <1>16 DEF ShellExits, Sound, TypeOK, Ptys, Single, Made
  <2>3. Deaths'
    BY <1>0, <1>16 DEF ShellExits, Sound, TypeOK, Ptys, Single, Deaths
  <2>4. Closings'
    BY <1>0, <1>16 DEF ShellExits, Sound, TypeOK, Ptys, Single, Closings
  <2>5. Once'
    BY <1>0, <1>16 DEF ShellExits, Sound, TypeOK, Ptys, Single, Once, Made, Spawning
  <2>6. Spawning'
    BY <1>0, <1>16 DEF ShellExits, Sound, TypeOK, Ptys, Single, Spawning, Made, Once
  <2>7. Holding'
    BY <1>0, <1>16 DEF ShellExits, Sound, TypeOK, Ptys, Single, Holding, EntriesAreServed
  <2>8. EntriesAreServed'
    BY <1>0, <1>16 DEF ShellExits, Sound, TypeOK, Ptys, Single, EntriesAreServed, Made, Holding, Deaths, Spawning
  <2>9. ShellsStayReachable'
    BY <1>0, <1>16 DEF ShellExits, Sound, TypeOK, Ptys, Single, ShellsStayReachable, Made, Once, Deaths, Closings, Holding, Spawning, EntriesAreServed
  <2> QED BY <2>1, <2>2, <2>3, <2>4, <2>5, <2>6, <2>7, <2>8, <2>9 DEF SessionInv, Sound
<1>17. ASSUME NEW p \in Ptys, StopsReading(p) PROVE SessionInv'
  <2>1. TypeOK'
    BY <1>0, <1>17 DEF StopsReading, TypeOK, Ptys
  <2>2. Made'
    BY <1>0, <1>17 DEF StopsReading, Sound, TypeOK, Ptys, Single, Made
  <2>3. Deaths'
    BY <1>0, <1>17 DEF StopsReading, Sound, TypeOK, Ptys, Single, Deaths
  <2>4. Closings'
    BY <1>0, <1>17 DEF StopsReading, Sound, TypeOK, Ptys, Single, Closings
  <2>5. Once'
    BY <1>0, <1>17 DEF StopsReading, Sound, TypeOK, Ptys, Single, Once, Made, Spawning
  <2>6. Spawning'
    BY <1>0, <1>17 DEF StopsReading, Sound, TypeOK, Ptys, Single, Spawning, Made, Once
  <2>7. Holding'
    BY <1>0, <1>17 DEF StopsReading, Sound, TypeOK, Ptys, Single, Holding, EntriesAreServed
  <2>8. EntriesAreServed'
    BY <1>0, <1>17 DEF StopsReading, Sound, TypeOK, Ptys, Single, EntriesAreServed, Made, Holding, Deaths, Spawning
  <2>9. ShellsStayReachable'
    BY <1>0, <1>17 DEF StopsReading, Sound, TypeOK, Ptys, Single, ShellsStayReachable, Made, Once, Deaths, Closings, Holding, Spawning, EntriesAreServed
  <2> QED BY <2>1, <2>2, <2>3, <2>4, <2>5, <2>6, <2>7, <2>8, <2>9 DEF SessionInv, Sound
<1>18. ASSUME NEW p \in Ptys, ReadsAgain(p) PROVE SessionInv'
  <2>1. TypeOK'
    BY <1>0, <1>18 DEF ReadsAgain, TypeOK, Ptys
  <2>2. Made'
    BY <1>0, <1>18 DEF ReadsAgain, Sound, TypeOK, Ptys, Single, Made
  <2>3. Deaths'
    BY <1>0, <1>18 DEF ReadsAgain, Sound, TypeOK, Ptys, Single, Deaths
  <2>4. Closings'
    BY <1>0, <1>18 DEF ReadsAgain, Sound, TypeOK, Ptys, Single, Closings
  <2>5. Once'
    BY <1>0, <1>18 DEF ReadsAgain, Sound, TypeOK, Ptys, Single, Once, Made, Spawning
  <2>6. Spawning'
    BY <1>0, <1>18 DEF ReadsAgain, Sound, TypeOK, Ptys, Single, Spawning, Made, Once
  <2>7. Holding'
    BY <1>0, <1>18 DEF ReadsAgain, Sound, TypeOK, Ptys, Single, Holding, EntriesAreServed
  <2>8. EntriesAreServed'
    BY <1>0, <1>18 DEF ReadsAgain, Sound, TypeOK, Ptys, Single, EntriesAreServed, Made, Holding, Deaths, Spawning
  <2>9. ShellsStayReachable'
    BY <1>0, <1>18 DEF ReadsAgain, Sound, TypeOK, Ptys, Single, ShellsStayReachable, Made, Once, Deaths, Closings, Holding, Spawning, EntriesAreServed
  <2> QED BY <2>1, <2>2, <2>3, <2>4, <2>5, <2>6, <2>7, <2>8, <2>9 DEF SessionInv, Sound
<1>19. CASE Ended \/ UNCHANGED vars
  <2>1. UNCHANGED vars
    BY <1>19 DEF Ended
  <2>2. TypeOK'
    BY <1>0, <2>1 DEF vars, TypeOK
  <2>3. Sound'
    BY <1>0, <2>1 DEF vars, Sound, Made, Deaths, Closings, Once, Spawning, Holding, EntriesAreServed, ShellsStayReachable
  <2> QED BY <2>2, <2>3 DEF SessionInv
<1> QED
  BY <1>1, <1>2, <1>3, <1>4, <1>5, <1>6, <1>7, <1>8, <1>9, <1>10, <1>11, <1>12, <1>13, <1>14, <1>15, <1>16, <1>17, <1>18, <1>19
  DEF Next, ReaderStep, PumpStep

LEMMA SessionInvariant == Spec => []SessionInv
BY SessionInit, SessionStep, PTL DEF Spec

\* Tables, processes and goroutines always have their types.
THEOREM SessionTypes == Spec => []TypeOK
<1>1. SessionInv => TypeOK
  BY DEF SessionInv
<1> QED BY <1>1, SessionInvariant, PTL

\* Every session in the table has a PTY of its own, with an open file and a pump.
THEOREM EntriesServed == Spec => []EntriesAreServed
<1>1. SessionInv => EntriesAreServed
  BY DEF SessionInv, Sound
<1> QED BY <1>1, SessionInvariant, PTL

\* A live shell of an id that is used once never gets out of reach.
THEOREM ShellsReachable == Spec => []ShellsStayReachable
<1>1. SessionInv => ShellsStayReachable
  BY DEF SessionInv, Sound
<1> QED BY <1>1, SessionInvariant, PTL

\* No shell outlives the connection it was started on, nor the terminal agent:
\* once closeAll has run, every shell has exited or been killed.  A shell that an
\* old pump has put out of reach does.
NoShellOutlivesTheLink ==
    reader \in {"away", "done"} =>
        \A p \in Ptys : shell[p] = "alive" /\ of[p] \notin Reused => p \in killed

\* Without a connection the table is empty.
Emptied == reader \in {"away", "done"} => \A s \in Sessions : table[s] = 0

LEMMA EmptiedStep ==
    ASSUME SessionInv, Emptied, [Next]_vars
    PROVE  Emptied'
<1>0. table \in [Sessions -> 0..MaxPtys]
  BY DEF SessionInv, TypeOK
<1> USE DEF Emptied, readerVars, ptyVars
<1>1. CASE SpawnFails \/ Spawn \/ WriteReturns \/ Kill
  BY <1>1 DEF SpawnFails, Spawn, WriteReturns, Kill
<1>2. CASE CloseAll
  BY <1>2 DEF CloseAll
<1>3. CASE Reconnect \/ Return
  BY <1>3 DEF Reconnect, Return
<1>4. ASSUME NEW s \in Sessions, Start(s) \/ Data(s) \/ End(s) PROVE Emptied'
  BY <1>4 DEF Start, Data, End
<1>5. ASSUME NEW p \in Ptys, PumpDeletes(p) PROVE Emptied'
  BY <1>0, <1>5 DEF PumpDeletes
<1>6. ASSUME NEW p \in Ptys, \/ PumpReadFails(p) \/ PumpTellsEnd(p) \/ ShellExits(p)
                             \/ StopsReading(p) \/ ReadsAgain(p)
      PROVE  Emptied'
  BY <1>6 DEF PumpReadFails, PumpTellsEnd, ShellExits, StopsReading, ReadsAgain
<1>7. CASE LinkBreaks \/ Cancel \/ Ended \/ UNCHANGED vars
  BY <1>7 DEF LinkBreaks, Cancel, Ended, vars
<1> QED
  BY <1>1, <1>2, <1>3, <1>4, <1>5, <1>6, <1>7 DEF Next, ReaderStep, PumpStep

\* No shell of an id that is used once outlives its connection: one that is alive
\* is reachable, closeAll takes all that are, and none is left in the table.
THEOREM ShellsEndWithTheLink == Spec => []NoShellOutlivesTheLink
<1>1. Init => Emptied
  BY DEF Init, Emptied
<1>2. SessionInv /\ Emptied => NoShellOutlivesTheLink
  <2> SUFFICES ASSUME SessionInv, Emptied, reader \in {"away", "done"},
                      NEW p \in Ptys, shell[p] = "alive", of[p] \notin Reused, p \notin killed
               PROVE  FALSE
    BY DEF NoShellOutlivesTheLink
  <2>1. table[of[p]] = p
    BY DEF SessionInv, Sound, ShellsStayReachable
  <2>2. of[p] \in Sessions /\ p # 0
    BY SessionAssumption DEF SessionInv, Sound, Made, TypeOK, Ptys
  <2> QED BY <2>1, <2>2 DEF Emptied
<1> QED BY <1>1, <1>2, EmptiedStep, SessionInvariant, PTL DEF Spec
=============================================================================
