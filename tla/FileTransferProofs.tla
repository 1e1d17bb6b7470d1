------------------------- MODULE FileTransferProofs -------------------------
(***************************************************************************)
(* Proofs about FileTransfer, for any number of uploads, downloads, chunks *)
(* and connections: an upload in the table has an open file of its own,    *)
(* and a download that is complete on the connection it began on is whole. *)
(*                                                                         *)
(* Types are not inductive by themselves: that a chunk has a place in its  *)
(* file rests on its handle being no further than the backend (Tidy).      *)
(* Loading says what a download has delivered as long as its connection    *)
(* lasts: all that it has read.  Stored says what the file of an upload    *)
(* holds when its last chunk has come: every chunk before it.              *)
(***************************************************************************)
EXTENDS FileTransfer, TLAPS

HandleRecords == [name : Names \cup {"none"}, at : 0..Length,
                  state : {"unused", "open", "closed"}]

Tidy ==
    \A s \in Sessions : uploads[s] # 0 =>
        /\ uploads[s] <= opened
        /\ handle[uploads[s]].name \in Names
        /\ told[s] = "ready" => handle[uploads[s]].at <= sent[s]

Loading ==
    \A d \in Downloads :
        /\ begun[d] <= conns
        /\ load[d] = "unborn" => got[d] = {} /\ pos[d] = 0
        /\ (load[d] # "unborn" /\ begun[d] = conns /\ link = "up") => got[d] = 1..pos[d]
        /\ (load[d] = "end" /\ d \notin cut) => pos[d] = Length
        /\ d \in complete => load[d] = "gone"

\* The two handles the agent may write to are not on one file, unless that has
\* been noted; without a link for a while there are none; and while the link is
\* up a file has all the chunks the backend has sent.
Stored ==
    /\ link = "off" => \A s \in Sessions : uploads[s] = 0
    /\ \A s, t \in Sessions :
         (s # t /\ uploads[s] # 0 /\ uploads[t] # 0 /\ uploads[s] \notin spoilt) =>
            handle[uploads[s]].name # handle[uploads[t]].name
    /\ link = "up" => \A s \in Sessions :
         (uploads[s] # 0 /\ uploads[s] \notin spoilt /\ told[s] = "ready") =>
            /\ handle[uploads[s]].at = sent[s]
            /\ \A i \in 1..sent[s] : disk[handle[uploads[s]].name][i] = [by |-> s, nr |-> i]

Sound == Tidy /\ Loading /\ UploadsAreOpen /\ CompleteOnItsConnection

TransferInv == TypeOK /\ Sound

-----------------------------------------------------------------------------
LEMMA TransferInit == Init => TransferInv
<1> SUFFICES ASSUME Init PROVE TransferInv
  OBVIOUS
<1>1. TypeOK
  BY TransferAssumption DEF Init, TypeOK, Handles, Places, Hole
<1>2. Sound
  BY TransferAssumption DEF Init, Sound, Tidy, Loading, UploadsAreOpen, CompleteOnItsConnection
<1> QED BY <1>1, <1>2 DEF TransferInv

LEMMA TransferStep ==
    ASSUME TransferInv, [Next]_vars
    PROVE  TransferInv'
<1>0. TypeOK /\ Sound
  BY DEF TransferInv
<1> USE TransferAssumption DEF linkVars
<1>1. ASSUME NEW s \in Sessions, NEW f \in Names, UploadInit(s, f) PROVE TransferInv'
  <2>1. TypeOK'
    <3>1. opened + 1 \in Handles /\ opened + 1 \in 0..MaxHandles /\ 0 \in 0..Length
      BY <1>0, <1>1 DEF UploadInit, TypeOK, Handles
    <3>2. handle' \in [Handles -> HandleRecords]
      <4>1. [name |-> f, at |-> 0, state |-> "open"] \in HandleRecords
        BY <3>1 DEF HandleRecords
      <4> QED BY <1>0, <1>1, <3>1, <4>1 DEF UploadInit, TypeOK, HandleRecords
    <3>3. disk' \in [Names -> [Places -> Chunks \cup {Hole}]]
      BY <1>0, <1>1 DEF UploadInit, TypeOK
    <3>4. /\ uploads' \in [Sessions -> 0..MaxHandles] /\ opened' \in 0..MaxHandles
          /\ sent' \in [Sessions -> 0..Length]
          /\ told' \in [Sessions -> {"nothing", "ready", "done", "error"}]
      BY <1>0, <1>1, <3>1 DEF UploadInit, TypeOK
    <3>5. spoilt' \in SUBSET Handles
      BY <1>0, <1>1, <3>1 DEF UploadInit, TypeOK, OpenOn
    <3>6. UNCHANGED <<linkVars, loadVars>>
      BY <1>1 DEF UploadInit
    <3> QED BY <1>0, <3>2, <3>3, <3>4, <3>5, <3>6 DEF TypeOK, loadVars, HandleRecords
  <2>2. Tidy'
    BY <1>0, <1>1 DEF UploadInit, loadVars, Sound, TypeOK, Handles, Tidy, UploadsAreOpen
  <2>3. Loading'
    BY <1>0, <1>1 DEF UploadInit, loadVars, Sound, TypeOK, Handles, Loading
  <2>4. UploadsAreOpen'
    <3>1. opened \in Nat /\ opened + 1 \in Handles
      BY <1>0, <1>1 DEF UploadInit, TypeOK, Handles
    <3>2. \A t \in Sessions : uploads'[t] = IF t = s THEN opened + 1 ELSE uploads[t]
      BY <1>0, <1>1 DEF UploadInit, TypeOK
    <3>3. handle'[opened + 1].state = "open"
      BY <1>0, <1>1, <3>1 DEF UploadInit, TypeOK
    <3>4. \A t \in Sessions : uploads[t] # 0 =>
            uploads[t] # opened + 1 /\ handle'[uploads[t]] = handle[uploads[t]]
      BY <1>0, <1>1, <3>1 DEF UploadInit, TypeOK, Sound, Tidy, Handles
    <3> QED BY <1>0, <3>1, <3>2, <3>3, <3>4 DEF Sound, UploadsAreOpen
  <2>5. CompleteOnItsConnection'
    BY <1>0, <1>1 DEF UploadInit, loadVars, Sound, TypeOK, Handles, CompleteOnItsConnection, Loading, Places
  <2> QED BY <2>1, <2>2, <2>3, <2>4, <2>5 DEF TransferInv, Sound
<1>2. ASSUME NEW s \in Sessions, UploadInitFails(s) PROVE TransferInv'
  <2>1. TypeOK'
    BY <1>0, <1>2 DEF UploadInitFails, loadVars, TypeOK, Handles, Places, Chunks, Hole
  <2>2. Tidy'
    BY <1>0, <1>2 DEF UploadInitFails, loadVars, Sound, TypeOK, Handles, Tidy, UploadsAreOpen
  <2>3. Loading'
    BY <1>0, <1>2 DEF UploadInitFails, loadVars, Sound, TypeOK, Handles, Loading
  <2>4. UploadsAreOpen'
    BY <1>0, <1>2 DEF UploadInitFails, loadVars, Sound, TypeOK, Handles, UploadsAreOpen, Tidy
  <2>5. CompleteOnItsConnection'
    BY <1>0, <1>2 DEF UploadInitFails, loadVars, Sound, TypeOK, Handles, CompleteOnItsConnection, Loading, Places
  <2> QED BY <2>1, <2>2, <2>3, <2>4, <2>5 DEF TransferInv, Sound
<1>3. ASSUME NEW s \in Sessions, UploadData(s) PROVE TransferInv'
  <2> DEFINE h == uploads[s]
             Writes == /\ handle' = [handle EXCEPT ![h].at = @ + 1]
                       /\ disk' = [disk EXCEPT ![handle[h].name][handle[h].at + 1] =
                                     [by |-> s, nr |-> sent[s] + 1]]
                       /\ UNCHANGED spoilt
  <2>0. /\ (h # 0 /\ Writes) \/ UNCHANGED handle
        /\ sent' = [sent EXCEPT ![s] = @ + 1]
        /\ told[s] = "ready" /\ UNCHANGED <<uploads, opened, told>>
    BY <1>3 DEF UploadData
  <2>9. \A g \in Handles : /\ handle'[g].name = handle[g].name
                           /\ handle'[g].state = handle[g].state
                           /\ handle'[g].at = IF Writes /\ g = h THEN handle[g].at + 1
                                                               ELSE handle[g].at
    BY <1>0, <2>0 DEF TypeOK
  <2>1. TypeOK'
    <3>1. /\ link' \in {"up", "broken", "off"} /\ sent[s] + 1 \in Places
          /\ sent' \in [Sessions -> 0..Length]
      BY <1>0, <1>3 DEF UploadData, TypeOK, Places
    <3>2. CASE UNCHANGED <<handle, disk, spoilt>>
      BY <1>0, <1>3, <3>1, <3>2 DEF UploadData, loadVars, TypeOK
    <3>3. CASE spoilt' = spoilt \cup {h} /\ UNCHANGED <<handle, disk>> /\ h # 0
      <4>1. h \in 0..MaxHandles /\ h # 0
        BY <1>0, <3>3 DEF TypeOK
      <4>2. h \in Handles /\ spoilt \in SUBSET Handles
        BY <1>0, <4>1 DEF TypeOK, Handles
      <4>3. spoilt' \in SUBSET Handles
        BY <3>3, <4>2
      <4> QED BY <1>0, <1>3, <3>1, <3>3, <4>3 DEF UploadData, loadVars, TypeOK
    <3>4. CASE Writes /\ h # 0
      <4>1. h \in Handles /\ handle[h] \in HandleRecords
        BY <1>0, <3>4 DEF TypeOK, Handles, HandleRecords
      <4>2. handle[h].name \in Names /\ handle[h].at + 1 \in Places
        BY <1>0, <1>3, <3>1, <3>4, <4>1 DEF UploadData, Sound, Tidy, TypeOK, Places, HandleRecords
      <4>3. [handle[h] EXCEPT !.at = @ + 1] \in HandleRecords
        BY <4>1, <4>2 DEF HandleRecords, Places
      <4>4. handle' \in [Handles -> HandleRecords]
        BY <1>0, <3>4, <4>1, <4>3 DEF TypeOK, HandleRecords
      <4>5. [by |-> s, nr |-> sent[s] + 1] \in Chunks
        BY <3>1 DEF Chunks
      <4>6. disk' \in [Names -> [Places -> Chunks \cup {Hole}]]
        BY <1>0, <3>4, <4>2, <4>5 DEF TypeOK
      <4> QED BY <1>0, <1>3, <3>1, <3>4, <4>4, <4>6 DEF UploadData, loadVars, TypeOK, HandleRecords
    <3> QED BY <1>3, <3>2, <3>3, <3>4 DEF UploadData
  <2>2. Tidy'
    <3> SUFFICES ASSUME NEW t \in Sessions, uploads[t] # 0
                 PROVE  /\ uploads[t] <= opened
                        /\ handle'[uploads[t]].name \in Names
                        /\ told[t] = "ready" => handle'[uploads[t]].at <= sent'[t]
      BY <2>0 DEF Tidy
    <3>1. uploads[t] \in Handles
      BY <1>0 DEF TypeOK, Handles
    <3>2. /\ uploads[t] <= opened /\ handle[uploads[t]].name \in Names
          /\ told[t] = "ready" => handle[uploads[t]].at <= sent[t]
      BY <1>0 DEF Sound, Tidy
    <3>3. sent[t] \in Nat /\ handle[uploads[t]].at \in Nat
          /\ sent'[t] = IF t = s THEN sent[t] + 1 ELSE sent[t]
      BY <1>0, <2>0, <3>1 DEF TypeOK
    <3>4. uploads[t] = h => t = s
      BY <1>0 DEF Sound, UploadsAreOpen
    <3> QED BY <2>9, <3>1, <3>2, <3>3, <3>4
  <2>3. Loading'
    BY <1>0, <1>3 DEF UploadData, loadVars, Sound, TypeOK, Handles, Loading
  <2>4. UploadsAreOpen'
    BY <1>0, <2>0, <2>9 DEF Sound, TypeOK, Handles, UploadsAreOpen
  <2>5. CompleteOnItsConnection'
    BY <1>0, <1>3 DEF UploadData, loadVars, Sound, TypeOK, Handles, CompleteOnItsConnection, Loading, Places
  <2> QED BY <2>1, <2>2, <2>3, <2>4, <2>5 DEF TransferInv, Sound
<1>4. ASSUME NEW s \in Sessions, DataLost(s) PROVE TransferInv'
  <2>1. TypeOK'
    BY <1>0, <1>4 DEF DataLost, loadVars, TypeOK, Handles, Places, Chunks, Hole
  <2>2. Tidy'
    BY <1>0, <1>4 DEF DataLost, loadVars, Sound, TypeOK, Handles, Tidy, UploadsAreOpen
  <2>3. Loading'
    BY <1>0, <1>4 DEF DataLost, loadVars, Sound, TypeOK, Handles, Loading
  <2>4. UploadsAreOpen'
    BY <1>0, <1>4 DEF DataLost, loadVars, Sound, TypeOK, Handles, UploadsAreOpen, Tidy
  <2>5. CompleteOnItsConnection'
    BY <1>0, <1>4 DEF DataLost, loadVars, Sound, TypeOK, Handles, CompleteOnItsConnection, Loading, Places
  <2> QED BY <2>1, <2>2, <2>3, <2>4, <2>5 DEF TransferInv, Sound
<1>5. ASSUME NEW s \in Sessions, UploadEnd(s) PROVE TransferInv'
  <2>1. TypeOK'
    <3>1. uploads[s] \in Handles /\ handle[uploads[s]] \in HandleRecords
      BY <1>0, <1>5 DEF UploadEnd, TypeOK, Handles, HandleRecords
    <3>2. [handle[uploads[s]] EXCEPT !.state = "closed"] \in HandleRecords
      BY <3>1 DEF HandleRecords
    <3>3. handle' \in [Handles -> HandleRecords]
      BY <1>0, <1>5, <3>1, <3>2 DEF UploadEnd, TypeOK, HandleRecords
    <3>4. /\ uploads' \in [Sessions -> 0..MaxHandles]
          /\ told' \in [Sessions -> {"nothing", "ready", "done", "error"}]
      BY <1>0, <1>5 DEF UploadEnd, TypeOK
    <3>5. UNCHANGED <<linkVars, opened, disk, sent, spoilt, loadVars>>
      BY <1>5 DEF UploadEnd
    <3> QED BY <1>0, <3>3, <3>4, <3>5 DEF TypeOK, loadVars, HandleRecords
  <2>2. Tidy'
    BY <1>0, <1>5 DEF UploadEnd, loadVars, Sound, TypeOK, Handles, Tidy, UploadsAreOpen
  <2>3. Loading'
    BY <1>0, <1>5 DEF UploadEnd, loadVars, Sound, TypeOK, Handles, Loading
  <2>4. UploadsAreOpen'
    BY <1>0, <1>5 DEF UploadEnd, loadVars, Sound, TypeOK, Handles, UploadsAreOpen, Tidy
  <2>5. CompleteOnItsConnection'
    BY <1>0, <1>5 DEF UploadEnd, loadVars, Sound, TypeOK, Handles, CompleteOnItsConnection, Loading, Places
  <2> QED BY <2>1, <2>2, <2>3, <2>4, <2>5 DEF TransferInv, Sound
<1>6. ASSUME NEW d \in Downloads, DownloadStarts(d) PROVE TransferInv'
  <2>1. TypeOK'
    BY <1>0, <1>6 DEF DownloadStarts, uploadVars, TypeOK, Handles, Places, Chunks, Hole
  <2>2. Tidy'
    BY <1>0, <1>6 DEF DownloadStarts, uploadVars, Sound, TypeOK, Handles, Tidy, UploadsAreOpen
  <2>3. Loading'
    <3>1. /\ load \in [Downloads -> {"unborn", "read", "end", "gone"}]
          /\ begun \in [Downloads -> 0..MaxConns] /\ conns \in Nat /\ 1..0 = {}
      BY <1>0 DEF TypeOK
    <3>2. /\ \A e \in Downloads : load'[e] = IF e = d THEN "read" ELSE load[e]
          /\ \A e \in Downloads : begun'[e] = IF e = d THEN conns ELSE begun[e]
          /\ UNCHANGED <<link, conns, pos, got, cut, complete>>
      BY <1>6, <3>1 DEF DownloadStarts
    <3>3. load[d] = "unborn"
      BY <1>6 DEF DownloadStarts
    <3>4. Loading
      BY <1>0 DEF Sound
    <3>5. got[d] = {} /\ pos[d] = 0 /\ d \notin complete
      BY <3>3, <3>4 DEF Loading
    <3>6. d \in complete' => load'[d] = "gone"
      BY <3>2, <3>5
    <3>7. /\ begun'[d] <= conns'
          /\ load'[d] = "read" /\ got'[d] = 1..pos'[d]
      BY <3>1, <3>2, <3>5
    <3>8. ASSUME NEW e \in Downloads, e # d
          PROVE  /\ begun'[e] = begun[e] /\ load'[e] = load[e]
                 /\ UNCHANGED <<conns, link, got[e], pos[e], cut, complete>>
      BY <3>2, <3>8
    <3> QED BY <3>4, <3>6, <3>7, <3>8 DEF Loading
  <2>4. UploadsAreOpen'
    BY <1>0, <1>6 DEF DownloadStarts, uploadVars, Sound, TypeOK, Handles, UploadsAreOpen, Tidy
  <2>5. CompleteOnItsConnection'
    BY <1>0, <1>6 DEF DownloadStarts, uploadVars, Sound, TypeOK, Handles, CompleteOnItsConnection, Loading, Places
  <2> QED BY <2>1, <2>2, <2>3, <2>4, <2>5 DEF TransferInv, Sound
<1>7. ASSUME NEW d \in Downloads, OpenFails(d) PROVE TransferInv'
  <2>1. TypeOK'
    BY <1>0, <1>7 DEF OpenFails, uploadVars, TypeOK, Handles, Places, Chunks, Hole
  <2>2. Tidy'
    BY <1>0, <1>7 DEF OpenFails, uploadVars, Sound, TypeOK, Handles, Tidy, UploadsAreOpen
  <2>3. Loading'
    BY <1>0, <1>7 DEF OpenFails, uploadVars, Sound, TypeOK, Handles, Loading
  <2>4. UploadsAreOpen'
    BY <1>0, <1>7 DEF OpenFails, uploadVars, Sound, TypeOK, Handles, UploadsAreOpen, Tidy
  <2>5. CompleteOnItsConnection'
    BY <1>0, <1>7 DEF OpenFails, uploadVars, Sound, TypeOK, Handles, CompleteOnItsConnection, Loading, Places
  <2> QED BY <2>1, <2>2, <2>3, <2>4, <2>5 DEF TransferInv, Sound
<1>8. ASSUME NEW d \in Downloads, DownloadReads(d) PROVE TransferInv'
  <2>1. TypeOK'
    <3>1. pos[d] + 1 \in Places /\ pos' \in [Downloads -> 0..Length]
      BY <1>0, <1>8 DEF DownloadReads, TypeOK, Places
    <3>2. got' \in [Downloads -> SUBSET Places]
      BY <1>0, <1>8, <3>1 DEF DownloadReads, TypeOK
    <3>3. UNCHANGED <<linkVars, uploadVars, load, begun, cut, complete>>
      BY <1>8 DEF DownloadReads
    <3> QED BY <1>0, <3>1, <3>2, <3>3 DEF TypeOK, uploadVars
  <2>2. Tidy'
    BY <1>0, <1>8 DEF DownloadReads, uploadVars, Sound, TypeOK, Handles, Tidy, UploadsAreOpen
  <2>3. Loading'
    <3>1. /\ pos[d] \in Nat /\ got[d] \in SUBSET Places
          /\ pos \in [Downloads -> 0..Length] /\ got \in [Downloads -> SUBSET Places]
      BY <1>0 DEF TypeOK
    <3>2. /\ \A e \in Downloads : pos'[e] = IF e = d THEN pos[d] + 1 ELSE pos[e]
          /\ \A e \in Downloads : got'[e] = IF e = d /\ link = "up"
                                            THEN got[d] \cup {pos[d] + 1} ELSE got[e]
          /\ UNCHANGED <<link, conns, load, begun, cut, complete>>
      BY <1>8, <3>1 DEF DownloadReads
    <3>3. 1..(pos[d] + 1) = (1..pos[d]) \cup {pos[d] + 1}
      BY <3>1
    <3>4. load[d] = "read"
      BY <1>8 DEF DownloadReads
    <3> QED BY <1>0, <3>2, <3>3, <3>4 DEF Sound, Loading
  <2>4. UploadsAreOpen'
    BY <1>0, <1>8 DEF DownloadReads, uploadVars, Sound, TypeOK, Handles, UploadsAreOpen, Tidy
  <2>5. CompleteOnItsConnection'
    BY <1>0, <1>8 DEF DownloadReads, uploadVars, Sound, TypeOK, Handles, CompleteOnItsConnection, Loading, Places
  <2> QED BY <2>1, <2>2, <2>3, <2>4, <2>5 DEF TransferInv, Sound
<1>9. ASSUME NEW d \in Downloads, DownloadReadFails(d) PROVE TransferInv'
  <2>1. TypeOK'
    BY <1>0, <1>9 DEF DownloadReadFails, uploadVars, TypeOK, Handles, Places, Chunks, Hole
  <2>2. Tidy'
    BY <1>0, <1>9 DEF DownloadReadFails, uploadVars, Sound, TypeOK, Handles, Tidy, UploadsAreOpen
  <2>3. Loading'
    BY <1>0, <1>9 DEF DownloadReadFails, uploadVars, Sound, TypeOK, Handles, Loading
  <2>4. UploadsAreOpen'
    BY <1>0, <1>9 DEF DownloadReadFails, uploadVars, Sound, TypeOK, Handles, UploadsAreOpen, Tidy
  <2>5. CompleteOnItsConnection'
    BY <1>0, <1>9 DEF DownloadReadFails, uploadVars, Sound, TypeOK, Handles, CompleteOnItsConnection, Loading, Places
  <2> QED BY <2>1, <2>2, <2>3, <2>4, <2>5 DEF TransferInv, Sound
<1>10. ASSUME NEW d \in Downloads, DownloadEnds(d) PROVE TransferInv'
  <2>1. TypeOK'
    BY <1>0, <1>10 DEF DownloadEnds, uploadVars, TypeOK, Handles, Places, Chunks, Hole
  <2>2. Tidy'
    BY <1>0, <1>10 DEF DownloadEnds, uploadVars, Sound, TypeOK, Handles, Tidy, UploadsAreOpen
  <2>3. Loading'
    BY <1>0, <1>10 DEF DownloadEnds, uploadVars, Sound, TypeOK, Handles, Loading
  <2>4. UploadsAreOpen'
    BY <1>0, <1>10 DEF DownloadEnds, uploadVars, Sound, TypeOK, Handles, UploadsAreOpen, Tidy
  <2>5. CompleteOnItsConnection'
    BY <1>0, <1>10 DEF DownloadEnds, uploadVars, Sound, TypeOK, Handles, CompleteOnItsConnection, Loading, Places
  <2> QED BY <2>1, <2>2, <2>3, <2>4, <2>5 DEF TransferInv, Sound
<1>11. CASE LinkBreaks
  <2>1. TypeOK'
    BY <1>0, <1>11 DEF LinkBreaks, loadVars, uploadVars, TypeOK, Handles, Places, Chunks, Hole
  <2>2. Tidy'
    BY <1>0, <1>11 DEF LinkBreaks, loadVars, uploadVars, Sound, TypeOK, Handles, Tidy, UploadsAreOpen
  <2>3. Loading'
    BY <1>0, <1>11 DEF LinkBreaks, loadVars, uploadVars, Sound, TypeOK, Handles, Loading
  <2>4. UploadsAreOpen'
    BY <1>0, <1>11 DEF LinkBreaks, loadVars, uploadVars, Sound, TypeOK, Handles, UploadsAreOpen, Tidy
  <2>5. CompleteOnItsConnection'
    BY <1>0, <1>11 DEF LinkBreaks, loadVars, uploadVars, Sound, TypeOK, Handles, CompleteOnItsConnection, Loading, Places
  <2> QED BY <2>1, <2>2, <2>3, <2>4, <2>5 DEF TransferInv, Sound
<1>12. CASE CloseAll
  <2>1. TypeOK'
    <3>1. \A g \in Handles : /\ handle[g] \in HandleRecords
                             /\ [handle[g] EXCEPT !.state = "closed"] \in HandleRecords
      BY <1>0 DEF TypeOK, HandleRecords
    <3>2. handle' \in [Handles -> HandleRecords]
      BY <1>12, <3>1 DEF CloseAll
    <3>3. uploads' \in [Sessions -> 0..MaxHandles] /\ link' = "off"
      BY <1>0, <1>12 DEF CloseAll, TypeOK
    <3>4. UNCHANGED <<conns, opened, disk, sent, told, spoilt, loadVars>>
      BY <1>12 DEF CloseAll
    <3> QED BY <1>0, <3>2, <3>3, <3>4 DEF TypeOK, loadVars, HandleRecords
  <2>2. Tidy'
    BY <1>0, <1>12 DEF CloseAll, Tracked, loadVars, Sound, TypeOK, Handles, Tidy, UploadsAreOpen
  <2>3. Loading'
    BY <1>0, <1>12 DEF CloseAll, Tracked, loadVars, Sound, TypeOK, Handles, Loading
  <2>4. UploadsAreOpen'
    BY <1>0, <1>12 DEF CloseAll, Tracked, loadVars, Sound, TypeOK, Handles, UploadsAreOpen, Tidy
  <2>5. CompleteOnItsConnection'
    BY <1>0, <1>12 DEF CloseAll, Tracked, loadVars, Sound, TypeOK, Handles, CompleteOnItsConnection, Loading, Places
  <2> QED BY <2>1, <2>2, <2>3, <2>4, <2>5 DEF TransferInv, Sound
<1>13. CASE Reconnect
  <2>1. TypeOK'
    BY <1>0, <1>13 DEF Reconnect, loadVars, uploadVars, TypeOK, Handles, Places, Chunks, Hole
  <2>2. Tidy'
    BY <1>0, <1>13 DEF Reconnect, loadVars, uploadVars, Sound, TypeOK, Handles, Tidy, UploadsAreOpen
  <2>3. Loading'
    BY <1>0, <1>13 DEF Reconnect, loadVars, uploadVars, Sound, TypeOK, Handles, Loading
  <2>4. UploadsAreOpen'
    BY <1>0, <1>13 DEF Reconnect, loadVars, uploadVars, Sound, TypeOK, Handles, UploadsAreOpen, Tidy
  <2>5. CompleteOnItsConnection'
    BY <1>0, <1>13 DEF Reconnect, loadVars, uploadVars, Sound, TypeOK, Handles, CompleteOnItsConnection, Loading, Places
  <2> QED BY <2>1, <2>2, <2>3, <2>4, <2>5 DEF TransferInv, Sound
<1>14. CASE UNCHANGED vars
  <2>1. TypeOK'
    BY <1>0, <1>14 DEF vars, uploadVars, loadVars, TypeOK
  <2>2. Sound'
    BY <1>0, <1>14 DEF vars, uploadVars, loadVars, Sound, Tidy, Loading, UploadsAreOpen, CompleteOnItsConnection
  <2> QED BY <2>1, <2>2 DEF TransferInv
<1> QED
  BY <1>1, <1>2, <1>3, <1>4, <1>5, <1>6, <1>7, <1>8, <1>9, <1>10, <1>11, <1>12, <1>13, <1>14
  DEF Next, UploadStep, DownloadStep

LEMMA TransferInvariant == Spec => []TransferInv
BY TransferInit, TransferStep, PTL DEF Spec

\* Tables, handles and downloads always have their types.
THEOREM TransferTypes == Spec => []TypeOK
<1>1. TransferInv => TypeOK
  BY DEF TransferInv
<1> QED BY <1>1, TransferInvariant, PTL

\* No chunk is ever written to a closed file or to that of another id.
THEOREM UploadsOpen == Spec => []UploadsAreOpen
<1>1. TransferInv => UploadsAreOpen
  BY DEF TransferInv, Sound
<1> QED BY <1>1, TransferInvariant, PTL

\* A download complete on the connection it began on is whole.
THEOREM CompleteThere == Spec => []CompleteOnItsConnection
<1>1. TransferInv => CompleteOnItsConnection
  BY DEF TransferInv, Sound
<1> QED BY <1>1, TransferInvariant, PTL

-----------------------------------------------------------------------------
(* What an upload has stored *)

LEMMA StoredStep ==
    ASSUME TransferInv, Stored, [Next]_vars
    PROVE  Stored'
<1>0. TypeOK /\ Tidy /\ UploadsAreOpen
  BY DEF TransferInv, Sound
<1>h. \A s \in Sessions : uploads[s] # 0 => uploads[s] \in Handles /\ uploads[s] # opened + 1
  BY <1>0, TransferAssumption DEF TypeOK, Tidy, Handles
<1>1. ASSUME NEW s \in Sessions, NEW f \in Names, UploadInit(s, f) PROVE Stored'
  <2>1. opened + 1 \in Handles /\ opened + 1 # 0
    BY <1>0, <1>1, TransferAssumption DEF UploadInit, TypeOK, Handles
  <2>2. \A t \in Sessions : uploads'[t] = IF t = s THEN opened + 1 ELSE uploads[t]
    BY <1>0, <1>1 DEF UploadInit, TypeOK
  <2>3. /\ handle'[opened + 1].name = f /\ handle'[opened + 1].at = 0
        /\ \A g \in Handles : g # opened + 1 => handle'[g] = handle[g]
    BY <1>0, <1>1, <2>1 DEF UploadInit, TypeOK
  <2>4. /\ \A g \in Names : g # f => disk'[g] = disk[g]
        /\ \A t \in Sessions : t # s => sent'[t] = sent[t] /\ told'[t] = told[t]
        /\ sent'[s] = 0
    BY <1>0, <1>1 DEF UploadInit, TypeOK
  <2>5. /\ link = "up" /\ link' = "up" /\ spoilt \subseteq spoilt' /\ OpenOn(f) \subseteq spoilt'
        /\ (\E t \in Sessions \ {s} : uploads[t] \in OpenOn(f)) => opened + 1 \in spoilt'
    BY <1>1 DEF UploadInit, linkVars
  <2>6. \A t \in Sessions : (uploads[t] # 0 /\ handle[uploads[t]].name = f) => uploads[t] \in OpenOn(f)
    BY <1>0, <1>h DEF UploadsAreOpen, OpenOn
  <2>7. ASSUME NEW a \in Sessions, NEW b \in Sessions, a # b,
               uploads'[a] # 0, uploads'[b] # 0, uploads'[a] \notin spoilt'
        PROVE  handle'[uploads'[a]].name # handle'[uploads'[b]].name
    <3>1. CASE a = s
      BY <1>h, <2>2, <2>3, <2>5, <2>6, <2>7, <3>1
    <3>2. CASE b = s
      BY <1>h, <2>2, <2>3, <2>5, <2>6, <2>7, <3>2
    <3>3. CASE a # s /\ b # s
      BY <1>h, <2>2, <2>3, <2>5, <2>7, <3>3 DEF Stored
    <3> QED
      BY <3>1, <3>2, <3>3
  <2>8. ASSUME NEW t \in Sessions, uploads'[t] # 0, uploads'[t] \notin spoilt', told'[t] = "ready"
        PROVE  /\ handle'[uploads'[t]].at = sent'[t]
               /\ \A i \in 1..sent'[t] :
                    disk'[handle'[uploads'[t]].name][i] = [by |-> t, nr |-> i]
    <3>1. CASE t = s
      BY <2>2, <2>3, <2>4, <3>1
    <3>2. CASE t # s
      <4>1. uploads'[t] = uploads[t] /\ handle'[uploads[t]] = handle[uploads[t]]
        BY <1>h, <2>2, <2>3, <2>8, <3>2
      <4>2. handle[uploads[t]].name # f /\ handle[uploads[t]].name \in Names
        BY <1>0, <2>5, <2>6, <2>8, <4>1 DEF Tidy
      <4> QED
        BY <2>4, <2>5, <2>8, <3>2, <4>1, <4>2 DEF Stored
    <3> QED
      BY <3>1, <3>2
  <2> QED
    BY <2>5, <2>7, <2>8 DEF Stored
<1>2. ASSUME NEW s \in Sessions, UploadInitFails(s) PROVE Stored'
  BY <1>0, <1>2 DEF UploadInitFails, linkVars, Stored, TypeOK
<1>3. ASSUME NEW s \in Sessions, UploadData(s) PROVE Stored'
  <2> DEFINE h == uploads[s]
  <2>1. /\ link = "up" /\ link' = link /\ uploads' = uploads /\ told' = told
        /\ told[s] = "ready" /\ sent[s] < Length
        /\ \A t \in Sessions : sent'[t] = IF t = s THEN sent[s] + 1 ELSE sent[t]
    BY <1>0, <1>3 DEF UploadData, linkVars, TypeOK
  <2>2. CASE h = 0
    BY <1>3, <2>1, <2>2 DEF UploadData, Stored
  <2>3. CASE h # 0 /\ spoilt' = spoilt \cup {h} /\ UNCHANGED <<handle, disk>>
    BY <1>0, <2>1, <2>3 DEF Stored, UploadsAreOpen
  <2>4. CASE /\ h # 0
             /\ handle' = [handle EXCEPT ![h].at = @ + 1]
             /\ disk' = [disk EXCEPT ![handle[h].name][handle[h].at + 1] =
                            [by |-> s, nr |-> sent[s] + 1]]
             /\ UNCHANGED spoilt
    <3>1. h \in Handles /\ handle[h].name \in Names /\ handle[h].at <= sent[s]
          /\ handle[h].at \in Nat /\ sent[s] \in Nat
      BY <1>0, <1>h, <2>1, <2>4, TransferAssumption DEF Tidy, TypeOK
    <3>2. \A g \in Handles : /\ handle'[g].name = handle[g].name
                             /\ handle'[g].at = IF g = h THEN handle[g].at + 1 ELSE handle[g].at
      BY <1>0, <2>4, <3>1 DEF TypeOK
    <3>3. /\ \A g \in Names : g # handle[h].name => disk'[g] = disk[g]
          /\ \A i \in Places : disk'[handle[h].name][i] =
                IF i = handle[h].at + 1 THEN [by |-> s, nr |-> sent[s] + 1]
                                        ELSE disk[handle[h].name][i]
      BY <1>0, <2>4, <3>1 DEF TypeOK
    <3>4. ASSUME NEW t \in Sessions, uploads[t] # 0, uploads[t] \notin spoilt, told[t] = "ready"
          PROVE  /\ handle'[uploads[t]].at = sent'[t]
                 /\ \A i \in 1..sent'[t] :
                      disk'[handle'[uploads[t]].name][i] = [by |-> t, nr |-> i]
      <4>1. CASE t = s
        <5>1. handle[h].at = sent[s]
          BY <2>1, <3>4, <4>1 DEF Stored
        <5>2. \A i \in 1..(sent[s] + 1) : i \in Places /\ (i = sent[s] + 1 \/ i \in 1..sent[s])
          BY <2>1, <3>1, TransferAssumption DEF Places
        <5>3. \A i \in 1..(sent[s] + 1) : disk'[handle[h].name][i] = [by |-> s, nr |-> i]
          BY <2>1, <3>1, <3>3, <3>4, <4>1, <5>1, <5>2 DEF Stored
        <5> QED
          BY <2>1, <3>1, <3>2, <4>1, <5>1, <5>3
      <4>2. CASE t # s
        <5>1. uploads[t] \in Handles /\ uploads[t] # h /\ handle[uploads[t]].name \in Names
          BY <1>0, <1>h, <3>4, <4>2 DEF UploadsAreOpen, Tidy
        <5>2. handle[uploads[t]].name # handle[h].name
          BY <2>4, <3>4, <4>2 DEF Stored
        <5> QED
          BY <2>1, <3>2, <3>3, <3>4, <4>2, <5>1, <5>2 DEF Stored
      <4> QED
        BY <4>1, <4>2
    <3>5. \A t \in Sessions : uploads[t] # 0 =>
            handle'[uploads[t]].name = handle[uploads[t]].name
      BY <1>h, <3>2
    <3> QED
      BY <2>1, <2>4, <3>4, <3>5 DEF Stored
  <2> QED
    BY <1>3, <2>2, <2>3, <2>4 DEF UploadData
<1>4. ASSUME NEW s \in Sessions, DataLost(s) PROVE Stored'
  BY <1>4 DEF DataLost, linkVars, Stored
<1>5. ASSUME NEW s \in Sessions, UploadEnd(s) PROVE Stored'
  <2>1. \A t \in Sessions : /\ uploads'[t] = IF t = s THEN 0 ELSE uploads[t]
                            /\ told'[t] = IF t = s THEN "done" ELSE told[t]
    BY <1>0, <1>5 DEF UploadEnd, TypeOK
  <2>2. \A g \in Handles : handle'[g].name = handle[g].name /\ handle'[g].at = handle[g].at
    BY <1>0, <1>5, <1>h DEF UploadEnd, TypeOK
  <2>3. UNCHANGED <<link, sent, spoilt, disk>>
    BY <1>5 DEF UploadEnd, linkVars
  <2> QED
    BY <1>h, <2>1, <2>2, <2>3 DEF Stored
<1>6. ASSUME NEW d \in Downloads, DownloadStarts(d) \/ DownloadStep(d) PROVE Stored'
  BY <1>6 DEF DownloadStarts, DownloadStep, OpenFails, DownloadReads, DownloadReadFails,
              DownloadEnds, linkVars, uploadVars, Stored
<1>7. CASE LinkBreaks
  BY <1>7 DEF LinkBreaks, uploadVars, Stored
<1>8. CASE CloseAll
  BY <1>8 DEF CloseAll, Stored
<1>9. CASE Reconnect
  BY <1>9 DEF Reconnect, uploadVars, Stored
<1>10. CASE UNCHANGED vars
  BY <1>10 DEF vars, linkVars, uploadVars, Stored
<1> QED
  BY <1>1, <1>2, <1>3, <1>4, <1>5, <1>6, <1>7, <1>8, <1>9, <1>10 DEF Next, UploadStep

\* Only an END makes an upload done.
LEMMA DoneStep ==
    ASSUME TransferInv, Stored, [Next]_vars, NEW s \in Sessions,
           told[s] # "done", told'[s] = "done", uploads[s] \notin spoilt
    PROVE  /\ uploads[s] # 0
           /\ \A i \in 1..sent[s] : disk'[handle[uploads[s]].name][i] = [by |-> s, nr |-> i]
<1>0. TypeOK
  BY DEF TransferInv
<1>1. UploadEnd(s)
  <2>1. ASSUME NEW t \in Sessions, UploadStep(t) PROVE UploadEnd(s)
    BY <1>0, <2>1 DEF UploadStep, UploadInit, UploadInitFails, UploadData, DataLost, UploadEnd,
                      TypeOK
  <2>2. told' = told => FALSE
    OBVIOUS
  <2>3. ASSUME NEW d \in Downloads, DownloadStarts(d) \/ DownloadStep(d) PROVE told' = told
    BY <2>3 DEF DownloadStarts, DownloadStep, OpenFails, DownloadReads, DownloadReadFails,
                DownloadEnds, uploadVars
  <2>4. CASE LinkBreaks \/ CloseAll \/ Reconnect \/ UNCHANGED vars
    BY <2>2, <2>4 DEF LinkBreaks, CloseAll, Reconnect, vars, uploadVars
  <2> QED
    BY <2>1, <2>2, <2>3, <2>4 DEF Next
<1> QED
  BY <1>1 DEF UploadEnd, Stored

\* What an upload has stored when the agent says "done" is what the backend sent,
\* in its order (handleFileData, handleFileEnd; DoneMeansStored).
THEOREM DoneIsStored == Spec => DoneMeansStored
<1>1. Init => Stored
  BY DEF Init, Stored
<1>2. TransferInv /\ Stored /\ [Next]_vars => Stored'
  BY StoredStep
<1>3. TransferInv /\ Stored /\ [Next]_vars =>
        [\A s \in Sessions :
           (told[s] # "done" /\ told'[s] = "done" /\ uploads[s] \notin spoilt) =>
              /\ uploads[s] # 0
              /\ \A i \in 1..sent[s] :
                   disk'[handle[uploads[s]].name][i] = [by |-> s, nr |-> i]]_vars
  BY DoneStep
<1> QED
  BY <1>1, <1>2, <1>3, TransferInvariant, PTL DEF Spec, DoneMeansStored
=============================================================================
