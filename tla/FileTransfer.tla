---------------------------- MODULE FileTransfer ----------------------------
(***************************************************************************)
(* File transfer over the terminal link (terminal.go).  Uploads are the    *)
(* Reader's: FILE_TRANSFER_INIT opens a file for a session id, each DATA   *)
(* appends a chunk to it, END closes it and says "done", and closeAll      *)
(* closes what a lost link leaves.  A download is a goroutine of its own,  *)
(* which reads a file to its end and sends its chunks whether or not there *)
(* is a link to send them on.                                              *)
(*                                                                         *)
(* Abstracted: contents (a chunk is the backend's n-th of an upload, or    *)
(* the n-th of a file), paths (a name is what filepath.Base leaves of      *)
(* one; a path with ".." gets an ERROR and changes nothing), and messages  *)
(* that cannot be decoded, which are ignored.  A sendMessage is one step:  *)
(* it arrives if the link is up, and is lost otherwise.  The backend sends *)
(* the chunks of an upload in order once it has read "ready", and does not *)
(* notice that the link is lost.                                           *)
(***************************************************************************)
EXTENDS Naturals

CONSTANTS
    Sessions,     \* session ids of uploads
    Names,        \* names of files in the upload directory
    Downloads,    \* download goroutines
    Length,       \* chunks in each file
    MaxHandles,   \* bound: files opened for uploads
    MaxConns      \* bound: connections

ASSUME TransferAssumption ==
    /\ Length \in Nat /\ MaxHandles \in Nat /\ MaxConns \in Nat

Handles == 1..MaxHandles
Places  == 1..Length

VARIABLES
    link,       \* a.connected and the transport below it
    conns,      \* connections made
    uploads,    \* a.uploads: the handle of each id, 0 for none
    opened,     \* handles opened
    handle,     \* each handle: its name, its offset, and whether it is open
    disk,       \* the chunk at each place of each file
    sent,       \* chunks the backend has sent since its INIT
    told,       \* the last status of each upload
    spoilt,     \* history: handles a failed write or another upload has spoilt
    load,       \* where each download is
    pos,        \* chunks it has read
    got,        \* of these, the ones the backend received
    begun,      \* history: the connection it was asked for on
    cut,        \* history: downloads whose file could not be read to its end
    complete    \* downloads whose END the backend received

linkVars   == <<link, conns>>
uploadVars == <<uploads, opened, handle, disk, sent, told, spoilt>>
loadVars   == <<load, pos, got, begun, cut, complete>>
vars == <<linkVars, uploadVars, loadVars>>

Chunks == [by : Sessions, nr : Places]
Hole   == [by |-> "none", nr |-> 0]

\* Tables, handles and goroutines have the states the code gives them.
TypeOK ==
    /\ link \in {"up", "broken", "off"}
    /\ conns \in 0..MaxConns
    /\ uploads \in [Sessions -> 0..MaxHandles]
    /\ opened \in 0..MaxHandles
    /\ handle \in [Handles -> [name : Names \cup {"none"}, at : 0..Length,
                           state : {"unused", "open", "closed"}]]
    /\ disk \in [Names -> [Places -> Chunks \cup {Hole}]]
    /\ sent \in [Sessions -> 0..Length]
    /\ told \in [Sessions -> {"nothing", "ready", "done", "error"}]
    /\ spoilt \in SUBSET Handles
    /\ load \in [Downloads -> {"unborn", "read", "end", "gone"}]
    /\ pos \in [Downloads -> 0..Length]
    /\ got \in [Downloads -> SUBSET Places]
    /\ begun \in [Downloads -> 0..MaxConns]
    /\ cut \in SUBSET Downloads
    /\ complete \in SUBSET Downloads

Init ==
    /\ link = "off"
    /\ conns = 0
    /\ uploads = [s \in Sessions |-> 0]
    /\ opened = 0
    /\ handle = [h \in Handles |-> [name |-> "none", at |-> 0, state |-> "unused"]]
    /\ disk = [f \in Names |-> [i \in Places |-> Hole]]
    /\ sent = [s \in Sessions |-> 0]
    /\ told = [s \in Sessions |-> "nothing"]
    /\ spoilt = {}
    /\ load = [d \in Downloads |-> "unborn"]
    /\ pos = [d \in Downloads |-> 0]
    /\ got = [d \in Downloads |-> {}]
    /\ begun = [d \in Downloads |-> 0]
    /\ cut = {}
    /\ complete = {}

-----------------------------------------------------------------------------
(* Uploads *)

Tracked == {uploads[s] : s \in Sessions} \ {0}

OpenOn(f) == {h \in Handles : handle[h].state = "open" /\ handle[h].name = f}

\* FILE_TRANSFER_INIT of an upload: the file is created or truncated.  A handle
\* the id already has stays open, and nothing refers to it any more.
UploadInit(s, f) ==
    /\ link = "up"
    /\ opened < MaxHandles
    /\ opened' = opened + 1
    /\ handle' = [handle EXCEPT ![opened + 1] = [name |-> f, at |-> 0, state |-> "open"]]
    /\ disk' = [disk EXCEPT ![f] = [i \in Places |-> Hole]]
    /\ uploads' = [uploads EXCEPT ![s] = opened + 1]
    /\ sent' = [sent EXCEPT ![s] = 0]
    /\ told' = [told EXCEPT ![s] = "ready"]
    /\ spoilt' = spoilt \cup OpenOn(f)
                 \cup IF \E t \in Sessions \ {s} : uploads[t] \in OpenOn(f)
                      THEN {opened + 1} ELSE {}
    /\ UNCHANGED <<linkVars, loadVars>>

UploadInitFails(s) ==
    /\ link = "up"
    /\ sent' = [sent EXCEPT ![s] = 0]
    /\ told' = [told EXCEPT ![s] = "error"]
    /\ UNCHANGED <<linkVars, uploads, opened, handle, disk, spoilt, loadVars>>

\* The next chunk is written at the offset of the id's handle; that a write may
\* fail is nobody's business.
UploadData(s) ==
    /\ link = "up"
    /\ told[s] = "ready" /\ sent[s] < Length
    /\ sent' = [sent EXCEPT ![s] = @ + 1]
    /\ LET h == uploads[s] IN
       IF h = 0
       THEN UNCHANGED <<handle, disk, spoilt>>
       ELSE \/ /\ handle' = [handle EXCEPT ![h].at = @ + 1]
               /\ disk' = [disk EXCEPT ![handle[h].name][handle[h].at + 1] =
                             [by |-> s, nr |-> sent[s] + 1]]
               /\ UNCHANGED spoilt
            \/ /\ spoilt' = spoilt \cup {h}
               /\ UNCHANGED <<handle, disk>>
    /\ UNCHANGED <<linkVars, uploads, opened, told, loadVars>>

\* A chunk the backend sends while there is no link is lost.
DataLost(s) ==
    /\ link # "up"
    /\ told[s] = "ready" /\ sent[s] < Length
    /\ sent' = [sent EXCEPT ![s] = @ + 1]
    /\ UNCHANGED <<linkVars, uploads, opened, handle, disk, told, spoilt, loadVars>>

\* Mutant: an END is acknowledged for any id.
UploadEnd_Always(s) ==
    /\ link = "up"
    /\ told[s] = "ready" /\ sent[s] = Length
    /\ told' = [told EXCEPT ![s] = "done"]
    /\ uploads' = [uploads EXCEPT ![s] = 0]
    /\ handle' = [h \in Handles |-> IF h = uploads[s] THEN [handle[h] EXCEPT !.state = "closed"]
                                                      ELSE handle[h]]
    /\ UNCHANGED <<linkVars, opened, disk, sent, spoilt, loadVars>>

\* FILE_TRANSFER_END of an id that has a handle; for any other it does nothing.
UploadEnd(s) ==
    /\ link = "up"
    /\ told[s] = "ready" /\ sent[s] = Length
    /\ uploads[s] # 0
    /\ told' = [told EXCEPT ![s] = "done"]
    /\ uploads' = [uploads EXCEPT ![s] = 0]
    /\ handle' = [handle EXCEPT ![uploads[s]].state = "closed"]
    /\ UNCHANGED <<linkVars, opened, disk, sent, spoilt, loadVars>>

-----------------------------------------------------------------------------
(* Downloads *)

\* FILE_TRANSFER_INIT of a download.
DownloadStarts(d) ==
    /\ link = "up"
    /\ load[d] = "unborn"
    /\ load' = [load EXCEPT ![d] = "read"]
    /\ begun' = [begun EXCEPT ![d] = conns]
    /\ UNCHANGED <<linkVars, uploadVars, pos, got, cut, complete>>

OpenFails(d) ==
    /\ load[d] = "read" /\ pos[d] = 0
    /\ load' = [load EXCEPT ![d] = "gone"]
    /\ UNCHANGED <<linkVars, uploadVars, pos, got, begun, cut, complete>>

\* Mutant: a read is tested for its error before its data is sent.
DownloadReads_DropsLast(d) ==
    /\ load[d] = "read" /\ pos[d] < Length
    /\ pos' = [pos EXCEPT ![d] = @ + 1]
    /\ got' = IF link = "up" /\ pos[d] + 1 < Length
              THEN [got EXCEPT ![d] = @ \cup {pos[d] + 1}] ELSE got
    /\ UNCHANGED <<linkVars, uploadVars, load, begun, cut, complete>>

\* Mutant: a chunk is sent under the number of the chunk that follows it.
DownloadReads_Ahead(d) ==
    /\ load[d] = "read" /\ pos[d] < Length
    /\ pos' = [pos EXCEPT ![d] = @ + 1]
    /\ got' = IF link = "up" THEN [got EXCEPT ![d] = @ \cup {pos[d] + 2}] ELSE got
    /\ UNCHANGED <<linkVars, uploadVars, load, begun, cut, complete>>

\* A chunk is read and handed to sendMessage, which drops it without a link.
DownloadReads(d) ==
    /\ load[d] = "read" /\ pos[d] < Length
    /\ pos' = [pos EXCEPT ![d] = @ + 1]
    /\ got' = IF link = "up" THEN [got EXCEPT ![d] = @ \cup {pos[d] + 1}] ELSE got
    /\ UNCHANGED <<linkVars, uploadVars, load, begun, cut, complete>>

\* The read fails, with io.EOF or with any other error.
DownloadReadFails(d) ==
    /\ load[d] = "read"
    /\ load' = [load EXCEPT ![d] = "end"]
    /\ cut' = IF pos[d] < Length THEN cut \cup {d} ELSE cut
    /\ UNCHANGED <<linkVars, uploadVars, pos, got, begun, complete>>

\* Mutant: the END waits for the link to be back.
DownloadEnds_Waits(d) ==
    /\ load[d] = "end"
    /\ link = "up"
    /\ load' = [load EXCEPT ![d] = "gone"]
    /\ complete' = complete \cup {d}
    /\ UNCHANGED <<linkVars, uploadVars, pos, got, begun, cut>>

\* FILE_TRANSFER_END, status "done".
DownloadEnds(d) ==
    /\ load[d] = "end"
    /\ load' = [load EXCEPT ![d] = "gone"]
    /\ complete' = IF link = "up" THEN complete \cup {d} ELSE complete
    /\ UNCHANGED <<linkVars, uploadVars, pos, got, begun, cut>>

-----------------------------------------------------------------------------
(* The link *)

LinkBreaks ==
    /\ link = "up"
    /\ link' = "broken"
    /\ UNCHANGED <<conns, uploadVars, loadVars>>

\* Mutant: closeAll closes the files and leaves their ids in the table.
CloseAll_KeepsTable ==
    /\ link = "broken"
    /\ link' = "off"
    /\ handle' = [h \in Handles |->
                    IF h \in Tracked THEN [handle[h] EXCEPT !.state = "closed"] ELSE handle[h]]
    /\ UNCHANGED <<conns, uploads, opened, disk, sent, told, spoilt, loadVars>>

\* The Reader notices: connect returns and closeAll closes every upload.
CloseAll ==
    /\ link = "broken"
    /\ link' = "off"
    /\ handle' = [h \in Handles |->
                    IF h \in Tracked THEN [handle[h] EXCEPT !.state = "closed"] ELSE handle[h]]
    /\ uploads' = [s \in Sessions |-> 0]
    /\ UNCHANGED <<conns, opened, disk, sent, told, spoilt, loadVars>>

Reconnect ==
    /\ link = "off" /\ conns < MaxConns
    /\ link' = "up"
    /\ conns' = conns + 1
    /\ UNCHANGED <<uploadVars, loadVars>>

UploadStep(s) ==
    \/ \E f \in Names : UploadInit(s, f)
    \/ UploadInitFails(s) \/ UploadData(s) \/ DataLost(s) \/ UploadEnd(s)

DownloadStep(d) == OpenFails(d) \/ DownloadReads(d) \/ DownloadReadFails(d) \/ DownloadEnds(d)

Next ==
    \/ \E s \in Sessions : UploadStep(s)
    \/ \E d \in Downloads : DownloadStarts(d) \/ DownloadStep(d)
    \/ LinkBreaks \/ CloseAll \/ Reconnect

Spec == Init /\ [][Next]_vars

\* Downloads run, and the Reader notices a broken link.
Fairness == WF_vars(CloseAll) /\ \A d \in Downloads : WF_vars(DownloadStep(d))

FairSpec == Spec /\ Fairness

-----------------------------------------------------------------------------
(* Properties *)

\* An upload in the table has an open file that is no other upload's: no chunk
\* is ever written to a closed file or to that of another id.
UploadsAreOpen ==
    /\ \A s \in Sessions : uploads[s] # 0 => handle[uploads[s]].state = "open"
    /\ \A s, t \in Sessions : uploads[s] = uploads[t] /\ uploads[s] # 0 => s = t

\* The file an upload has ended with is, when the agent says "done", the chunks
\* of the backend in their order, although chunks sent around a reconnect are
\* lost without a word: unless a write failed, which nobody looks at, or another
\* upload wrote to a file of this name.
DoneMeansStored ==
    [][\A s \in Sessions :
         (told[s] # "done" /\ told'[s] = "done" /\ uploads[s] \notin spoilt) =>
            /\ uploads[s] # 0
            /\ \A i \in 1..sent[s] :
                 disk'[handle[uploads[s]].name][i] = [by |-> s, nr |-> i]]_vars

\* A download that is complete on the connection it was asked for on has
\* brought every chunk, unless its file could not be read to its end.
CompleteOnItsConnection ==
    \A d \in Downloads :
        (d \in complete /\ begun[d] = conns /\ d \notin cut) => got[d] = Places

\* A download ends, also when the link is lost under it.
DownloadsEnd == \A d \in Downloads : load[d] = "read" ~> load[d] = "gone"

\* A download that is "done" has brought every chunk of its file.
CompleteMeansWhole == \A d \in complete \ cut : got[d] = Places
=============================================================================
