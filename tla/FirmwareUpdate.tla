--------------------------- MODULE FirmwareUpdate ---------------------------
(***************************************************************************)
(* The update_firmware command (commands.go, firmware.go) over the ends    *)
(* and starts of the process: an image is downloaded beside the agent's    *)
(* binary, compared with its checksum, the binary is copied to the backup, *)
(* the image is renamed over it, and a SIGTERM makes systemd start it.     *)
(*                                                                         *)
(* Commands are handled one at a time (paho's ordered delivery), by a      *)
(* process that may be about to end, and the process can end at any step   *)
(* of the handler.  A file is an image, "none", or "cut": empty or a part  *)
(* of an image.  Its checksum is the wanted one if it is the wanted image. *)
(* Abstracted: the other commands, the text of the answers, and a payload  *)
(* that is refused before anything is touched.  External: the server,      *)
(* which may send anything, and systemd.  A power loss that undoes writes  *)
(* of the file system is not modelled.                                     *)
(***************************************************************************)
EXTENDS Naturals

CONSTANTS
    Images,         \* builds of the agent
    First,          \* the one setup.sh installed
    Works,          \* those that start and connect
    MaxCommands,    \* bound: commands
    MaxFaults       \* bound: crashes and failed backups

ASSUME UpdateAssumption ==
    /\ Works \subseteq Images /\ First \in Works
    /\ {"none", "cut"} \cap Images = {}
    /\ MaxCommands \in Nat /\ MaxFaults \in Nat

VARIABLES
    proc,                        \* the process
    running,                     \* the image it runs
    pc, want,                    \* the handler, and the image of its checksum
    fetched, backup, installed,  \* the downloaded file, the backup, the binary
    commands, faults,
    asked,                       \* history: images that were asked for
    proven,                      \* history: images that have run
    spoilt                       \* history: a backup was not made, or not of
                                 \* an image that has run

jobVars  == <<pc, want>>
fileVars == <<fetched, backup, installed>>
histVars == <<asked, proven, spoilt>>
vars == <<proc, running, jobVars, fileVars, commands, faults, histVars>>

Files == Images \cup {"none", "cut"}

\* The files and the places have the types the code gives them: a process that
\* is down runs no image and no handler, and the binary is always a whole one.
TypeOK ==
    /\ proc \in {"up", "leaving", "down"}
    /\ running \in Images \cup {"none"}
    /\ proc = "down" => running = "none" /\ pc = "idle"
    /\ pc \in {"idle", "fetch", "save", "check", "drop", "copy", "fill", "rename"}
    /\ want \in Images
    /\ fetched \in Files /\ backup \in Files
    /\ installed \in Images
    /\ commands \in 0..MaxCommands /\ faults \in 0..MaxFaults
    /\ asked \subseteq Images /\ proven \subseteq Images
    /\ spoilt \in BOOLEAN

\* setup.sh has installed the first image, with nothing to go back to.
Init ==
    /\ proc = "down" /\ running = "none"
    /\ pc = "idle" /\ want = First
    /\ fetched = "none" /\ backup = "none" /\ installed = First
    /\ commands = 0 /\ faults = 0
    /\ asked = {} /\ proven = {First}
    /\ spoilt = FALSE

-----------------------------------------------------------------------------
(* Commands *)

Handling == proc # "down" /\ pc = "idle" /\ commands < MaxCommands

\* update_firmware, with a URL and the checksum of i.  The previous update may
\* still be waiting for its restart: the backup will be of an image that never
\* ran.
Update(i) ==
    /\ Handling
    /\ commands' = commands + 1
    /\ pc' = "fetch"
    /\ want' = i
    /\ asked' = asked \cup {i}
    /\ spoilt' = (spoilt \/ installed # running)
    /\ UNCHANGED <<proc, running, fileVars, faults, proven>>

\* restart_agent and reboot: the process ends in a second or two.
RestartAgent ==
    /\ Handling
    /\ commands' = commands + 1
    /\ proc' = "leaving"
    /\ UNCHANGED <<running, jobVars, fileVars, faults, histVars>>

-----------------------------------------------------------------------------
(* downloadFile *)

\* The request fails, or the file is created, empty.
Fetch ==
    /\ pc = "fetch"
    /\ \/ pc' = "idle" /\ UNCHANGED fetched
       \/ pc' = "save" /\ fetched' = "cut"
    /\ UNCHANGED <<proc, running, want, backup, installed, commands, faults, histVars>>

\* What the server sends is saved, up to the size limit or to an error.
Save ==
    /\ pc = "save"
    /\ \/ pc' = "check" /\ fetched' \in Images \cup {"cut"}
       \/ pc' = "idle" /\ UNCHANGED fetched
    /\ UNCHANGED <<proc, running, want, backup, installed, commands, faults, histVars>>

-----------------------------------------------------------------------------
(* execFirmwareUpdate *)

\* Mutant: a mismatch is answered, but the handler goes on without the file.
Check_GoesOn ==
    /\ pc = "check"
    /\ pc' = "drop"
    /\ fetched' = IF fetched # want THEN "none" ELSE fetched
    /\ UNCHANGED <<proc, running, want, backup, installed, commands, faults, histVars>>

\* Mutant: any complete download is taken.
Check_AnyImage ==
    /\ pc = "check"
    /\ IF fetched = "cut" THEN fetched' = "none" /\ pc' = "idle"
                          ELSE pc' = "drop" /\ UNCHANGED fetched
    /\ UNCHANGED <<proc, running, want, backup, installed, commands, faults, histVars>>

\* The checksum; then the image is made executable, which may fail.
Check ==
    /\ pc = "check"
    /\ IF fetched # want
       THEN fetched' = "none" /\ pc' = "idle"
       ELSE pc' \in {"drop", "idle"} /\ UNCHANGED fetched
    /\ UNCHANGED <<proc, running, want, backup, installed, commands, faults, histVars>>

\* The old backup goes; an error is ignored.
DropBackup ==
    /\ pc = "drop"
    /\ pc' = "copy"
    /\ backup' \in {"none", backup}
    /\ UNCHANGED <<proc, running, want, fetched, installed, commands, faults, histVars>>

\* The binary is read and the backup created; when either fails, the update
\* goes on without a backup.
Copy ==
    /\ pc = "copy"
    /\ \/ /\ pc' = "fill"
          /\ backup' = "cut"
          /\ UNCHANGED <<faults, spoilt>>
       \/ /\ faults < MaxFaults
          /\ faults' = faults + 1
          /\ pc' = "rename"
          /\ spoilt' = TRUE
          /\ UNCHANGED backup
    /\ UNCHANGED <<proc, running, want, fetched, installed, commands, asked, proven>>

\* Mutant: the file that was just downloaded is backed up.
Fill_Fetched ==
    /\ pc = "fill"
    /\ pc' = "rename"
    /\ backup' = fetched
    /\ UNCHANGED <<proc, running, want, fetched, installed, commands, faults, histVars>>

\* The backup is written, or the disk is full, which is ignored as well.
Fill ==
    /\ pc = "fill"
    /\ pc' = "rename"
    /\ \/ backup' = installed /\ UNCHANGED <<faults, spoilt>>
       \/ /\ faults < MaxFaults
          /\ faults' = faults + 1
          /\ spoilt' = TRUE
          /\ UNCHANGED backup
    /\ UNCHANGED <<proc, running, want, fetched, installed, commands, asked, proven>>

\* Mutant: the new image is left to be started by whoever restarts the agent.
Rename_NoSignal ==
    /\ pc = "rename"
    /\ pc' = "idle"
    /\ installed' = fetched
    /\ fetched' = "none"
    /\ UNCHANGED <<proc, running, want, backup, commands, faults, histVars>>

\* The image replaces the binary, and a goroutine will send the SIGTERM; or the
\* rename fails.
Rename ==
    /\ pc = "rename"
    /\ pc' = "idle"
    /\ \/ /\ installed' = fetched
          /\ fetched' = "none"
          /\ proc' = "leaving"
       \/ UNCHANGED <<installed, fetched, proc>>
    /\ UNCHANGED <<running, want, backup, commands, faults, histVars>>

-----------------------------------------------------------------------------
(* The process *)

Down ==
    /\ proc' = "down"
    /\ running' = "none"
    /\ pc' = "idle"
    /\ UNCHANGED <<want, fileVars, commands, histVars>>

\* main's shutdown, or os.Exit, ends the process wherever its handler is.
Exit == proc = "leaving" /\ Down /\ UNCHANGED faults

\* A crash, or the watchdog's restart.
Crash ==
    /\ proc # "down"
    /\ faults < MaxFaults
    /\ faults' = faults + 1
    /\ Down

\* systemd starts the binary that is installed, if that can run.
Start ==
    /\ proc = "down"
    /\ installed \in Works
    /\ proc' = "up"
    /\ running' = installed
    /\ proven' = proven \cup {installed}
    /\ UNCHANGED <<jobVars, fileVars, commands, faults, asked, spoilt>>

Install == Check \/ DropBackup \/ Copy \/ Fill \/ Rename

Next ==
    \/ \E i \in Images : Update(i)
    \/ RestartAgent
    \/ Fetch \/ Save \/ Install
    \/ Exit \/ Crash \/ Start

Spec == Init /\ [][Next]_vars

\* The handler runs; the download has no timeout and may take for ever.  main's
\* shutdown ends unless paho's Disconnect waits for a handler.  systemd restarts
\* the agent (Restart=always).
Fairness ==
    /\ WF_vars(Install)
    /\ WF_vars(pc = "idle" /\ Exit)
    /\ WF_vars(Start)

FairSpec == Spec /\ Fairness

-----------------------------------------------------------------------------
(* Properties *)

\* Wherever the process ends, the binary or its backup is an image that has run
\* on this gateway, so an image that cannot run can be undone by hand.  The
\* exceptions are backups that failed, and an update before the restart of the
\* one before it.
AWayBack == ~spoilt => installed \in proven \/ backup \in proven

\* Only whole images that were asked for are installed, and the agent runs what
\* is installed.
Promised == INSTANCE Installation
ImplementsInstallation == Promised!Spec

\* A new image gets to run, unless it cannot, or another download is under way
\* in the process that ought to end.
RestartsIntoIt ==
    (installed # running) ~> (installed = running \/ installed \notin Works \/ pc \in {"fetch", "save"})

\* "Rollback on failure": an image that does not run is replaced again.
RollsBack == (installed \notin Works) ~> (installed \in Works)
=============================================================================
