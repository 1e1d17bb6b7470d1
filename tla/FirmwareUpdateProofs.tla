------------------------ MODULE FirmwareUpdateProofs ------------------------
(***************************************************************************)
(* Proofs about FirmwareUpdate, for any images, any number of commands and *)
(* of faults.                                                              *)
(*                                                                         *)
(* That only wanted images are installed follows the file through the      *)
(* handler: past the checksum it is the image of the command (Verified),   *)
(* which was asked for (Underway).  That there is a way back needs to know *)
(* which binary the handler meets: unless an update came too early it is   *)
(* the one that runs (Covered), which has run (RunsProven).  The backup is *)
(* missing for a while, but only as long as that binary is installed, and  *)
(* it is complete when the rename comes.  That a process whose binary has  *)
(* been replaced is on its way out is inductive as it stands               *)
(* (PendingStep).                                                          *)
(***************************************************************************)
EXTENDS FirmwareUpdate, TLAPS

Verifieds == {"drop", "copy", "fill", "rename"}

Underway == pc # "idle" => want \in asked

Verified == pc \in Verifieds => fetched = want

RunsProven == running \in proven \cup {"none"}

Covered ==
    ~spoilt => /\ pc # "idle" => installed = running
               /\ pc = "rename" => backup = installed

UpdateInv == TypeOK /\ Underway /\ Verified /\ RunsProven /\ Covered /\ AWayBack

-----------------------------------------------------------------------------
(* Types *)

LEMMA TypeInit == ASSUME Init PROVE TypeOK
<1>1. spoilt \in BOOLEAN
  BY Zenon DEF Init
<1>2. First \in Images /\ asked \subseteq Images /\ proven \subseteq Images
  BY UpdateAssumption DEF Init
<1> QED
  BY <1>1, <1>2, UpdateAssumption DEF Init, TypeOK, Files

LEMMA TypeStep ==
    ASSUME TypeOK, Verified, [Next]_vars
    PROVE  TypeOK'
<1>1. ASSUME NEW i \in Images, Update(i) PROVE TypeOK'
  BY <1>1, UpdateAssumption DEF Update, Handling, TypeOK, fileVars
<1>2. CASE RestartAgent
  BY <1>2, UpdateAssumption DEF RestartAgent, Handling, TypeOK, jobVars, fileVars, histVars
<1>3. CASE Fetch
  BY <1>3 DEF Fetch, TypeOK, Files, histVars
<1>4. CASE Save
  BY <1>4 DEF Save, TypeOK, Files, histVars
<1>5. CASE Check
  BY <1>5 DEF Check, TypeOK, Files, histVars
<1>6. CASE DropBackup
  BY <1>6 DEF DropBackup, TypeOK, Files, histVars
<1>7. CASE Copy
  <2>1. spoilt' \in BOOLEAN
    BY <1>7, Zenon DEF Copy, TypeOK
  <2> QED
    BY <1>7, <2>1, UpdateAssumption DEF Copy, TypeOK, Files
<1>8. CASE Fill
  <2>1. spoilt' \in BOOLEAN
    BY <1>8, Zenon DEF Fill, TypeOK
  <2> QED
    BY <1>8, <2>1, UpdateAssumption DEF Fill, TypeOK, Files
<1>9. CASE Rename
  BY <1>9 DEF Rename, TypeOK, Verified, Verifieds, Files, histVars
<1>10. CASE Exit
  BY <1>10 DEF Exit, Down, TypeOK, fileVars, histVars
<1>11. CASE Crash
  BY <1>11, UpdateAssumption DEF Crash, Down, TypeOK, fileVars, histVars
<1>12. CASE Start
  BY <1>12, UpdateAssumption DEF Start, TypeOK, jobVars, fileVars
<1>13. CASE UNCHANGED vars
  BY <1>13 DEF vars, TypeOK, jobVars, fileVars, histVars
<1> QED
  BY <1>1, <1>2, <1>3, <1>4, <1>5, <1>6, <1>7, <1>8, <1>9, <1>10, <1>11, <1>12, <1>13
  DEF Next, Install

-----------------------------------------------------------------------------
(* What is installed *)

LEMMA VerifiedStep ==
    ASSUME TypeOK, Underway, Verified, [Next]_vars
    PROVE  Underway' /\ Verified'
<1> USE DEF Underway, Verified, Verifieds
<1>1. ASSUME NEW i \in Images, Update(i) PROVE Underway' /\ Verified'
  BY <1>1 DEF Update, fileVars
<1>2. CASE RestartAgent \/ Start \/ UNCHANGED vars
  BY <1>2 DEF RestartAgent, Start, vars, jobVars, fileVars, histVars
<1>3. CASE Fetch \/ Save
  BY <1>3 DEF Fetch, Save, histVars
<1>4. CASE Check
  BY <1>4 DEF Check, histVars
<1>5. CASE DropBackup \/ Copy \/ Fill
  BY <1>5 DEF DropBackup, Copy, Fill, histVars
<1>6. CASE Rename
  BY <1>6 DEF Rename, histVars
<1>7. CASE Exit \/ Crash
  BY <1>7 DEF Exit, Crash, Down
<1> QED
  BY <1>1, <1>2, <1>3, <1>4, <1>5, <1>6, <1>7 DEF Next, Install

-----------------------------------------------------------------------------
(* What can be gone back to *)

\* The handler meets the binary that runs, and that binary has run.
LEMMA InstalledProven ==
    ASSUME TypeOK, RunsProven, Covered, ~spoilt, pc # "idle"
    PROVE  installed = running /\ installed \in proven
  BY UpdateAssumption DEF TypeOK, RunsProven, Covered

LEMMA CoveredStep ==
    ASSUME TypeOK, RunsProven, Covered, AWayBack, [Next]_vars
    PROVE  RunsProven' /\ Covered' /\ AWayBack'
<1> USE DEF RunsProven, Covered, AWayBack
<1>1. ASSUME NEW i \in Images, Update(i) PROVE RunsProven' /\ Covered' /\ AWayBack'
  BY <1>1 DEF Update, fileVars, TypeOK
<1>2. CASE RestartAgent \/ UNCHANGED vars
  BY <1>2 DEF RestartAgent, vars, jobVars, fileVars, histVars
<1>3. CASE Fetch \/ Save \/ Check
  BY <1>3 DEF Fetch, Save, Check, histVars
<1>4. CASE DropBackup
  BY <1>4, InstalledProven DEF DropBackup, histVars
<1>5. CASE Copy
  BY <1>5, InstalledProven DEF Copy
<1>6. CASE Fill
  BY <1>6, InstalledProven DEF Fill
<1>7. CASE Rename
  BY <1>7, InstalledProven DEF Rename, histVars
<1>8. CASE Exit \/ Crash
  BY <1>8 DEF Exit, Crash, Down, fileVars, histVars
<1>9. CASE Start
  BY <1>9 DEF Start, TypeOK, jobVars, fileVars
<1> QED
  BY <1>1, <1>2, <1>3, <1>4, <1>5, <1>6, <1>7, <1>8, <1>9 DEF Next, Install

-----------------------------------------------------------------------------
(* Theorems *)

LEMMA Invariance == Spec => []UpdateInv
<1>1. Init => UpdateInv
  BY TypeInit DEF Init, UpdateInv, Underway, Verified, Verifieds, RunsProven, Covered, AWayBack
<1>2. UpdateInv /\ [Next]_vars => UpdateInv'
  BY TypeStep, VerifiedStep, CoveredStep DEF UpdateInv
<1> QED
  BY <1>1, <1>2, PTL DEF Spec

\* The files and the places keep their types, and the binary is never missing
\* or cut, for any images and any number of commands and faults (TypeOK).
THEOREM UpdateTypes == Spec => []TypeOK
<1>1. UpdateInv => TypeOK
  BY DEF UpdateInv
<1> QED
  BY <1>1, Invariance, PTL

\* Wherever the process ends, the binary or its backup is an image that has run
\* (execFirmwareUpdate's order of backup and rename; AWayBack).
THEOREM AlwaysAWayBack == Spec => []AWayBack
<1>1. UpdateInv => AWayBack
  BY DEF UpdateInv
<1> QED
  BY <1>1, Invariance, PTL

\* A process that will go on runs the binary that is installed: one that runs
\* another image, and will answer status requests with its version, is on its
\* way out, whatever commands it still handles.
RestartIsPending == proc # "down" /\ installed # running => proc = "leaving"

LEMMA PendingStep ==
    ASSUME TypeOK, RestartIsPending, [Next]_vars
    PROVE  RestartIsPending'
<1> USE DEF RestartIsPending
<1>1. CASE (\E i \in Images : Update(i)) \/ RestartAgent \/ UNCHANGED vars
  BY <1>1 DEF Update, RestartAgent, vars, jobVars, fileVars, histVars
<1>2. CASE Fetch \/ Save \/ Check \/ DropBackup \/ Copy \/ Fill
  BY <1>2 DEF Fetch, Save, Check, DropBackup, Copy, Fill, histVars
<1>3. CASE Rename
  BY <1>3 DEF Rename, histVars
<1>4. CASE Exit \/ Crash
  BY <1>4 DEF Exit, Crash, Down
<1>5. CASE Start
  BY <1>5 DEF Start, fileVars
<1> QED
  BY <1>1, <1>2, <1>3, <1>4, <1>5 DEF Next, Install

\* No process goes on with an image that is not the installed one: the rename
\* and the signal that follows it are never apart (RestartIsPending).
THEOREM ReplacedMeansLeaving == Spec => []RestartIsPending
<1>1. Init => RestartIsPending
  BY DEF Init, RestartIsPending
<1>2. UpdateInv => TypeOK
  BY DEF UpdateInv
<1> QED
  BY <1>1, <1>2, PendingStep, Invariance, PTL DEF Spec

LEMMA InstallStep ==
    ASSUME TypeOK, Underway, Verified, [Next]_vars
    PROVE  [Promised!Next]_(Promised!vars)
<1> USE DEF Promised!vars
<1>1. ASSUME NEW i \in Images, Update(i) PROVE Promised!Next
  BY <1>1 DEF Update, fileVars, Promised!Next, Promised!Request
<1>2. CASE RestartAgent \/ UNCHANGED vars
  BY <1>2 DEF RestartAgent, vars, fileVars, histVars
<1>3. CASE Fetch \/ Save \/ Check \/ DropBackup \/ Copy \/ Fill
  BY <1>3 DEF Fetch, Save, Check, DropBackup, Copy, Fill, histVars
<1>4. CASE Rename
  <2>1. CASE UNCHANGED installed
    BY <1>4, <2>1 DEF Rename, histVars
  <2>2. CASE installed' = want
    BY <1>4, <2>2 DEF Rename, histVars, TypeOK, Underway, Promised!Next, Promised!Install
  <2> QED
    BY <1>4, <2>1, <2>2 DEF Rename, Verified, Verifieds
<1>5. CASE Exit \/ Crash
  BY <1>5 DEF Exit, Crash, Down, fileVars, histVars, Promised!Next, Promised!Stop
<1>6. CASE Start
  BY <1>6 DEF Start, TypeOK, fileVars, Promised!Next, Promised!Start
<1> QED
  BY <1>1, <1>2, <1>3, <1>4, <1>5, <1>6 DEF Next, Install

\* The handler implements Installation: the binary is replaced at one point, by
\* a whole image that was asked for, and what is installed is what is started.
THEOREM UpdateImplementsInstallation == Spec => ImplementsInstallation
<1>1. Init => Promised!Init
  BY DEF Init, Promised!Init
<1>2. UpdateInv /\ [Next]_vars => [Promised!Next]_(Promised!vars)
  BY InstallStep DEF UpdateInv
<1> QED
  BY <1>1, <1>2, Invariance, PTL DEF Spec, ImplementsInstallation, Promised!Spec
=============================================================================
