---------------------------- MODULE Installation ----------------------------
(***************************************************************************)
(* What an OTA update promises (README "OTA Firmware Updates"): the binary *)
(* at the agent's path is only ever replaced as a whole, by an image that  *)
(* was asked for with its checksum, and the agent runs what is installed.  *)
(***************************************************************************)
CONSTANTS Images, First

VARIABLES asked, installed, running

vars == <<asked, installed, running>>

Init ==
    /\ asked = {}
    /\ installed = First
    /\ running = "none"

Request(i) ==
    /\ asked' = asked \cup {i}
    /\ UNCHANGED <<installed, running>>

Install(i) ==
    /\ i \in asked
    /\ installed' = i
    /\ UNCHANGED <<asked, running>>

Stop ==
    /\ running' = "none"
    /\ UNCHANGED <<asked, installed>>

Start ==
    /\ running = "none"
    /\ running' = installed
    /\ UNCHANGED <<asked, installed>>

Next == Stop \/ Start \/ \E i \in Images : Request(i) \/ Install(i)

Spec == Init /\ [][Next]_vars
=============================================================================
