---------------------------- MODULE LossyChannel ----------------------------
(***************************************************************************)
(* What the agent's outbound terminal traffic promises to the backend:     *)
(* messages are numbered in the order in which they are issued, a number   *)
(* names one message, and that message arrives once or is lost for good.   *)
(* Nothing is promised about the order of arrival.                         *)
(***************************************************************************)
EXTENDS Naturals

CONSTANT MaxNumber      \* numbers issued at most, a natural number

VARIABLE status         \* of each number: unsent, flight, arrived or lost

Numbers == 1..MaxNumber

Init == status = [n \in Numbers |-> "unsent"]

\* The next number is given to a new message.
Issue(n) ==
    /\ status[n] = "unsent"
    /\ \A m \in Numbers : m < n => status[m] # "unsent"
    /\ status' = [status EXCEPT ![n] = "flight"]

Arrive(n) ==
    /\ status[n] = "flight"
    /\ status' = [status EXCEPT ![n] = "arrived"]

Lose(n) ==
    /\ status[n] = "flight"
    /\ status' = [status EXCEPT ![n] = "lost"]

Next == \E n \in Numbers : Issue(n) \/ Arrive(n) \/ Lose(n)

Spec == Init /\ [][Next]_status

-----------------------------------------------------------------------------
(* What the channel's user may rely on *)

KeepsFates ==
    \A n \in Numbers :
      /\ status[n] \in {"arrived", "lost"} => status'[n] = status[n]
      /\ status'[n] = "unsent" => status[n] = "unsent"

\* Whatever has become of a message is final: one that arrived does not arrive
\* again, one that was lost is not sent a second time (sendMessage has no retry)
\* and no number is issued twice.
FateIsFinal == [][KeepsFates]_status
=============================================================================
