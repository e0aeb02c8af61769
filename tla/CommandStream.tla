---------------------------- MODULE CommandStream ----------------------------
(***************************************************************************)
(* What the host software relies on when it hands commands to the link     *)
(* with the micro-controller: the commands run one by one, in the order in *)
(* which they were handed over, none is lost or run twice, and whoever     *)
(* waits for a command is told only after it ran.                          *)
(***************************************************************************)
EXTENDS Naturals, Sequences

VARIABLES
    submitted,  \* number of commands handed to the link; they are 1..submitted
    executed,   \* the commands the micro-controller ran, in the order it did
    notified    \* the commands whose completion was reported to the caller

vars == <<submitted, executed, notified>>

Init ==
    /\ submitted = 0
    /\ executed = <<>>
    /\ notified = {}

Submit ==
    /\ submitted' = submitted + 1
    /\ UNCHANGED <<executed, notified>>

Execute ==
    /\ Len(executed) < submitted
    /\ executed' = Append(executed, Len(executed) + 1)
    /\ UNCHANGED <<submitted, notified>>

Notify ==
    /\ notified # notified'
    /\ notified \subseteq notified'
    /\ notified' \subseteq 1..Len(executed)
    /\ UNCHANGED <<submitted, executed>>

Next == Submit \/ Execute \/ Notify

\* What may happen.
Safe == Init /\ [][Next]_vars

\* What may happen, and that a command handed over does run in the end.
Spec == Safe /\ WF_vars(Execute)
==============================================================================
