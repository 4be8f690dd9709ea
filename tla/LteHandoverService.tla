------------------------- MODULE LteHandoverService -------------------------
(***************************************************************************)
(* What the handover of one UE promises to those who ask for it (the       *)
(* handover command of the RIC, LteEnbRrc::SendHandoverRequest): the UE is  *)
(* served by one cell; only a handover that was requested and that the     *)
(* target admitted moves it, and to that target; a refusal leaves it where *)
(* it is; what begins ends, in the other cell, in the old one or, after a  *)
(* failure, in the loss of the connection.                                 *)
(***************************************************************************)
EXTENDS Naturals

CONSTANT Cells  \* the cell ids

VARIABLES
    phase,      \* disconnected, connected, preparing or executing a handover
    cell,       \* the cell that serves the UE, 0 when disconnected
    target      \* the cell it is being handed over to, 0 when to none

vars == <<phase, cell, target>>

Init ==
    /\ target = 0
    /\ \/ phase = "disconnected" /\ cell = 0
       \/ phase = "connected" /\ cell \in Cells

Connect(c) ==
    /\ phase = "disconnected"
    /\ phase' = "connected" /\ cell' = c /\ target' = 0

Request(c) ==
    /\ phase = "connected" /\ c # cell
    /\ phase' = "preparing" /\ target' = c /\ UNCHANGED cell

Refuse ==
    /\ phase = "preparing"
    /\ phase' = "connected" /\ target' = 0 /\ UNCHANGED cell

Admit ==
    /\ phase = "preparing"
    /\ phase' = "executing" /\ UNCHANGED <<cell, target>>

Complete ==
    /\ phase = "executing"
    /\ phase' = "connected" /\ cell' = target /\ target' = 0

Lose ==
    /\ phase # "disconnected"
    /\ phase' = "disconnected" /\ cell' = 0 /\ target' = 0

Next ==
    \/ \E c \in Cells : Connect(c) \/ Request(c)
    \/ Refuse \/ Admit \/ Complete \/ Lose

Safety == Init /\ [][Next]_vars

\* A handover that was requested, or that is being executed, ends.
Liveness ==
    /\ WF_vars(Refuse \/ Admit \/ (phase = "preparing" /\ Lose))
    /\ WF_vars(Complete \/ (phase = "executing" /\ Lose))

Spec == Safety /\ Liveness

=============================================================================
