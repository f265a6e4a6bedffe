----------------------------- MODULE BlockTime ------------------------------
(***************************************************************************)
(* block.timestamp.  The contracts only compare it with deadlines they     *)
(* stored earlier, so a unit of time is the resolution of the windows, and *)
(* several transactions may share a timestamp.                             *)
(***************************************************************************)
EXTENDS Naturals

CONSTANT MaxTime    \* bound of the model: the last timestamp considered

ASSUME MaxTimeAssumption == MaxTime \in Nat

VARIABLE now

Tick == now < MaxTime /\ now' = now + 1

=============================================================================
