-------------------------------- MODULE Clock --------------------------------
(* Discrete time: the clock that time.Now reads, which only its Tick moves. *)
EXTENDS Naturals

CONSTANT MaxTime    \* bound of the model

ASSUME MaxTimeAssumption == MaxTime \in Nat

VARIABLE now

ClockInit == now = 0
ClockTick == now < MaxTime /\ now' = now + 1
=============================================================================
