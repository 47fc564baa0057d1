------------------------------- MODULE Clock -------------------------------
(***************************************************************************)
(* The injected clock.  The manual clock is moved forward by advance(),    *)
(* which saturates, and anywhere at all by set(); the system clock can     *)
(* also step back when the host's time is corrected.  The engine never     *)
(* moves it, so both actions belong to its environment.                    *)
(***************************************************************************)
EXTENDS U64

CONSTANTS
    Deltas,     \* the steps advance() is called with
    Jumps       \* the absolute values set() is called with

ASSUME ClockAssumption == Deltas \subseteq Nat /\ Jumps \subseteq Millis

VARIABLE now

ClockInit == now = 0

AdvanceClock == \E d \in Deltas : now' = SatAdd(now, d)

JumpClock == \E t \in Jumps : now' = t
=============================================================================
