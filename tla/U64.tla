-------------------------------- MODULE U64 --------------------------------
(***************************************************************************)
(* Milliseconds as the engine keeps them: unsigned 64 bit numbers whose    *)
(* additions and subtractions saturate, and Option<u64> for the deadlines  *)
(* and stamps that may be absent.  MaxClock stands for u64::MAX, so the    *)
(* behaviour at the top of the range is part of every small model.         *)
(***************************************************************************)
EXTENDS Integers

CONSTANT MaxClock

ASSUME MaxClockAssumption == MaxClock \in Nat \ {0}

Millis == 0 .. MaxClock

\* Option::None for an Option<u64>.
None == -1

OptMillis == Millis \cup {None}

SatAdd(a, b) == IF a + b > MaxClock THEN MaxClock ELSE a + b

SatSub(a, b) == IF a < b THEN 0 ELSE a - b

AtLeastOne(n) == IF n = 0 THEN 1 ELSE n
=============================================================================
