---------------------------- MODULE MC_Heartbeat ----------------------------
(* Intervals around the u32 boundary of i * 100: 0 (disables), 10 (1 s),   *)
(* 700 (the low half carries), 42949672 (the largest with i * 100 < 2^32), *)
(* 42949673 (wraps to 4 ms) and 2^30 (wraps to 0, i.e. disabled).          *)
EXTENDS Heartbeat

U32(n) == <<n \div Half, n % Half>>

SafeIntervals == {U32(0), U32(10), U32(700), U32(42949672)}
AllIntervals == SafeIntervals \cup {U32(42949673), U32(1073741824)}
=============================================================================
