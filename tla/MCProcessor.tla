----------------------------- MODULE MCProcessor -----------------------------
(* Small instances of Processor: a ring of 2 against chunks of 2 in calls of  *)
(* 3 samples, which the host may follow with a call of none, mono or stereo   *)
(* on either side; fades whose steps do not divide the range.                 *)
EXTENDS Processor

MCCallSizes == {0, 3}
MCCounts == {1, 2}
MCSample == {0, 1}
=============================================================================
