----------------------------- MODULE StateBlob -----------------------------
(***************************************************************************)
(* Parameter values and the plug-in state blob (src/src/plugin/ids.h,      *)
(* state.cpp): normalisation, clamping, the writer and the validating      *)
(* reader. A value is an integer, normalised values are 0 to Top, and a    *)
(* plain value uses the same scale; NaN stands for every float that is not *)
(* finite. A blob is the sequence of the numbers it holds, in their order. *)
(***************************************************************************)
EXTENDS Integers, Sequences

CONSTANTS
  NParams,         \* kParamCount
  Top,             \* 1.0, normalised
  Def,             \* the default of every parameter of the table
  NaN,
  MaxStateValues   \* kMaxStateValues

ASSUME BlobAssumption ==
  /\ NParams \in Nat \ {0}
  /\ MaxStateValues \in Nat /\ MaxStateValues > NParams
  /\ Top \in Nat \ {0}
  /\ Def \in [0..NParams-1 -> 0..Top]
  /\ NaN \notin Int

Norm == 0..Top
HostBypass == NParams          \* kBypassId follows the table
Params == 0..HostBypass
StateVersion == 1

ClampNorm(v) == IF v = NaN \/ v < 0 THEN 0 ELSE IF v > Top THEN Top ELSE v

ToNorm(p, plain) == IF plain = NaN THEN Def[p] ELSE ClampNorm(plain)

\* NaN compares false and reads as enabled.
BypassFromEnabled(enabled) == IF enabled # NaN /\ 2 * enabled < Top THEN Top ELSE 0

DefaultState == [p \in Params |-> IF p = HostBypass THEN 0 ELSE Def[p]]

\* Mutant: the host bypass is written before the table.
WriteStateBypassFirst(v) ==
  <<StateVersion, NParams>> \o [i \in 1..NParams + 1 |-> v[(i + NParams - 1) % (NParams + 1)]]

WriteState(v) == <<StateVersion, NParams>> \o [i \in 1..NParams + 1 |-> v[i - 1]]

\* Everything readState asks for: a version it knows, a count it can hold, and that
\* many finite values and a finite bypass.
Readable(b) ==
  /\ Len(b) >= 2
  /\ b[1] \in 1..StateVersion
  /\ b[2] \in 0..MaxStateValues
  /\ Len(b) >= b[2] + 3
  /\ \A i \in 3..b[2] + 3 : b[i] # NaN

\* What a readable blob holds: values past the table are dropped, missing ones are the
\* defaults.
StateOf(b) ==
  [p \in Params |->
     IF p = HostBypass THEN ClampNorm(b[b[2] + 3])
     ELSE IF p < b[2] THEN ClampNorm(b[p + 3])
     ELSE Def[p]]

\* Mutant: the values are applied as they are read.
ReadStateInPlace(b, old) ==
  [p \in Params |-> IF p + 3 <= Len(b) THEN ClampNorm(b[p + 3]) ELSE old[p]]

\* readState into values that are old: a malformed blob applies nothing.
ReadState(b, old) == IF Readable(b) THEN StateOf(b) ELSE old
=============================================================================
