------------------------------ MODULE DelayLine ------------------------------
(***************************************************************************)
(* What the dry path of the processor promises, with no ring, no cursor    *)
(* and no chunks: on every channel the sample heard is the one that        *)
(* entered Latency samples earlier, or silence if none had entered since   *)
(* the line was cleared.                                                   *)
(***************************************************************************)
EXTENDS Integers

CONSTANTS Latency, Channels, Sample, Silence

VARIABLES
  line,   \* line[c][i]: what channel c will emit i samples from now
  input,  \* input[c]: the sample that entered channel c last
  tap     \* tap[c]: the dry sample channel c emitted last

vars == <<line, input, tap>>

None == [c \in Channels |-> Silence]
Empty == [c \in Channels |-> [i \in 0..Latency-1 |-> Silence]]

Init ==
  /\ line = Empty
  /\ input = None /\ tap = None

\* Preparing or activating the plug-in empties the line.
Clear == line' = Empty /\ input' = None /\ UNCHANGED tap

\* One sample period: x enters on every channel, the channels in `heard' emit.
Push(x, heard) ==
  /\ input' = x
  /\ line' = [c \in Channels |->
                [i \in 0..Latency-1 |->
                   IF i = Latency - 1 THEN x[c] ELSE line[c][i + 1]]]
  /\ tap' = [c \in Channels |-> IF c \in heard THEN line[c][0] ELSE tap[c]]

Next ==
  \/ Clear
  \/ \E x \in [Channels -> Sample], heard \in SUBSET Channels : Push(x, heard)

Spec == Init /\ [][Next]_vars
=============================================================================
