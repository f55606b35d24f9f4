--------------------------- MODULE ProcessorProofs ---------------------------
(***************************************************************************)
(* Theorems about Processor for every latency, block size, call size,      *)
(* channel count and fade step.                                            *)
(***************************************************************************)
EXTENDS Processor, TLAPS

\* The audio thread is where its locals say: a chunk is entered only with samples
\* left, the sample loop only with a sample to do, and only while active.
ControlOK ==
  /\ pc = "chunk" => left > 0
  /\ pc = "samples" => n > 0
  /\ pc # "out" => active

\* A chunk that skips the circuit began fully faded out and stays there.
IdleIsSilent == pc = "samples" /\ engineIdle => switchTarget = 0 /\ mSwitchMix = 0

IInv == TypeOK /\ ControlOK /\ IdleIsSilent /\ WetFadesIn

\* A fade stays within its range, and one step moves it by at most `step'.
LEMMA StepTowardBounds ==
  ASSUME NEW v \in 0..Full, NEW target \in {0, Full}, NEW step \in 1..Full
  PROVE  /\ StepToward(v, target, step) \in 0..Full
         /\ StepToward(v, target, step) <= v + step
         /\ StepToward(v, target, step) >= v - step
  BY ProcessorAssumption DEF StepToward, Lesser, Greater

\* The sample loop keeps the type of every variable it writes.
LEMMA SampleTypes ==
  ASSUME TypeOK, ControlOK, ProcessSample
  PROVE  TypeOK' /\ ControlOK'
<1> USE ProcessorAssumption
<1>1. mSwitchMix' \in 0..Full /\ mBypassMix' \in 0..Full
  BY StepTowardBounds DEF ProcessSample, TypeOK
<1>2. gain' \in Int
  BY <1>1 DEF ProcessSample
<1>3. mDryPos' \in 0..Latency-1
  BY DEF ProcessSample, TypeOK
<1>4. /\ mDryDelay' \in [Channels -> [0..Latency-1 -> Sample]]
      /\ input' \in [Channels -> Sample] /\ tap' \in [Channels -> Sample]
  <2>1. PICK in \in [Channels -> Sample] :
          /\ input' = DryInput(in)
          /\ mDryDelay' = [c \in Channels |->
               IF c \in Written THEN [mDryDelay[c] EXCEPT ![mDryPos] = DryInput(in)[c]]
                                ELSE mDryDelay[c]]
          /\ tap' = [c \in Channels |->
               IF c < usedOut THEN mDryDelay[c][mDryPos] ELSE tap[c]]
    BY DEF ProcessSample
  <2>2. DryInput(in) \in [Channels -> Sample]
    BY DEF DryInput, Channels, Lesser, TypeOK
  <2> QED
    BY <2>1, <2>2 DEF TypeOK
<1>5. fed' \in 0..Horizon
  BY DEF ProcessSample, TypeOK, Lesser
<1>6. n' \in Nat /\ pc' \in {"out", "chunk", "samples"} /\ ControlOK'
  BY DEF ProcessSample, TypeOK, ControlOK
<1>7. UNCHANGED <<mSwitch, mBypass, prepared, active, left, usedIn, usedOut,
                   switchTarget, bypassTarget, engineIdle>>
  BY DEF ProcessSample, params, locals
<1> QED
  BY <1>1, <1>2, <1>3, <1>4, <1>5, <1>6, <1>7 DEF TypeOK

\* Every other action keeps the types and the control invariant.
LEMMA OtherTypes ==
  ASSUME TypeOK, ControlOK,
         SetupProcessing \/ Activate \/ Deactivate \/ SetState \/ Process \/ BeginChunk
  PROVE  TypeOK' /\ ControlOK'
<1> USE ProcessorAssumption
<1>0. /\ SilentRing \in [Channels -> [0..Latency-1 -> Sample]] /\ 0 \in 0..Latency-1
      /\ NoSample \in [Channels -> Sample]
  BY DEF SilentRing, NoSample
<1>1. CASE SetupProcessing
  BY <1>0, <1>1 DEF SetupProcessing, TypeOK, ControlOK, params, call, locals, fades
<1>2. CASE Activate
  BY <1>0, <1>2 DEF Activate, TypeOK, ControlOK, params, call, locals, Level
<1>3. CASE Deactivate
  BY <1>3 DEF Deactivate, TypeOK, ControlOK, params, call, locals, fades, dryLine, history
<1>4. CASE SetState
  <2>1. mSwitch' \in BOOLEAN /\ mBypass' \in BOOLEAN
    BY <1>4 DEF SetState, TypeOK
  <2>2. UNCHANGED <<prepared, active, call, locals, fades, dryLine, tap, history>>
    BY <1>4 DEF SetState
  <2> QED
    BY <2>1, <2>2 DEF TypeOK, ControlOK, call, locals, fades, dryLine, history
<1>5. CASE Process
  <2>1. /\ mSwitch' \in BOOLEAN /\ mBypass' \in BOOLEAN
        /\ pc' \in {"out", "chunk", "samples"}
        /\ left' \in Nat /\ n' \in Nat
        /\ usedIn' \in 1..2 /\ usedOut' \in 1..2
        /\ pc' = "chunk" => left' > 0
        /\ pc' # "samples" /\ active'
    BY <1>5 DEF Process, HandleParameterChanges, TypeOK, call, Lesser
  <2> QED
    BY <2>1, <1>5 DEF Process, TypeOK, ControlOK, locals, fades, dryLine, history
<1>6. CASE BeginChunk
  <2>1. n' \in Nat /\ n' > 0 /\ left' \in Nat
    BY <1>6 DEF BeginChunk, TypeOK, ControlOK, Lesser
  <2>2. engineIdle' \in BOOLEAN
    BY <1>6 DEF BeginChunk, SkipEngine
  <2> QED
    BY <2>1, <2>2, <1>6
    DEF BeginChunk, TypeOK, ControlOK, params, fades, dryLine, history, Level
<1> QED
  BY <1>1, <1>2, <1>3, <1>4, <1>5, <1>6

\* A sample the circuit took earns one more step of either fade; one it did not take
\* leaves the footswitch fade at nothing.
LEMMA SampleFadesIn ==
  ASSUME IInv, ProcessSample
  PROVE  IdleIsSilent' /\ WetFadesIn'
<1> USE ProcessorAssumption
<1>1. /\ mSwitchMix' \in Int /\ mBypassMix' \in Int
      /\ mSwitchMix' <= mSwitchMix + SwitchStep
      /\ mBypassMix' >= mBypassMix - BypassStep
  <2>1. /\ mSwitchMix' = StepToward(mSwitchMix, switchTarget, SwitchStep)
        /\ mBypassMix' = StepToward(mBypassMix, bypassTarget, BypassStep)
    BY DEF ProcessSample
  <2>2. /\ mSwitchMix \in 0..Full /\ mBypassMix \in 0..Full
        /\ switchTarget \in {0, Full} /\ bypassTarget \in {0, Full}
        /\ SwitchStep \in 1..Full /\ BypassStep \in 1..Full
    BY DEF IInv, TypeOK
  <2>3. mSwitchMix' \in 0..Full /\ mSwitchMix' <= mSwitchMix + SwitchStep
    BY <2>1, <2>2, StepTowardBounds
  <2>4. mBypassMix' \in 0..Full /\ mBypassMix' >= mBypassMix - BypassStep
    BY <2>1, <2>2, StepTowardBounds
  <2> QED
    BY <2>3, <2>4
<1>2. CASE engineIdle
  <2>1. switchTarget = 0 /\ mSwitchMix = 0
    BY <1>2 DEF ProcessSample, IInv, IdleIsSilent
  <2>2. mSwitchMix' = 0 /\ fed' = 0
    BY <1>2, <2>1 DEF ProcessSample, StepToward
  <2> QED
    BY <2>1, <2>2 DEF ProcessSample, IdleIsSilent, WetFadesIn, locals
<1>3. CASE ~engineIdle
  <2>1. ~engineIdle'
    BY <1>3 DEF ProcessSample, locals
  <2>2. SUFFICES ASSUME fed' < Horizon
                 PROVE  \/ mSwitchMix' <= fed' * SwitchStep
                        \/ Full - mBypassMix' <= fed' * BypassStep
    BY <2>1, <2>2 DEF IdleIsSilent, WetFadesIn
  <2>3. fed' = fed + 1 /\ fed < Horizon /\ fed \in Nat
    BY <1>3, <2>2 DEF ProcessSample, IInv, TypeOK, Lesser
  <2>4. \/ mSwitchMix <= fed * SwitchStep
        \/ Full - mBypassMix <= fed * BypassStep
    BY <2>3 DEF IInv, WetFadesIn, ControlOK, ProcessSample
  <2>5. /\ fed' * SwitchStep = fed * SwitchStep + SwitchStep
        /\ fed' * BypassStep = fed * BypassStep + BypassStep
        /\ fed * SwitchStep \in Int /\ fed * BypassStep \in Int
    BY <2>3
  <2> QED
    BY <1>1, <2>4, <2>5 DEF IInv, TypeOK
<1> QED
  BY <1>2, <1>3

\* The other actions leave the fades alone, or start them again at silence.
LEMMA OtherFadesIn ==
  ASSUME IInv,
         SetupProcessing \/ Activate \/ Deactivate \/ SetState \/ Process \/ BeginChunk
  PROVE  IdleIsSilent' /\ WetFadesIn'
<1> USE ProcessorAssumption DEF IInv, IdleIsSilent, WetFadesIn, ControlOK
<1>1. CASE SetupProcessing
  BY <1>1 DEF SetupProcessing, call
<1>2. CASE Activate
  <2>1. mBypassMix' = Full /\ fed' = 0 /\ pc' = pc /\ pc = "out"
    BY <1>2 DEF Activate, call, TypeOK
  <2> QED
    BY <2>1
<1>3. CASE Deactivate
  BY <1>3 DEF Deactivate, call
<1>4. CASE SetState
  BY <1>4 DEF SetState, call, locals, fades, history
<1>5. CASE Process
  <2>1. pc' # "samples"
    BY <1>5 DEF Process, call
  <2> QED
    BY <2>1, <1>5 DEF Process, fades, history
<1>6. CASE BeginChunk
  BY <1>6 DEF BeginChunk, SkipEngine, Level, fades, history
<1> QED
  BY <1>1, <1>2, <1>3, <1>4, <1>5, <1>6

\* The inductive invariant holds of every reachable state.
LEMMA Inductive == Spec => []IInv
<1>1. Init => IInv
  <2> SUFFICES ASSUME Init PROVE IInv
    OBVIOUS
  <2> USE ProcessorAssumption DEF Init
  <2>1. /\ mDryDelay \in [Channels -> [0..Latency-1 -> Sample]]
        /\ input \in [Channels -> Sample] /\ tap \in [Channels -> Sample]
    BY DEF SilentRing, NoSample
  <2>2. TypeOK
    <3>1. /\ mSwitch \in BOOLEAN /\ mBypass \in BOOLEAN /\ prepared \in BOOLEAN
          /\ active \in BOOLEAN /\ engineIdle \in BOOLEAN
      OBVIOUS
    <3>2. /\ pc \in {"out", "chunk", "samples"}
          /\ left \in Nat /\ n \in Nat /\ usedIn \in 1..2 /\ usedOut \in 1..2
          /\ switchTarget \in {0, Full} /\ bypassTarget \in {0, Full}
          /\ mSwitchMix \in 0..Full /\ mBypassMix \in 0..Full
          /\ mDryPos \in 0..Latency-1 /\ gain \in Int /\ fed \in 0..Horizon
      OBVIOUS
    <3> QED
      BY <2>1, <3>1, <3>2 DEF TypeOK
  <2>3. ControlOK /\ IdleIsSilent /\ WetFadesIn
    BY DEF ControlOK, IdleIsSilent, WetFadesIn
  <2> QED
    BY <2>2, <2>3 DEF IInv
<1>2. IInv /\ [Next]_vars => IInv'
  <2> SUFFICES ASSUME IInv, [Next]_vars PROVE IInv'
    OBVIOUS
  <2>1. CASE ProcessSample
    BY <2>1, SampleTypes, SampleFadesIn DEF IInv
  <2>2. CASE SetupProcessing \/ Activate \/ Deactivate \/ SetState \/ Process \/ BeginChunk
    BY <2>2, OtherTypes, OtherFadesIn DEF IInv
  <2>3. CASE UNCHANGED vars
    BY <2>3 DEF IInv, TypeOK, ControlOK, IdleIsSilent, WetFadesIn,
                vars, params, call, locals, fades, dryLine, history
  <2> QED
    BY <2>1, <2>2, <2>3 DEF Next
<1> QED
  BY <1>1, <1>2, PTL DEF Spec

\* Every variable keeps its type; both fades stay within [0, 1] and the ring cursor
\* within the ring, for any latency, block size and fade step.
THEOREM TypeCorrect == Spec => []TypeOK
  BY Inductive, PTL DEF IInv

\* What the circuit remembers from before a gap is never heard at once.
THEOREM WetAlwaysFadesIn == Spec => []WetFadesIn
  BY Inductive, PTL DEF IInv

-----------------------------------------------------------------------------
(* The wet gain *)

\* The gain of the last sample is that of the fades, between blocks and activations too.
GainIsOfFades == gain = mSwitchMix * (Full - mBypassMix)

\* A product moves by no more than its factors let it.
LEMMA ProductMoves ==
  ASSUME NEW a \in 0..Full, NEW b \in 0..Full, NEW x \in 0..Full, NEW y \in 0..Full,
         NEW s \in Nat, NEW t \in Nat, x - a <= s, y - b <= t
  PROVE  x * y - a * b <= Full * (s + t)
<1> USE ProcessorAssumption
<1>1. x * (y - b) <= Full * t
  <2>1. x * (y - b) <= x * t
    OBVIOUS
  <2>2. x * t <= Full * t
    OBVIOUS
  <2> QED
    BY <2>1, <2>2
<1>2. (x - a) * b <= Full * s
  <2>1. (x - a) * b <= s * b
    OBVIOUS
  <2>2. s * b <= Full * s
    OBVIOUS
  <2> QED
    BY <2>1, <2>2
<1>3. /\ x * y - a * b = x * (y - b) + (x - a) * b
      /\ Full * (s + t) = Full * t + Full * s
  OBVIOUS
<1>4. x * (y - b) \in Int /\ (x - a) * b \in Int /\ Full * t \in Int /\ Full * s \in Int
  OBVIOUS
<1> QED
  BY <1>1, <1>2, <1>3, <1>4

\* A sample moves the gain by at most one step of each fade, up or down.
LEMMA SampleRamps ==
  ASSUME TypeOK, GainIsOfFades, ProcessSample
  PROVE  /\ GainIsOfFades'
         /\ gain' - gain <= Full * (SwitchStep + BypassStep)
         /\ gain - gain' <= Full * (SwitchStep + BypassStep)
<1> USE ProcessorAssumption
<1> DEFINE a == mSwitchMix  b == Full - mBypassMix
           x == mSwitchMix' y == Full - mBypassMix'
<1>1. /\ x = StepToward(mSwitchMix, switchTarget, SwitchStep)
      /\ mBypassMix' = StepToward(mBypassMix, bypassTarget, BypassStep)
      /\ gain' = x * y /\ gain = a * b
  BY DEF ProcessSample, GainIsOfFades
<1>0. /\ mSwitchMix \in 0..Full /\ mBypassMix \in 0..Full
      /\ switchTarget \in {0, Full} /\ bypassTarget \in {0, Full}
      /\ SwitchStep \in 1..Full /\ BypassStep \in 1..Full
  BY DEF TypeOK
<1>2. x \in 0..Full /\ x - a <= SwitchStep /\ a - x <= SwitchStep
  <2>1. /\ mSwitchMix' = StepToward(mSwitchMix, switchTarget, SwitchStep)
        /\ mSwitchMix' \in 0..Full
        /\ mSwitchMix' <= mSwitchMix + SwitchStep /\ mSwitchMix' >= mSwitchMix - SwitchStep
    BY <1>0, <1>1, StepTowardBounds
  <2>2. mSwitchMix \in Int /\ mSwitchMix' \in Int /\ SwitchStep \in Int
    BY <1>0, <2>1
  <2> QED
    BY <2>1, <2>2
<1>3. /\ a \in 0..Full /\ b \in 0..Full /\ y \in 0..Full
      /\ y - b <= BypassStep /\ b - y <= BypassStep
  <2>1. /\ mBypassMix' \in 0..Full
        /\ mBypassMix' <= mBypassMix + BypassStep /\ mBypassMix' >= mBypassMix - BypassStep
    BY <1>0, <1>1, StepTowardBounds
  <2>2. mBypassMix <= mBypassMix' + BypassStep
    <3>1. \A p, q \in 0..Full : q >= p - BypassStep => p <= q + BypassStep
      BY <1>0
    <3> QED
      BY <1>0, <2>1, <3>1
  <2>3. \A p, q \in 0..Full :
          /\ Full - p \in 0..Full
          /\ q <= p + BypassStep => (Full - p) - (Full - q) <= BypassStep
    BY <1>0
  <2>4. a \in 0..Full /\ b \in 0..Full /\ y \in 0..Full
    BY <1>0, <2>1, <2>3
  <2>5. y - b <= BypassStep
    BY <1>0, <2>2, <2>1, <2>3
  <2>6. b - y <= BypassStep
    BY <1>0, <2>1, <2>3
  <2> QED
    BY <2>4, <2>5, <2>6
<1> HIDE DEF a, b, x, y
<1>4. x * y - a * b <= Full * (SwitchStep + BypassStep)
  BY <1>0, <1>2, <1>3, ProductMoves
<1>5. a * b - x * y <= Full * (SwitchStep + BypassStep)
  BY <1>0, <1>2, <1>3, ProductMoves
<1> QED
  BY <1>1, <1>4, <1>5 DEF GainIsOfFades, x, y

\* No other step moves the gain but an activation, which starts from a full bypass.
LEMMA OtherRamps ==
  ASSUME TypeOK, GainIsOfFades,
         \/ SetupProcessing \/ Activate \/ Deactivate \/ SetState
         \/ Process \/ BeginChunk \/ UNCHANGED vars
  PROVE  /\ GainIsOfFades'
         /\ gain' <= gain /\ (active /\ active' => gain' = gain)
<1> USE ProcessorAssumption
<1>1. CASE Activate
  <2>1. gain' = 0 /\ ~active /\ mSwitchMix' \in 0..Full /\ mBypassMix' = Full
    BY <1>1 DEF Activate, Level
  <2>2. gain >= 0
    BY DEF TypeOK, GainIsOfFades
  <2>3. GainIsOfFades'
    <3>1. Full - mBypassMix' = 0
      BY <2>1
    <3>2. mSwitchMix' \in Int /\ \A i \in Int : i * 0 = 0
      BY <2>1
    <3>3. mSwitchMix' * (Full - mBypassMix') = 0
      BY <3>1, <3>2, Zenon
    <3> QED
      BY <2>1, <3>3 DEF GainIsOfFades
  <2> QED
    BY <2>1, <2>2, <2>3
<1>2. CASE UNCHANGED <<fades, gain>>
  BY <1>2 DEF fades, GainIsOfFades, TypeOK
<1> QED
  BY <1>1, <1>2 DEF SetupProcessing, Deactivate, SetState, Process, BeginChunk, vars, history

\* The wet gain ramps whatever the chunks, and whenever the parameters are stored: two
\* fades that each move by a step make no jump together (processor.h 9-13).
THEOREM GainNeverJumps == Spec => GainRamps
<1>1. Init => GainIsOfFades
  BY ProcessorAssumption DEF Init, GainIsOfFades
<1>2. TypeOK /\ GainIsOfFades /\ [Next]_vars => GainIsOfFades'
  BY SampleRamps, OtherRamps DEF Next
<1>3. ASSUME TypeOK, GainIsOfFades, [Next]_vars
      PROVE  /\ gain' - gain <= Full * (SwitchStep + BypassStep)
             /\ (active /\ active') => gain - gain' <= Full * (SwitchStep + BypassStep)
  <2>1. CASE ProcessSample
    BY <1>3, <2>1, SampleRamps
  <2>2. CASE ~ProcessSample
    <3>1. gain' <= gain /\ (active /\ active' => gain' = gain) /\ GainIsOfFades'
      BY <1>3, <2>2, OtherRamps DEF Next
    <3>2. gain \in Int /\ gain' \in Int /\ Full * (SwitchStep + BypassStep) >= 0
          /\ Full * (SwitchStep + BypassStep) \in Int
      BY <1>3, <3>1, ProcessorAssumption DEF TypeOK, GainIsOfFades
    <3> QED
      BY <3>1, <3>2
  <2> QED
    BY <2>1, <2>2
<1> QED
  BY <1>1, <1>2, <1>3, TypeCorrect, PTL DEF Spec, GainRamps

-----------------------------------------------------------------------------
(* The ring implements the abstract delay line. *)

\* Every ring index the mapping reads is a slot of the ring, the oldest is the cursor's,
\* and moving the cursor shifts the reading by one: the slot just left is read last.
LEMMA CursorShift ==
  ASSUME mDryPos \in 0..Latency-1,
         mDryPos' = IF mDryPos + 1 = Latency THEN 0 ELSE mDryPos + 1
  PROVE  /\ Slot(0) = mDryPos
         /\ \A i \in 0..Latency-1 : Slot(i) \in 0..Latency-1
         /\ Slot(Latency - 1)' = mDryPos
         /\ \A i \in 0..Latency-2 : Slot(i)' = Slot(i + 1) /\ Slot(i)' # mDryPos
  BY ProcessorAssumption DEF Slot

\* Both rings take a sample in every turn, whichever channels are heard.
LEMMA BothWritten == TypeOK => Written = Channels
  BY DEF TypeOK, Written, Channels

\* One turn of the sample loop is one step of the abstract line.
LEMMA SamplePushes ==
  ASSUME TypeOK, ProcessSample
  PROVE  \E x \in [Channels -> Sample], heard \in SUBSET Channels : Dry!Push(x, heard)
<1> USE ProcessorAssumption
<1> DEFINE Line == [c \in Channels |-> [i \in 0..Latency-1 |-> mDryDelay[c][Slot(i)]]]
           heard == {c \in Channels : c < usedOut}
<1>1. PICK in \in [Channels -> Sample] :
        /\ input' = DryInput(in)
        /\ mDryDelay' = [c \in Channels |->
             IF c \in Written THEN [mDryDelay[c] EXCEPT ![mDryPos] = DryInput(in)[c]]
                              ELSE mDryDelay[c]]
        /\ tap' = [c \in Channels |-> IF c < usedOut THEN mDryDelay[c][mDryPos] ELSE tap[c]]
  BY DEF ProcessSample
<1> DEFINE x == DryInput(in)
<1>2. x \in [Channels -> Sample]
  BY DEF DryInput, Channels, Lesser, TypeOK
<1>3. /\ Slot(0) = mDryPos
      /\ \A i \in 0..Latency-1 : Slot(i) \in 0..Latency-1
      /\ Slot(Latency - 1)' = mDryPos
      /\ \A i \in 0..Latency-2 : Slot(i)' = Slot(i + 1) /\ Slot(i)' # mDryPos
  BY CursorShift DEF ProcessSample, TypeOK
<1>4. ASSUME NEW c \in Channels
      PROVE  mDryDelay'[c] = [mDryDelay[c] EXCEPT ![mDryPos] = x[c]]
  BY <1>1, BothWritten
<1>5. ASSUME NEW c \in Channels, NEW i \in 0..Latency-1
      PROVE  mDryDelay'[c][Slot(i)'] =
               IF i = Latency - 1 THEN x[c] ELSE Line[c][i + 1]
  <2>1. mDryDelay[c] \in [0..Latency-1 -> Sample] /\ mDryPos \in 0..Latency-1
    BY DEF TypeOK
  <2>2. CASE i = Latency - 1
    BY <1>3, <1>4, <2>1, <2>2
  <2>3. CASE i # Latency - 1
    <3>1. i \in 0..Latency-2 /\ i + 1 \in 0..Latency-1
      BY <2>3
    <3>2. Slot(i)' = Slot(i + 1) /\ Slot(i)' # mDryPos /\ Slot(i + 1) \in 0..Latency-1
      BY <1>3, <3>1
    <3>3. Line[c][i + 1] = mDryDelay[c][Slot(i + 1)]
      BY <3>1
    <3> HIDE DEF Line
    <3> QED
      BY <1>4, <2>1, <2>3, <3>2, <3>3
  <2> QED
    BY <2>2, <2>3
<1>6. Line' = [c \in Channels |->
                 [i \in 0..Latency-1 |-> IF i = Latency - 1 THEN x[c] ELSE Line[c][i + 1]]]
  BY <1>5
<1>7. \A c \in Channels : mDryDelay[c][mDryPos] = Line[c][0]
  BY <1>3
<1>8. tap' = [c \in Channels |-> IF c \in heard THEN Line[c][0] ELSE tap[c]]
  <2> HIDE DEF Line
  <2> QED
    BY <1>1, <1>7
<1>9. Dry!Push(x, heard)
  BY <1>1, <1>6, <1>8 DEF Dry!Push
<1>10. heard \in SUBSET Channels
  OBVIOUS
<1> HIDE DEF x, heard
<1> QED
  BY <1>2, <1>9, <1>10 DEF Dry!Push

\* Preparing and activating the plug-in empty the abstract line.
LEMMA ClearsLine ==
  ASSUME SetupProcessing \/ Activate
  PROVE  Dry!Clear
<1>1. mDryDelay' = SilentRing /\ mDryPos' = 0 /\ input' = NoSample /\ tap' = tap
  BY DEF SetupProcessing, Activate
<1>2. \A i \in 0..Latency-1 : Slot(i)' = i
  BY <1>1, ProcessorAssumption DEF Slot
<1> QED
  BY <1>1, <1>2 DEF Dry!Clear, Dry!Empty, Dry!None, SilentRing, NoSample

\* The processor's dry path is the abstract delay line, for every latency, chunk size,
\* call size and sequence of channel counts.
THEOREM DryPathIsDelayed == Spec => DryIsDelayed
<1>1. Init => Dry!Init
  <2> SUFFICES ASSUME Init PROVE Dry!Init
    OBVIOUS
  <2>1. \A i \in 0..Latency-1 : Slot(i) = i
    BY ProcessorAssumption DEF Init, Slot
  <2> QED
    BY <2>1 DEF Init, Dry!Init, Dry!Empty, Dry!None, SilentRing, NoSample
<1>2. TypeOK /\ [Next]_vars => [Dry!Next]_(Dry!vars)
  <2> SUFFICES ASSUME TypeOK, [Next]_vars PROVE [Dry!Next]_(Dry!vars)
    OBVIOUS
  <2>1. CASE ProcessSample
    BY <2>1, SamplePushes DEF Dry!Next
  <2>2. CASE SetupProcessing \/ Activate
    BY <2>2, ClearsLine DEF Dry!Next
  <2>3. CASE Deactivate \/ SetState \/ Process \/ BeginChunk \/ UNCHANGED vars
    <3>1. UNCHANGED <<mDryDelay, mDryPos, input, tap>>
      BY <2>3 DEF Deactivate, SetState, Process, BeginChunk, vars, dryLine
    <3>2. UNCHANGED Dry!vars
      BY <3>1 DEF Dry!vars, Slot
    <3> QED
      BY <3>2
  <2> QED
    BY <2>1, <2>2, <2>3 DEF Next
<1> QED
  BY <1>1, <1>2, TypeCorrect, PTL DEF Spec, DryIsDelayed, Dry!Spec
=============================================================================
