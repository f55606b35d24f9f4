------------------------------ MODULE Processor ------------------------------
(***************************************************************************)
(* The VST3 audio processor (src/src/plugin/processor.cpp), sample by      *)
(* sample: the host's life-cycle calls, the block walked in prepared-size  *)
(* chunks, the two crossfades, the circuit that is skipped once the        *)
(* footswitch has faded out, and the dry delay ring that keeps the dry     *)
(* path aligned with the oversampled one.                                  *)
(*                                                                         *)
(* The audio thread runs between any two stores of the message thread, so  *)
(* mSwitch and mBypass (the atomics' value compared with 0.5) may change   *)
(* in the middle of a block; the code reads them once per chunk.           *)
(* A gain is an integer in 0..Full: Full stands for 1.0, and a step need   *)
(* not divide it, as 1/384 does not.                                       *)
(***************************************************************************)
EXTENDS Integers

CONSTANTS
  Latency,      \* latency() in samples, the length of the dry ring
  MaxBlock,     \* maxSamplesPerBlock
  CallSizes,    \* numSamples values the host may pass to process()
  Counts,       \* channel counts the host may pass
  Sample, Silence,
  Full,         \* the gain 1.0
  SwitchStep, BypassStep,
  Horizon       \* bound of the history counter `fed'

ASSUME ProcessorAssumption ==
  /\ Latency \in Nat \ {0}
  /\ MaxBlock \in Nat \ {0}
  /\ CallSizes \subseteq Nat
  /\ Counts \subseteq Nat
  /\ Silence \in Sample
  /\ Full \in Nat \ {0}
  /\ SwitchStep \in 1..Full
  /\ BypassStep \in 1..Full
  /\ Horizon \in Nat \ {0}

Channels == {0, 1}   \* kMaxChannels = 2

VARIABLES
  mSwitch, mBypass,   \* mNorm[kSwitchId] >= 0.5, mHostBypass >= 0.5
  prepared,           \* setupProcessing has run: mMaxBlock >= 1
  active,             \* between setActive(true) and setActive(false)
  pc,                 \* the audio thread: "out" of process, at a "chunk", in its "samples"
  left, n,            \* samples left after this chunk, and in this chunk
  usedIn, usedOut,    \* channels of the current call
  switchTarget, bypassTarget, engineIdle,   \* locals of processChunk
  mSwitchMix, mBypassMix,
  mDryDelay, mDryPos,
  tap,      \* the dry sample each channel emitted last
  input,    \* history: the dry sample each channel took last, Silence if none
  gain,     \* history: the wet gain of the last sample of this activation
  fed       \* history: samples the circuit has taken without a gap, up to Horizon

params  == <<mSwitch, mBypass>>
call    == <<pc, left, n, usedIn, usedOut>>
locals  == <<switchTarget, bypassTarget, engineIdle>>
fades   == <<mSwitchMix, mBypassMix>>
dryLine == <<mDryDelay, mDryPos, input>>
history == <<gain, fed>>
vars == <<params, prepared, active, call, locals, fades, dryLine, tap, history>>

Lesser(a, b)  == IF a < b THEN a ELSE b
Greater(a, b) == IF a > b THEN a ELSE b

\* Mutant: the step is not clamped at the target.
StepTowardUnclamped(v, target, step) ==
  IF v < target THEN v + step ELSE IF v > target THEN v - step ELSE v

StepToward(v, target, step) ==
  IF v < target THEN Lesser(target, v + step)
  ELSE IF v > target THEN Greater(target, v - step)
  ELSE v

Level(on) == IF on THEN Full ELSE 0

NoSample   == [c \in Channels |-> Silence]
SilentRing == [c \in Channels |-> [i \in 0..Latency-1 |-> Silence]]

Init ==
  /\ mSwitch = TRUE /\ mBypass = FALSE      \* defaultState()
  /\ prepared = FALSE /\ active = FALSE
  /\ pc = "out" /\ left = 0 /\ n = 0 /\ usedIn = 1 /\ usedOut = 1
  /\ switchTarget = 0 /\ bypassTarget = 0 /\ engineIdle = FALSE
  /\ mSwitchMix = Full /\ mBypassMix = Full
  \* The vectors are empty until setupProcessing; process() returns early until then.
  /\ mDryDelay = SilentRing /\ mDryPos = 0 /\ input = NoSample
  /\ tap = NoSample
  /\ gain = 0 /\ fed = 0

-----------------------------------------------------------------------------
(* Host calls outside the audio callback. *)

\* VST3 allows setupProcessing only on an inactive component.
SetupProcessing ==
  /\ ~active
  /\ prepared' = TRUE
  /\ mDryDelay' = SilentRing /\ mDryPos' = 0 /\ input' = NoSample
  /\ UNCHANGED <<params, active, call, locals, fades, tap, gain, fed>>

\* Mutant: activation leaves the bypass fade where the last session ended.
ActivateKeepingBypass ==
  /\ ~active
  /\ active' = TRUE
  /\ mSwitchMix' = Level(mSwitch)
  /\ mDryDelay' = SilentRing /\ mDryPos' = 0 /\ input' = NoSample
  /\ gain' = 0 /\ fed' = 0
  /\ UNCHANGED <<params, prepared, call, locals, mBypassMix, tap>>

\* setActive(true)
Activate ==
  /\ ~active
  /\ active' = TRUE
  /\ mBypassMix' = Full
  /\ mSwitchMix' = Level(mSwitch)
  /\ mDryDelay' = SilentRing /\ mDryPos' = 0 /\ input' = NoSample
  /\ gain' = 0 /\ fed' = 0
  /\ UNCHANGED <<params, prepared, call, locals, tap>>

\* setActive(false): nothing of the processor changes.
Deactivate ==
  /\ active /\ pc = "out"
  /\ active' = FALSE
  /\ UNCHANGED <<params, prepared, call, locals, fades, dryLine, tap, history>>

\* One of the atomic stores of setState, on the message thread.
SetState ==
  /\ \/ mSwitch' = ~mSwitch /\ UNCHANGED mBypass
     \/ mBypass' = ~mBypass /\ UNCHANGED mSwitch
  /\ UNCHANGED <<prepared, active, call, locals, fades, dryLine, tap, history>>

-----------------------------------------------------------------------------
(* The audio callback. *)

\* handleParameterChanges: the last point of each queue, before any early return.
HandleParameterChanges == mSwitch' \in BOOLEAN /\ mBypass' \in BOOLEAN

\* process() up to its chunk loop. A call with nothing to process, or before
\* setupProcessing, takes the parameters and returns.
Process ==
  /\ active /\ pc = "out"
  /\ HandleParameterChanges
  /\ \E numSamples \in CallSizes, inCh \in Counts, outCh \in Counts :
       IF numSamples > 0 /\ inCh >= 1 /\ outCh >= 1 /\ prepared
       THEN /\ pc' = "chunk"
            /\ left' = numSamples
            /\ usedIn' = Lesser(inCh, 2)
            /\ usedOut' = Lesser(outCh, 2)
            /\ UNCHANGED n
       ELSE UNCHANGED call
  /\ UNCHANGED <<prepared, active, locals, fades, dryLine, tap, history>>

\* Mutant: the circuit is skipped as soon as the footswitch is off.
SkipEngineEarly(target) == target = 0

\* Skip the circuit only once the footswitch has faded all the way out.
SkipEngine(target) == target = 0 /\ mSwitchMix = 0

\* processChunk up to its sample loop: the targets are read once.
BeginChunk ==
  /\ pc = "chunk"
  /\ n' = Lesser(left, MaxBlock)
  /\ left' = left - n'
  /\ switchTarget' = Level(mSwitch)
  /\ bypassTarget' = Level(mBypass)
  /\ engineIdle' = SkipEngine(Level(mSwitch))
  /\ pc' = "samples"
  /\ UNCHANGED <<params, prepared, active, usedIn, usedOut, fades, dryLine, tap, history>>

\* A mono input feeds both dry channels.
DryInput(in) == [c \in Channels |-> in[Lesser(c, usedIn - 1)]]

\* Mutant: the line of a channel with no output is not kept in step.
WrittenHeardOnly == {c \in Channels : c < usedOut}

\* The rings written this sample: those swapped out, and the unused second one.
Written == {c \in Channels : c < usedOut} \cup (IF usedOut < 2 THEN {1} ELSE {})

\* One turn of the sample loop. The circuit has taken the whole chunk before it, in
\* order, so its k-th result is the wet sample of turn k.
ProcessSample ==
  /\ pc = "samples"
  /\ \E in \in [Channels -> Sample] :
       /\ input' = DryInput(in)
       /\ mDryDelay' = [c \in Channels |->
            IF c \in Written THEN [mDryDelay[c] EXCEPT ![mDryPos] = DryInput(in)[c]]
                             ELSE mDryDelay[c]]
       /\ tap' = [c \in Channels |-> IF c < usedOut THEN mDryDelay[c][mDryPos] ELSE tap[c]]
  /\ mDryPos' = IF mDryPos + 1 = Latency THEN 0 ELSE mDryPos + 1
  /\ mSwitchMix' = StepToward(mSwitchMix, switchTarget, SwitchStep)
  /\ mBypassMix' = StepToward(mBypassMix, bypassTarget, BypassStep)
  /\ gain' = mSwitchMix' * (Full - mBypassMix')
  /\ fed' = IF engineIdle THEN 0 ELSE Lesser(fed + 1, Horizon)
  /\ n' = n - 1
  /\ pc' = IF n > 1 THEN "samples" ELSE IF left > 0 THEN "chunk" ELSE "out"
  /\ UNCHANGED <<params, prepared, active, left, usedIn, usedOut, locals>>

-----------------------------------------------------------------------------
Next ==
  \/ SetupProcessing \/ Activate \/ Deactivate \/ SetState
  \/ Process \/ BeginChunk \/ ProcessSample

Spec == Init /\ [][Next]_vars

\* An active plug-in whose host keeps calling process() with samples, and an audio
\* thread that finishes the calls it is in.
ProcessAudio == Process /\ pc' = "chunk"
Fairness ==
  /\ WF_vars(ProcessAudio)
  /\ WF_vars(BeginChunk)
  /\ WF_vars(ProcessSample)
FairSpec == Spec /\ Fairness

-----------------------------------------------------------------------------
\* The fields of Processor and the locals of its callback keep their types: a fade
\* never leaves 0.0 .. 1.0, the cursor never leaves the ring.
TypeOK ==
  /\ mSwitch \in BOOLEAN /\ mBypass \in BOOLEAN
  /\ prepared \in BOOLEAN /\ active \in BOOLEAN
  /\ pc \in {"out", "chunk", "samples"}
  /\ left \in Nat /\ n \in Nat
  /\ usedIn \in 1..2 /\ usedOut \in 1..2
  /\ switchTarget \in {0, Full} /\ bypassTarget \in {0, Full}
  /\ engineIdle \in BOOLEAN
  /\ mSwitchMix \in 0..Full /\ mBypassMix \in 0..Full
  /\ mDryDelay \in [Channels -> [0..Latency-1 -> Sample]]
  /\ mDryPos \in 0..Latency-1
  /\ input \in [Channels -> Sample]
  /\ tap \in [Channels -> Sample]
  /\ gain \in Int
  /\ fed \in 0..Horizon

\* The circuit is skipped while the footswitch is off, so when it runs again its
\* memory is of the sound before the gap; after an activation, of the last session.
\* That memory is never heard at once: while the circuit has taken fewer than Horizon
\* samples since, one of the two fades has opened by at most that many steps.
WetFadesIn ==
  active /\ fed < Horizon =>
    \/ mSwitchMix <= fed * SwitchStep
    \/ Full - mBypassMix <= fed * BypassStep

\* "Both ramp, neither steps" (processor.h): between consecutive samples of an
\* activation the wet gain moves by at most one step of each fade, whatever the
\* chunking and whenever the parameters are stored; an activation starts from none.
GainRamps ==
  [][ /\ gain' - gain <= Full * (SwitchStep + BypassStep)
      /\ (active /\ active') => gain - gain' <= Full * (SwitchStep + BypassStep) ]_vars

\* The ring at mDryPos read forwards is the abstract line.
Slot(i) == IF mDryPos + i < Latency THEN mDryPos + i ELSE mDryPos + i - Latency
Dry == INSTANCE DelayLine WITH
         line <- [c \in Channels |-> [i \in 0..Latency-1 |-> mDryDelay[c][Slot(i)]]]
\* The dry path is a delay of exactly Latency samples on both channels, through chunk
\* boundaries, changes of the channel counts and activations.
DryIsDelayed == Dry!Spec

\* Once the footswitch stays off the circuit is not run any more, sooner or later.
EngineGoesIdle == <>[](active /\ prepared /\ ~mSwitch) => <>[]engineIdle
=============================================================================
