------------------------------- MODULE Engine -------------------------------
(***************************************************************************)
(* The DSP engine around the circuit (src/src/dsp/BigMuffPi.cpp): the pots *)
(* smoothed at the oversampled rate, the circuit's matrices re-derived     *)
(* from them every kKnobInterval samples, and the noise gate in front.     *)
(*                                                                         *)
(* One pot stands for the three, which run the same code side by side, and *)
(* a position is an integer: a ramp moves by some amount that never passes *)
(* its target and lands on it with its last step. The gate's gain is a     *)
(* level: 0 is silence, 1 what is left under kMuteSnap, Full is 1.0; its   *)
(* envelope is where the RMS detector stands against the two thresholds.   *)
(***************************************************************************)
EXTENDS Integers

CONSTANTS
  Top,         \* the pots run from 0 to Top
  Default,     \* their constructor's position
  RampSteps,   \* samples of a ramp: kSmoothSeconds at the oversampled rate
  Interval,    \* kKnobInterval
  Factor,      \* Oversampler4x::kFactor
  CallSizes,   \* numbers of samples process() is given
  Full, HoldN  \* the open gate; holdN_

ASSUME EngineAssumption ==
  /\ Top \in Nat /\ Default \in 0..Top
  /\ RampSteps \in Nat \ {0}
  /\ Interval \in Nat \ {0}
  /\ Factor \in Nat \ {0}
  /\ CallSizes \subseteq Nat \ {0}
  /\ Full \in Nat /\ Full > 2
  /\ HoldN \in Nat

Pot == 0..Top

VARIABLES
  prepared,                     \* circuit # nullptr
  current, target, countdown, stepsToTarget,   \* the LinearSmoother of the pot
  knobCountdown,
  circuitKnobs,                 \* the knobs the circuit was last given
  dcKnobs, atRest,              \* the knobs of its DC solve; nothing has run since
  gateAmount, enabled,          \* as set, and as in force since the last call
  env, gain, holdCtr,
  pc, gateLeft, circuitLeft,    \* process: the "gate" loop, then the "circuit" loop
  recent,                       \* history: recent[i] is the pot i samples ago
  since                         \* history: samples since the gate was triggered, to HoldN

smoother == <<current, target, countdown, stepsToTarget>>
circuit  == <<knobCountdown, circuitKnobs, dcKnobs, atRest>>
gate     == <<enabled, env, gain, holdCtr, since>>
call     == <<pc, gateLeft, circuitLeft>>
vars == <<prepared, smoother, circuit, gateAmount, gate, call, recent>>

AllRecent(v) == [i \in 0..Interval-1 |-> v]

Init ==
  /\ prepared = FALSE
  /\ current = Default /\ target = Default /\ countdown = 0 /\ stepsToTarget = 0
  /\ knobCountdown = 0 /\ circuitKnobs = Default /\ dcKnobs = Default /\ atRest = TRUE
  /\ gateAmount = TRUE /\ enabled = FALSE
  /\ env = "quiet" /\ gain = Full /\ holdCtr = 0 /\ since = HoldN
  /\ pc = "out" /\ gateLeft = 0 /\ circuitLeft = 0
  /\ recent = AllRecent(Default)

-----------------------------------------------------------------------------
\* NoiseGate::reset
ResetGate ==
  env' = "quiet" /\ gain' = Full /\ holdCtr' = 0 /\ since' = HoldN /\ UNCHANGED enabled

\* The pot snaps to its target and the circuit is settled at it.
Rest ==
  /\ current' = target /\ countdown' = 0 /\ UNCHANGED target
  /\ circuitKnobs' = target /\ dcKnobs' = target /\ atRest' = TRUE
  /\ knobCountdown' = 0
  /\ recent' = AllRecent(target)
  /\ ResetGate

Prepare ==
  /\ pc = "out"
  /\ prepared' = TRUE /\ stepsToTarget' = RampSteps
  /\ Rest
  /\ UNCHANGED <<gateAmount, call>>

\* Mutant: the circuit is settled at the target while the pot still ramps to it.
ResetKeepingRamp ==
  /\ pc = "out" /\ prepared
  /\ circuitKnobs' = target /\ dcKnobs' = target /\ atRest' = TRUE /\ knobCountdown' = 0
  /\ ResetGate
  /\ UNCHANGED <<smoother, recent, prepared, gateAmount, call>>

\* reset() before prepare() finds no circuit: only the pots, never yet moved, snap.
Reset ==
  /\ pc = "out" /\ prepared
  /\ Rest
  /\ UNCHANGED <<prepared, stepsToTarget, gateAmount, call>>

\* LinearSmoother::setTargetValue. Before prepare() there is no ramp length yet.
SetTarget(v) ==
  IF v = target THEN UNCHANGED <<current, target, countdown>>
  ELSE IF stepsToTarget <= 0 THEN current' = v /\ target' = v /\ countdown' = 0
  ELSE target' = v /\ countdown' = stepsToTarget /\ UNCHANGED current

\* Before prepare() the pot has no circuit to be heard through: Rest starts it anew.
SetControls(v, on) ==
  /\ pc = "out"
  /\ SetTarget(v)
  /\ gateAmount' = on
  /\ UNCHANGED <<prepared, stepsToTarget, circuit, gate, call, recent>>

-----------------------------------------------------------------------------
\* process(), whose chunks follow one another without a call in between: the gate's
\* amount is the same for all of them.
Process ==
  /\ pc = "out" /\ prepared
  /\ enabled' = gateAmount
  /\ \E numSamples \in CallSizes :
       gateLeft' = numSamples /\ circuitLeft' = Factor * numSamples
  /\ pc' = "gate"
  /\ UNCHANGED <<prepared, smoother, circuit, gateAmount, env, gain, holdCtr, since, recent>>

\* The release one-pole, with nothing that ends it.
ReleaseTail(g) == IF g > 1 THEN g - 1 ELSE g

\* The release one-pole halves and halves, and is cut at kMuteSnap.
Release(g) == IF ReleaseTail(g) < 2 THEN 0 ELSE ReleaseTail(g)

\* The attack one-pole, towards the open gate.
Attack(g) == IF g < Full THEN g + 1 ELSE Full

\* Mutant: the hold is one sample short.
TriggerShort == holdCtr' = IF HoldN > 0 THEN HoldN - 1 ELSE 0

\* The gate is triggered: it holds for HoldN samples from here.
Trigger == holdCtr' = HoldN

\* NoiseGate::process on the next sample, which moves the envelope to e.
GateStep(e) ==
  IF ~enabled THEN gain' = Full /\ UNCHANGED <<env, holdCtr, since>>
  ELSE
    /\ env' = e
    /\ since' = IF e = "loud" THEN 0 ELSE IF since < HoldN THEN since + 1 ELSE HoldN
    /\ IF e = "loud" THEN gain' = Attack(gain) /\ Trigger
       ELSE IF e = "between" \/ holdCtr > 0
       THEN gain' = gain /\ holdCtr' = IF holdCtr > 0 THEN holdCtr - 1 ELSE 0
       ELSE gain' = Release(gain) /\ holdCtr' = holdCtr

GateSample ==
  /\ pc = "gate"
  /\ \E e \in {"quiet", "between", "loud"} : GateStep(e)
  /\ gateLeft' = gateLeft - 1
  /\ pc' = IF gateLeft > 1 THEN "gate" ELSE "circuit"
  /\ UNCHANGED <<prepared, smoother, circuit, gateAmount, enabled, circuitLeft, recent>>

Between(a, b) == {v \in Pot : (a <= v /\ v <= b) \/ (b <= v /\ v <= a)}

\* Mutant: the last step is a step like the others.
NextValueNotLanding(v) ==
  IF countdown <= 0 THEN v = current /\ UNCHANGED <<current, countdown>>
  ELSE /\ countdown' = countdown - 1
       /\ v \in Between(current, target)
       /\ current' = v

\* LinearSmoother::getNextValue
NextValue(v) ==
  IF countdown <= 0 THEN v = target /\ UNCHANGED <<current, countdown>>
  ELSE /\ countdown' = countdown - 1
       /\ IF countdown > 1 THEN v \in Between(current, target) ELSE v = target
       /\ current' = v

\* Mutant: one sample too late.
DueLate == knobCountdown - 1 < 0

\* --knobCountdown <= 0
Due == knobCountdown - 1 <= 0

\* One oversampled sample through the circuit.
CircuitSample ==
  /\ pc = "circuit"
  /\ \E v \in Pot :
       /\ NextValue(v)
       /\ recent' = [i \in 0..Interval-1 |-> IF i = 0 THEN v ELSE recent[i - 1]]
       /\ IF Due THEN knobCountdown' = Interval /\ circuitKnobs' = v
                 ELSE knobCountdown' = knobCountdown - 1 /\ UNCHANGED circuitKnobs
  /\ atRest' = FALSE
  /\ circuitLeft' = circuitLeft - 1
  /\ pc' = IF circuitLeft > 1 THEN "circuit" ELSE "out"
  /\ UNCHANGED <<prepared, target, stepsToTarget, dcKnobs, gateAmount, gate, gateLeft>>

-----------------------------------------------------------------------------
Next ==
  \/ Prepare \/ Reset
  \/ \E v \in Pot, on \in BOOLEAN : SetControls(v, on)
  \/ Process \/ GateSample \/ CircuitSample

Spec == Init /\ [][Next]_vars

\* The processor keeps calling process() while the pedal is on, and each call ends.
Fairness == WF_vars(Process) /\ WF_vars(GateSample) /\ WF_vars(CircuitSample)
FairSpec == Spec /\ Fairness

-----------------------------------------------------------------------------
\* The smoother, the interval counter and the gate keep their types: a ramp never
\* leaves the pot's range, a counter never runs below zero.
TypeOK ==
  /\ prepared \in BOOLEAN /\ atRest \in BOOLEAN
  /\ gateAmount \in BOOLEAN /\ enabled \in BOOLEAN
  /\ current \in Pot /\ target \in Pot /\ circuitKnobs \in Pot /\ dcKnobs \in Pot
  /\ countdown \in 0..RampSteps /\ stepsToTarget \in {0, RampSteps}
  /\ knobCountdown \in 0..Interval
  /\ env \in {"quiet", "between", "loud"}
  /\ gain \in 0..Full /\ holdCtr \in 0..HoldN /\ since \in 0..HoldN
  /\ pc \in {"out", "gate", "circuit"}
  /\ gateLeft \in Nat /\ circuitLeft \in Nat
  /\ recent \in [0..Interval-1 -> Pot]

\* "The circuit starts at rest at the knobs it will run at": until a sample runs, the
\* DC point, the circuit's matrices and the pot agree, whatever was set meanwhile.
StartsAtRest == prepared /\ atRest => current = dcKnobs /\ circuitKnobs = dcKnobs

\* The circuit runs at a position the pot has had within the last Interval samples,
\* across calls, retargeted ramps and resets.
KnobsAreRecent == prepared => \E i \in 0..Interval-1 : circuitKnobs = recent[i]

\* The gate does not start closing within HoldN samples of its last trigger, through
\* the thresholds, calls, and a gate switched off and on again.
GateHolds == [][gain' < gain => since >= HoldN]_vars

\* Controls left alone reach the circuit, exactly: no ramp ends between two updates
\* and is never taken over.
KnobsSettle ==
  \A v \in Pot : <>[](prepared /\ target = v) => <>[](circuitKnobs = v)

\* With the gate on and nothing played the input is muted, truly: not a small rest.
GateMutes == <>[](prepared /\ enabled /\ env = "quiet") => <>[](gain = 0) \/ []<>atRest
=============================================================================
