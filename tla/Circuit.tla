------------------------------ MODULE Circuit ------------------------------
(***************************************************************************)
(* The control of the circuit solver (src/src/dsp/circuit/                 *)
(* BigMuffCircuit.cpp): what prepare, setKnobs, settleToDc and process do  *)
(* with the stored state when an iteration converges, stalls, meets a      *)
(* singular matrix or runs into infinities and NaNs.                       *)
(*                                                                         *)
(* Vectors are abstracted to what decides the control. A stored one is the *)
(* number, counted modulo Stamps, of the sample or DC solve that wrote it, *)
(* or Bad when one of its elements is not finite. A Newton step is its     *)
(* size in decades above kTolVolts: 0 is below the tolerance, Decades the  *)
(* largest move the voltages of the pedal allow. A NaN never raises the    *)
(* running maximum (std::max(step, NaN) is step), so a bad iterate can     *)
(* come with any size, 0 included.                                         *)
(***************************************************************************)
EXTENDS Integers

CONSTANTS
  Knobs, Default,    \* knob positions, and those of the constructor
  MaxIterations,     \* kMaxIterations
  Decades,
  DcMaxIterations,   \* kDcMaxIterations
  DcRampSteps,       \* kDcRampSteps
  Stamps

ASSUME CircuitAssumption ==
  /\ Default \in Knobs
  /\ Decades \in Nat
  /\ MaxIterations \in Nat /\ MaxIterations > Decades
  /\ DcMaxIterations \in Nat \ {0}
  /\ DcRampSteps \in Nat \ {0}
  /\ Stamps \in Nat \ {0}

Bad == -1
Stamp == 0..Stamps-1

VARIABLES
  mReady, mDcValid,
  mPotOhms,                 \* the pot halves: the knob position they stand for
  mBigT,                    \* the position the system matrix was derived at, if any
  mX, mVn, mOut, mPrevP,    \* capacitor states, port voltages, output, last p
  mLuValid,
  now,                      \* history: the number of the last state written
  pc,                       \* in no call, in "dc" (solveDc), in "newton", at the "finish"
  preparing, ramp, s, dcIt, \* prepare's call of settleToDc; locals of solveDc
  pOk, vOk, it, refactor, prevStep, converged,  \* locals of process
  jac                       \* history: what mJinvT holds is an inverse met since the
                            \* state last jumped (by a solve, a prepare or a rejection)

system == <<mReady, mDcValid, mPotOhms, mBigT>>
state  == <<mX, mVn, mOut, mPrevP, now>>
dc     == <<preparing, ramp, s, dcIt>>
newton == <<pOk, vOk, it, refactor, prevStep, converged>>
vars == <<system, state, mLuValid, pc, dc, newton, jac>>

Init ==
  /\ mReady = FALSE /\ mDcValid = FALSE
  /\ mPotOhms = Default /\ mBigT = Default
  /\ mX = 0 /\ mVn = 0 /\ mOut = 0 /\ mPrevP = 0 /\ now = 0
  /\ mLuValid = FALSE /\ jac = FALSE
  /\ pc = "idle"
  /\ preparing = FALSE /\ ramp = FALSE /\ s = 1 /\ dcIt = 0
  /\ pOk = TRUE /\ vOk = TRUE /\ it = 0
  /\ refactor = FALSE /\ prevStep = 0 /\ converged = FALSE

-----------------------------------------------------------------------------
(* prepare, setKnobs, settleToDc *)

\* solveDc from a cold start with a supply ramp, or from the last operating point.
BeginDc(cold) == pc' = "dc" /\ ramp' = cold /\ s' = 1 /\ dcIt' = 0

\* Mutant: the knob-dependent matrix is left as it was.
PrepareKeepingSystem ==
  /\ pc = "idle"
  /\ mDcValid' = FALSE
  /\ \/ mReady' = FALSE /\ UNCHANGED <<mBigT, pc, dc>>
     \/ mReady' = TRUE /\ preparing' = TRUE /\ BeginDc(TRUE) /\ UNCHANGED mBigT
  /\ UNCHANGED <<mPotOhms, state, mLuValid, newton, jac>>

\* A rate that is no rate, or a singular matrix, leaves the circuit not ready. A new
\* rate has no operating point yet, so the solve that follows starts cold.
Prepare ==
  /\ pc = "idle"
  /\ mDcValid' = FALSE
  /\ \/ mReady' = FALSE /\ UNCHANGED <<mBigT, pc, dc>>
     \/ mReady' = TRUE /\ mBigT' = mPotOhms /\ preparing' = TRUE /\ BeginDc(TRUE)
  /\ UNCHANGED <<mPotOhms, state, mLuValid, newton, jac>>

\* updateSystem's factorisation is of a positive definite matrix, so it succeeds.
SetKnobs(k) ==
  /\ pc = "idle"
  /\ k # mPotOhms
  /\ mPotOhms' = k
  /\ mBigT' = IF mReady THEN k ELSE mBigT
  /\ UNCHANGED <<mReady, mDcValid, state, mLuValid, pc, dc, newton, jac>>

SettleToDc ==
  /\ pc = "idle" /\ mReady
  /\ preparing' = FALSE
  /\ BeginDc(~mDcValid)
  /\ UNCHANGED <<system, state, mLuValid, newton, jac>>

Steps == IF ramp THEN DcRampSteps ELSE 1

\* solveDc returns true: what it solved becomes the state, all of it.
DcSucceeds ==
  /\ mDcValid' = TRUE
  /\ now' = (now + 1) % Stamps
  /\ mX' = now' /\ mVn' = now' /\ mOut' = now'
  /\ mLuValid' = FALSE /\ jac' = FALSE
  /\ pc' = "idle"
  /\ UNCHANGED <<mReady, mPotOhms, mBigT, mPrevP, dc, newton>>

\* Mutant: a warm start is tried again warm.
DcFailsWarmAgain ==
  \/ ~ramp /\ BeginDc(FALSE)
     /\ UNCHANGED <<system, state, mLuValid, preparing, newton, jac>>
  \/ /\ ramp /\ pc' = "idle"
     /\ mReady' = (mReady /\ ~preparing)
     /\ UNCHANGED <<mDcValid, mPotOhms, mBigT, state, mLuValid, dc, newton, jac>>

\* solveDc returns false: a warm start is tried again cold, a cold one gives up and
\* leaves the state alone; prepare then withdraws mReady.
DcFails ==
  \/ ~ramp /\ BeginDc(TRUE)
     /\ UNCHANGED <<system, state, mLuValid, preparing, newton, jac>>
  \/ /\ ramp /\ pc' = "idle"
     /\ mReady' = (mReady /\ ~preparing)
     /\ UNCHANGED <<mDcValid, mPotOhms, mBigT, state, mLuValid, dc, newton, jac>>

\* A supply step converges: the next one, or done at the full supply.
DcConverges ==
  IF s < Steps
  THEN s' = s + 1 /\ dcIt' = 0
       /\ UNCHANGED <<system, state, mLuValid, pc, preparing, ramp, newton, jac>>
  ELSE DcSucceeds

\* A singular matrix or an infinite node ends the solve; so does the iteration cap.
DcIterate ==
  /\ pc = "dc"
  /\ \/ DcConverges
     \/ DcFails
     \/ /\ dcIt + 1 < DcMaxIterations
        /\ dcIt' = dcIt + 1
        /\ UNCHANGED <<system, state, mLuValid, pc, preparing, ramp, s, newton, jac>>

-----------------------------------------------------------------------------
(* process *)

\* Up to the Newton loop: the predictor moves the ports only with a valid inverse.
BeginSample ==
  /\ pc = "idle" /\ mReady
  /\ pOk' \in BOOLEAN
  /\ IF mLuValid THEN vOk' \in BOOLEAN /\ prevStep' \in 0..Decades
                 ELSE vOk' = (mVn # Bad) /\ prevStep' = 0
  /\ refactor' = ~mLuValid
  /\ it' = 0 /\ converged' = FALSE
  /\ pc' = "newton"
  /\ UNCHANGED <<system, state, mLuValid, dc, jac>>

\* Mutant: a stalled chord step is kept as long as it does not grow.
KeepChordLoose(step) == step <= prevStep

\* step > kChordRatio * prevStep, in whole decades: a step at least a decade smaller
\* than the last may keep the Jacobian.
KeepChord(step) == step < prevStep

\* The factorisation of this iteration failed: mLuValid falls and the loop is left.
SingularJacobian ==
  /\ refactor
  /\ mLuValid' = FALSE /\ jac' = FALSE
  /\ pc' = "finish"
  /\ UNCHANGED <<vOk, refactor, prevStep, converged>>

\* One chord or Newton step. next is v minus a product, so a bad port stays bad; a
\* limited step is a visible one (two exact coincidences of rounding aside).
Step(size, limited) ==
  /\ limited => size > 0
  /\ vOk' \in {ok \in BOOLEAN : ok => vOk}
  /\ IF refactor THEN mLuValid' = TRUE /\ jac' = TRUE ELSE UNCHANGED <<mLuValid, jac>>
  /\ IF size = 0
     THEN converged' = TRUE /\ pc' = "finish" /\ UNCHANGED <<refactor, prevStep>>
     ELSE /\ refactor' \in BOOLEAN
          /\ refactor => refactor'
          /\ ~refactor /\ refactor' => size + 1 >= prevStep
          /\ ~refactor' => KeepChord(size)
          /\ prevStep' = size
          /\ pc' = IF it' < MaxIterations THEN "newton" ELSE "finish"
          /\ UNCHANGED converged

Iterate ==
  /\ pc = "newton"
  /\ it' = it + 1
  /\ \/ SingularJacobian
     \/ \E size \in 0..Decades, limited \in BOOLEAN : Step(size, limited)
  /\ UNCHANGED <<system, state, dc, pOk>>

Stored(ok) == IF ok THEN now' ELSE Bad

Accept(outOk, xOk) ==
  /\ now' = (now + 1) % Stamps
  /\ mX' = Stored(xOk) /\ mVn' = Stored(vOk) /\ mOut' = Stored(outOk)
  /\ mPrevP' = Stored(pOk)
  /\ UNCHANGED <<mLuValid, jac>>

\* Mutant: the rejected sample leaves its Jacobian in use.
RejectKeepingLu == jac' = FALSE /\ UNCHANGED <<state, mLuValid>>
\* Mutant: the capacitors are updated before the result is looked at.
RejectLate ==
  /\ mX' = (now + 1) % Stamps
  /\ mLuValid' = FALSE /\ jac' = FALSE
  /\ UNCHANGED <<mVn, mOut, mPrevP, now>>

\* Keep the last good state; the next sample starts from it again.
Reject == mLuValid' = FALSE /\ jac' = FALSE /\ UNCHANGED state

\* Mutant: the port voltages are not looked at.
GoodIgnoringPorts(outOk, xOk) == outOk /\ xOk

\* Not even a sample that claims to have converged is trusted.
Good(outOk, xOk) == outOk /\ xOk /\ vOk

\* The end of process. A port at minus infinity conducts a finite current, so a bad v
\* need not show in the output or in the capacitors.
Finish ==
  /\ pc = "finish"
  /\ \E outOk, xOk \in BOOLEAN : IF Good(outOk, xOk) THEN Accept(outOk, xOk) ELSE Reject
  /\ pc' = "idle"
  /\ UNCHANGED <<system, dc, newton>>

-----------------------------------------------------------------------------
Next ==
  \/ Prepare \/ SettleToDc \/ DcIterate
  \/ BeginSample \/ Iterate \/ Finish
  \/ \E k \in Knobs : SetKnobs(k)

Spec == Init /\ [][Next]_vars

\* Every loop of a call that was made is run to its end.
Fairness == WF_vars(DcIterate) /\ WF_vars(Iterate) /\ WF_vars(Finish)
FairSpec == Spec /\ Fairness

-----------------------------------------------------------------------------
Flags ==
  /\ mReady \in BOOLEAN /\ mDcValid \in BOOLEAN
  /\ mLuValid \in BOOLEAN /\ jac \in BOOLEAN
  /\ preparing \in BOOLEAN /\ ramp \in BOOLEAN
  /\ pOk \in BOOLEAN /\ vOk \in BOOLEAN
  /\ refactor \in BOOLEAN /\ converged \in BOOLEAN

Data ==
  /\ mPotOhms \in Knobs /\ mBigT \in Knobs
  /\ mX \in Stamp \cup {Bad} /\ mVn \in Stamp \cup {Bad}
  /\ mOut \in Stamp \cup {Bad} /\ mPrevP \in Stamp \cup {Bad}
  /\ now \in Stamp
  /\ pc \in {"idle", "dc", "newton", "finish"}
  /\ s \in 1..DcRampSteps /\ dcIt \in 0..DcMaxIterations-1
  /\ it \in 0..MaxIterations
  /\ prevStep \in 0..Decades

\* The members of BigMuffCircuit and the locals of its loops keep their types: no
\* loop runs past its cap.
TypeOK == Flags /\ Data

\* "Always returns a finite value" (BigMuffCircuit.h): what process returns and what
\* the next sample starts from is finite, although an iterate that is all NaN passes
\* for converged and a bad port voltage need not show in the output.
StaysFinite == mX \in Stamp /\ mVn \in Stamp /\ mOut \in Stamp

\* The capacitors, the port voltages, the output and, when the predictor will use it,
\* the last p are of one and the same sample, whatever was rejected or re-solved.
OneSample ==
  /\ mX = mVn /\ mOut = mVn
  /\ mLuValid /\ pc = "idle" => mPrevP \in {mVn, Bad}

\* A chord step is taken only with an inverse factorised since the state last jumped:
\* never with one from before a DC solve or a rejected sample.
ChordIsFresh == pc = "newton" /\ ~refactor => jac

\* process gives up on a sample only after trying a fresh Jacobian: chord steps that
\* keep shrinking tenfold converge long before the cap, the others are replaced.
FreshBeforeGivingUp == pc = "finish" /\ ~converged => refactor

\* A circuit that is ready has an operating point, and runs on the matrix of the knobs
\* it was last given: prepared before or after them, or prepared anew after a failure.
ReadyIsDerived ==
  /\ mReady => mBigT = mPotOhms
  /\ mReady /\ pc # "dc" => mDcValid

\* "Real-time-safe and bounded": every process and every settleToDc returns.
Returns == pc # "idle" ~> pc = "idle"
=============================================================================
