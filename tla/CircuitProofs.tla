---------------------------- MODULE CircuitProofs ----------------------------
(***************************************************************************)
(* Theorems about Circuit for every iteration cap, every number of decades *)
(* below it, every supply ramp and every set of knob positions.            *)
(***************************************************************************)
EXTENDS Circuit, TLAPS

\* A call is in progress only on a ready circuit, and its loops are within their caps.
ControlOK ==
  /\ pc # "idle" => mReady
  /\ pc = "newton" => it < MaxIterations
  /\ pc = "dc" => s <= Steps

\* The inverse in use was met since the last jump of the state; a chord step uses one.
InverseOK ==
  /\ mLuValid => jac
  /\ pc = "newton" /\ ~refactor => mLuValid

\* Between samples the predictor's p belongs to the stored ports, also while a DC solve
\* that may yet fail is under way.
PredictorOK == mLuValid /\ pc \in {"idle", "dc"} => mPrevP \in {mVn, Bad}

\* Chord steps spend decades: what is left of them and the iterations already done
\* never exceed what there was, which is less than the cap.
ChordBudget == pc = "newton" /\ ~refactor => prevStep + it <= Decades

\* A ready circuit without an operating point is inside prepare's cold solve.
SettledOK == mReady /\ ~mDcValid => pc = "dc" /\ preparing /\ ramp

IInv ==
  /\ TypeOK /\ ControlOK
  /\ StaysFinite /\ OneSample /\ PredictorOK
  /\ InverseOK /\ ChordBudget /\ FreshBeforeGivingUp
  /\ (mReady => mBigT = mPotOhms) /\ SettledOK

\* The next number is a number.
LEMMA StampNext == ASSUME now \in Stamp PROVE (now + 1) % Stamps \in Stamp
  BY CircuitAssumption DEF Stamp

LEMMA StampNotBad == Bad \notin Stamp
  BY CircuitAssumption DEF Stamp, Bad

LEMMA InitInv == Init => IInv
<1> SUFFICES ASSUME Init PROVE IInv
  OBVIOUS
<1> USE CircuitAssumption
<1>1. 0 \in Stamp /\ 0 # Bad
  BY DEF Stamp, Bad
<1>2. TypeOK
  <2>1. Flags
    BY <1>1 DEF Init, TypeOK, Flags
  <2>2. Data
    BY <1>1 DEF Init, TypeOK, Data
  <2> QED
    BY <2>1, <2>2 DEF TypeOK
<1>3. StaysFinite /\ OneSample /\ PredictorOK
  BY <1>1 DEF Init, StaysFinite, OneSample, PredictorOK
<1>4. ControlOK /\ InverseOK /\ ChordBudget /\ FreshBeforeGivingUp /\ SettledOK
  BY DEF Init, ControlOK, InverseOK, ChordBudget, FreshBeforeGivingUp, SettledOK
<1> QED
  BY <1>2, <1>3, <1>4 DEF Init, IInv

\* prepare, the knobs and the start of a call leave the stored state alone.
LEMMA CallsInv ==
  ASSUME IInv, Prepare \/ SettleToDc \/ BeginSample \/ \E k \in Knobs : SetKnobs(k)
  PROVE  IInv'
<1> USE CircuitAssumption DEF IInv
<1>1. CASE Prepare
  <2>1. TypeOK'
    <3>1. Flags'
      BY <1>1 DEF Prepare, BeginDc, TypeOK, Flags, state, newton, dc
    <3>2. Data'
      BY <1>1 DEF Prepare, BeginDc, TypeOK, Data, state, newton, dc
    <3> QED
      BY <3>1, <3>2 DEF TypeOK
  <2>2. StaysFinite' /\ OneSample' /\ PredictorOK'
    BY <1>1 DEF Prepare, BeginDc, StaysFinite, OneSample, PredictorOK, state, dc
  <2>3. ControlOK' /\ InverseOK' /\ ChordBudget' /\ FreshBeforeGivingUp' /\ SettledOK'
    BY <1>1 DEF Prepare, BeginDc, ControlOK, InverseOK, ChordBudget, FreshBeforeGivingUp,
                SettledOK, Steps, state, newton, dc, TypeOK, Flags, Data
  <2>4. (mReady => mBigT = mPotOhms)'
    BY <1>1 DEF Prepare
  <2> QED
    BY <2>1, <2>2, <2>3, <2>4
<1>2. CASE SettleToDc
  <2>1. TypeOK'
    <3>1. Flags'
      BY <1>2 DEF SettleToDc, BeginDc, TypeOK, Flags, system, state, newton
    <3>2. Data'
      BY <1>2 DEF SettleToDc, BeginDc, TypeOK, Data, system, state, newton
    <3> QED
      BY <3>1, <3>2 DEF TypeOK
  <2>2. StaysFinite' /\ OneSample' /\ PredictorOK'
    BY <1>2 DEF SettleToDc, BeginDc, StaysFinite, OneSample, PredictorOK, state
  <2>3. ControlOK' /\ InverseOK' /\ ChordBudget' /\ FreshBeforeGivingUp' /\ SettledOK'
    BY <1>2 DEF SettleToDc, BeginDc, ControlOK, InverseOK, ChordBudget,
                FreshBeforeGivingUp, SettledOK, Steps, system, newton, TypeOK, Flags, Data
  <2>4. (mReady => mBigT = mPotOhms)'
    BY <1>2 DEF SettleToDc, system
  <2> QED
    BY <2>1, <2>2, <2>3, <2>4
<1>3. CASE BeginSample
  <2>1. TypeOK'
    <3>1. Flags'
      BY <1>3 DEF BeginSample, TypeOK, Flags, system, state, dc
    <3>2. Data'
      BY <1>3 DEF BeginSample, TypeOK, Data, system, state, dc
    <3> QED
      BY <3>1, <3>2 DEF TypeOK
  <2>2. StaysFinite' /\ OneSample' /\ PredictorOK'
    BY <1>3 DEF BeginSample, StaysFinite, OneSample, PredictorOK, state
  <2>3. ControlOK' /\ InverseOK' /\ ChordBudget' /\ FreshBeforeGivingUp' /\ SettledOK'
    BY <1>3 DEF BeginSample, ControlOK, InverseOK, ChordBudget, FreshBeforeGivingUp,
                SettledOK, system, dc, TypeOK, Flags, Data
  <2>4. (mReady => mBigT = mPotOhms)'
    BY <1>3 DEF BeginSample, system
  <2> QED
    BY <2>1, <2>2, <2>3, <2>4
<1>4. ASSUME NEW k \in Knobs, SetKnobs(k) PROVE IInv'
  <2>1. TypeOK'
    <3>1. Flags'
      BY <1>4 DEF SetKnobs, TypeOK, Flags, state, newton, dc
    <3>2. Data'
      BY <1>4 DEF SetKnobs, TypeOK, Data, state, newton, dc
    <3> QED
      BY <3>1, <3>2 DEF TypeOK
  <2>2. StaysFinite' /\ OneSample' /\ PredictorOK'
    BY <1>4 DEF SetKnobs, StaysFinite, OneSample, PredictorOK, state
  <2>3. ControlOK' /\ InverseOK' /\ ChordBudget' /\ FreshBeforeGivingUp' /\ SettledOK'
    BY <1>4 DEF SetKnobs, ControlOK, InverseOK, ChordBudget, FreshBeforeGivingUp,
                SettledOK, newton, dc
  <2>4. (mReady => mBigT = mPotOhms)'
    BY <1>4 DEF SetKnobs
  <2> QED
    BY <2>1, <2>2, <2>3, <2>4
<1> QED
  BY <1>1, <1>2, <1>3, <1>4

\* A DC solve writes a whole state or none.
LEMMA DcInv == ASSUME IInv, DcIterate PROVE IInv'
<1> USE CircuitAssumption DEF IInv
<1>1. CASE DcSucceeds
  <2>1. now' \in Stamp /\ mX' = now' /\ mVn' = now' /\ mOut' = now'
    BY <1>1, StampNext DEF DcSucceeds, TypeOK, Flags, Data
  <2>2. TypeOK'
    <3>1. Flags'
      BY <1>1, <2>1 DEF DcSucceeds, TypeOK, Flags, dc, newton
    <3>2. Data'
      BY <1>1, <2>1 DEF DcSucceeds, TypeOK, Data, dc, newton
    <3> QED
      BY <3>1, <3>2 DEF TypeOK
  <2>3. StaysFinite' /\ OneSample' /\ PredictorOK'
    BY <1>1, <2>1 DEF DcSucceeds, StaysFinite, OneSample, PredictorOK
  <2>4. ControlOK' /\ InverseOK' /\ ChordBudget' /\ FreshBeforeGivingUp' /\ SettledOK'
    BY <1>1 DEF DcSucceeds, ControlOK, InverseOK, ChordBudget, FreshBeforeGivingUp,
                SettledOK
  <2>5. (mReady => mBigT = mPotOhms)'
    BY <1>1 DEF DcSucceeds
  <2> QED
    BY <2>2, <2>3, <2>4, <2>5
<1>2. CASE DcFails
  <2>1. TypeOK'
    <3>1. Flags'
      BY <1>2 DEF DcFails, BeginDc, TypeOK, Flags, system, state, newton, dc
    <3>2. Data'
      BY <1>2 DEF DcFails, BeginDc, TypeOK, Data, system, state, newton, dc
    <3> QED
      BY <3>1, <3>2 DEF TypeOK
  <2>2. StaysFinite' /\ OneSample' /\ PredictorOK'
    BY <1>2 DEF DcIterate, DcFails, BeginDc, StaysFinite, OneSample, PredictorOK, state
  <2>3. ControlOK' /\ InverseOK' /\ ChordBudget' /\ FreshBeforeGivingUp' /\ SettledOK'
    <3>1. CASE ~ramp
      <4>1. BeginDc(TRUE) /\ UNCHANGED <<system, state, mLuValid, preparing, newton, jac>>
        BY <1>2, <3>1 DEF DcFails
      <4> QED
        BY <3>1, <4>1 DEF BeginDc, ControlOK, InverseOK, ChordBudget, DcIterate, Steps,
                          FreshBeforeGivingUp, SettledOK, system, TypeOK, Data
    <3>2. CASE ramp
      <4>1. /\ pc' = "idle" /\ mReady' = (mReady /\ ~preparing)
            /\ UNCHANGED <<mDcValid, mLuValid, jac>>
        BY <1>2, <3>2 DEF DcFails
      <4>2. SettledOK'
        BY <4>1, Zenon DEF SettledOK
      <4> QED
        BY <4>1, <4>2 DEF ControlOK, InverseOK, ChordBudget, FreshBeforeGivingUp
    <3> QED
      BY <3>1, <3>2
  <2>4. (mReady => mBigT = mPotOhms)'
    BY <1>2 DEF DcFails, system
  <2> QED
    BY <2>1, <2>2, <2>3, <2>4
<1>3. CASE UNCHANGED <<system, state, mLuValid, pc, preparing, ramp, newton, jac>>
           /\ s' \in Int /\ s <= s' /\ s' <= Steps /\ dcIt' \in 0..DcMaxIterations-1
  <2>1. TypeOK'
    <3>1. Flags'
      BY <1>3 DEF TypeOK, Flags, Steps, system, state, newton
    <3>2. Data'
      BY <1>3 DEF TypeOK, Data, Steps, system, state, newton
    <3> QED
      BY <3>1, <3>2 DEF TypeOK
  <2>2. StaysFinite' /\ OneSample' /\ PredictorOK'
    BY <1>3 DEF StaysFinite, OneSample, PredictorOK, state
  <2>3. ControlOK' /\ InverseOK' /\ ChordBudget' /\ FreshBeforeGivingUp' /\ SettledOK'
    BY <1>3 DEF ControlOK, InverseOK, ChordBudget, FreshBeforeGivingUp, SettledOK,
                Steps, system, newton
  <2>4. (mReady => mBigT = mPotOhms)'
    BY <1>3 DEF system
  <2> QED
    BY <2>1, <2>2, <2>3, <2>4
<1>4. CASE DcConverges /\ s < Steps
  BY <1>3, <1>4 DEF DcConverges, Steps, TypeOK, Flags, Data
<1>5. CASE DcConverges /\ ~(s < Steps)
  BY <1>1, <1>5 DEF DcConverges
<1>6. CASE /\ dcIt + 1 < DcMaxIterations
           /\ dcIt' = dcIt + 1
           /\ UNCHANGED <<system, state, mLuValid, pc, preparing, ramp, s, newton, jac>>
  BY <1>3, <1>6 DEF DcIterate, ControlOK, Steps, TypeOK, Flags, Data
<1> QED
  BY <1>2, <1>4, <1>5, <1>6 DEF DcIterate

\* One iteration: a kept Jacobian costs a decade, a new one is met on the spot.
LEMMA IterateInv == ASSUME IInv, Iterate PROVE IInv'
<1> USE CircuitAssumption DEF IInv
<1>1. UNCHANGED <<system, state, dc, pOk>> /\ it' = it + 1 /\ pc = "newton"
  BY DEF Iterate
<1>2. CASE SingularJacobian
  <2>1. TypeOK'
    <3>1. Flags'
      BY <1>1, <1>2 DEF SingularJacobian, TypeOK, Flags, ControlOK, system, state, dc
    <3>2. Data'
      BY <1>1, <1>2 DEF SingularJacobian, TypeOK, Data, ControlOK, system, state, dc
    <3> QED
      BY <3>1, <3>2 DEF TypeOK
  <2>2. StaysFinite' /\ OneSample' /\ PredictorOK'
    BY <1>1, <1>2 DEF SingularJacobian, StaysFinite, OneSample, PredictorOK, state
  <2>3. ControlOK' /\ InverseOK' /\ ChordBudget' /\ FreshBeforeGivingUp' /\ SettledOK'
    BY <1>1, <1>2 DEF SingularJacobian, ControlOK, InverseOK, ChordBudget,
                      FreshBeforeGivingUp, SettledOK, system, dc
  <2> QED
    BY <1>1, <2>1, <2>2, <2>3 DEF system
<1>3. ASSUME NEW size \in 0..Decades, NEW limited \in BOOLEAN, Step(size, limited)
      PROVE  IInv'
  <2>1. pc' \in {"newton", "finish"} /\ (pc' = "newton" => it' < MaxIterations)
    BY <1>3 DEF Step
  <2>2. /\ mLuValid' \in BOOLEAN /\ jac' \in BOOLEAN
        /\ refactor' \in BOOLEAN /\ converged' \in BOOLEAN
        /\ vOk' \in BOOLEAN /\ prevStep' \in 0..Decades
    BY <1>3 DEF Step, TypeOK, Flags, Data
  <2>3. TypeOK'
    <3>1. Flags'
      BY <1>1, <2>1, <2>2 DEF TypeOK, Flags, ControlOK, system, state, dc
    <3>2. Data'
      BY <1>1, <2>1, <2>2 DEF TypeOK, Data, ControlOK, system, state, dc
    <3> QED
      BY <3>1, <3>2 DEF TypeOK
  <2>4. StaysFinite' /\ OneSample' /\ PredictorOK'
    BY <1>1, <2>1 DEF StaysFinite, OneSample, PredictorOK, state
  <2>5. ControlOK' /\ SettledOK'
    BY <1>1, <2>1 DEF ControlOK, SettledOK, system, dc
  <2>6. InverseOK'
    BY <1>1, <1>3 DEF Step, InverseOK
  <2>7. size # 0 /\ ~refactor' => prevStep' = size /\ prevStep' + it' <= Decades
    BY <1>1, <1>3 DEF Step, KeepChord, ChordBudget, TypeOK, Flags, Data
  <2>8. ChordBudget'
    BY <1>3, <2>7 DEF Step, ChordBudget
  <2>9. FreshBeforeGivingUp'
    <3>1. SUFFICES ASSUME pc' = "finish", ~converged', ~refactor' PROVE FALSE
      BY <3>1 DEF FreshBeforeGivingUp
    <3>2. size # 0 /\ ~(it' < MaxIterations)
      BY <1>3, <3>1 DEF Step
    <3> QED
      BY <1>1, <2>7, <3>1, <3>2 DEF TypeOK, Data
  <2> QED
    BY <1>1, <2>3, <2>4, <2>5, <2>6, <2>8, <2>9 DEF system
<1> QED
  BY <1>2, <1>3 DEF Iterate

\* The end of a sample: all of it is stored, or none and the inverse is dropped.
LEMMA FinishInv == ASSUME IInv, Finish PROVE IInv'
<1> USE CircuitAssumption DEF IInv
<1>1. UNCHANGED <<system, dc, newton>> /\ pc' = "idle" /\ pc = "finish"
  BY DEF Finish
<1>2. PICK outOk \in BOOLEAN, xOk \in BOOLEAN :
        IF Good(outOk, xOk) THEN Accept(outOk, xOk) ELSE Reject
  BY DEF Finish
<1>3. ControlOK' /\ ChordBudget' /\ FreshBeforeGivingUp' /\ SettledOK'
  BY <1>1 DEF ControlOK, ChordBudget, FreshBeforeGivingUp, SettledOK, system
<1>4. CASE Good(outOk, xOk)
  <2>1. /\ now' \in Stamp
        /\ mX' = now' /\ mVn' = now' /\ mOut' = now' /\ mPrevP' \in {now', Bad}
        /\ UNCHANGED <<mLuValid, jac>>
    BY <1>2, <1>4, StampNext DEF Good, Accept, Stored, TypeOK, Flags, Data
  <2>2. TypeOK'
    <3>1. Flags'
      BY <1>1, <2>1 DEF TypeOK, Flags, system, dc, newton
    <3>2. Data'
      BY <1>1, <2>1 DEF TypeOK, Data, system, dc, newton
    <3> QED
      BY <3>1, <3>2 DEF TypeOK
  <2>3. StaysFinite' /\ OneSample' /\ PredictorOK' /\ InverseOK'
    BY <1>1, <2>1 DEF StaysFinite, OneSample, PredictorOK, InverseOK
  <2> QED
    BY <1>1, <1>3, <2>2, <2>3 DEF system
<1>5. CASE ~Good(outOk, xOk)
  <2>1. mLuValid' = FALSE /\ jac' = FALSE /\ UNCHANGED state
    BY <1>2, <1>5 DEF Reject
  <2>2. TypeOK'
    <3>1. Flags'
      BY <1>1, <2>1 DEF TypeOK, Flags, system, dc, newton, state
    <3>2. Data'
      BY <1>1, <2>1 DEF TypeOK, Data, system, dc, newton, state
    <3> QED
      BY <3>1, <3>2 DEF TypeOK
  <2>3. StaysFinite' /\ OneSample' /\ PredictorOK' /\ InverseOK'
    BY <1>1, <2>1 DEF StaysFinite, OneSample, PredictorOK, InverseOK, state
  <2> QED
    BY <1>1, <1>3, <2>2, <2>3 DEF system
<1> QED
  BY <1>4, <1>5

\* The inductive invariant holds of every reachable state.
LEMMA Inductive == Spec => []IInv
<1>1. IInv /\ UNCHANGED vars => IInv'
  BY DEF IInv, TypeOK, Flags, Data, ControlOK, StaysFinite, OneSample, PredictorOK, InverseOK,
         ChordBudget, FreshBeforeGivingUp, SettledOK, Steps,
         vars, system, state, dc, newton
<1>2. IInv /\ [Next]_vars => IInv'
  BY <1>1, CallsInv, DcInv, IterateInv, FinishInv DEF Next
<1> QED
  BY <1>2, InitInv, PTL DEF Spec

-----------------------------------------------------------------------------
\* The solver's fields and locals keep their types: no loop runs past its cap.
THEOREM TypeCorrect == Spec => []TypeOK
  BY Inductive, PTL DEF IInv

\* What process returns and keeps is finite, whatever its iterations met.
THEOREM AlwaysFinite == Spec => []StaysFinite
  BY Inductive, PTL DEF IInv

\* The stored vectors are of one sample.
THEOREM StateIsOfOneSample == Spec => []OneSample
  BY Inductive, PTL DEF IInv

\* No chord step with an inverse from before a jump of the state.
THEOREM ChordUsesFreshInverse == Spec => []ChordIsFresh
<1>1. IInv => ChordIsFresh
  BY DEF IInv, InverseOK, ChordIsFresh
<1> QED
  BY <1>1, Inductive, PTL

\* For every cap above the number of decades, no sample is given up on a stale inverse.
THEOREM GivesUpFresh == Spec => []FreshBeforeGivingUp
  BY Inductive, PTL DEF IInv

\* A ready circuit runs on its knobs' matrix and has an operating point.
THEOREM ReadyCircuitIsDerived == Spec => []ReadyIsDerived
<1>1. IInv => ReadyIsDerived
  BY DEF IInv, SettledOK, ReadyIsDerived
<1> QED
  BY <1>1, Inductive, PTL
=============================================================================
