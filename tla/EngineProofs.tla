----------------------------- MODULE EngineProofs -----------------------------
(***************************************************************************)
(* Theorems about Engine for every ramp length, update interval, hold      *)
(* length, oversampling factor and range of the pots; and about the        *)
(* Oversampler for every table of coefficients and every signal.           *)
(***************************************************************************)
EXTENDS OversampledEngine, SequenceTheorems, WellFoundedInduction, TLAPS

\* process is entered only once prepared, its loops only with a sample to do, and a
\* prepared pot has a ramp length.
ControlOK ==
  /\ pc = "gate" => gateLeft > 0 /\ circuitLeft > 0
  /\ pc = "circuit" => circuitLeft > 0
  /\ pc # "out" => prepared
  /\ prepared => stepsToTarget = RampSteps

\* Where in the recent positions the circuit's one is: as old as the update is.
UpdateOK ==
  prepared => circuitKnobs = recent[IF knobCountdown = 0 THEN 0 ELSE Interval - knobCountdown]

\* The hold counter covers the samples missing to HoldN since the trigger.
HoldOK == holdCtr + since >= HoldN

\* A ramp that is over is on its target: no path leaves the pot short of it.
RampLands == countdown = 0 => current = target

IInv == TypeOK /\ ControlOK /\ StartsAtRest /\ UpdateOK /\ RampLands /\ HoldOK

LEMMA InitInv == Init => IInv
<1> SUFFICES ASSUME Init PROVE IInv
  OBVIOUS
<1> USE EngineAssumption DEF Init
<1>1. recent \in [0..Interval-1 -> Pot] /\ \A i \in 0..Interval-1 : recent[i] = Default
  BY DEF AllRecent, Pot
<1>2. TypeOK
  <2>1. /\ prepared \in BOOLEAN /\ atRest \in BOOLEAN
        /\ gateAmount \in BOOLEAN /\ enabled \in BOOLEAN
    BY <1>1 DEF Pot
  <2>2. /\ current \in Pot /\ target \in Pot
        /\ circuitKnobs \in Pot /\ dcKnobs \in Pot
        /\ countdown \in 0..RampSteps /\ stepsToTarget \in {0, RampSteps}
        /\ knobCountdown \in 0..Interval
        /\ gain \in 0..Full /\ holdCtr \in 0..HoldN /\ since \in 0..HoldN
        /\ gateLeft \in Nat /\ circuitLeft \in Nat
    BY <1>1 DEF Pot
  <2>3. /\ env \in {"quiet", "between", "loud"}
        /\ pc \in {"out", "gate", "circuit"}
        /\ recent \in [0..Interval-1 -> Pot]
    BY <1>1 DEF Pot
  <2> QED
    BY <2>1, <2>2, <2>3 DEF TypeOK
<1> QED
  BY <1>1, <1>2 DEF IInv, ControlOK, StartsAtRest, UpdateOK, RampLands, HoldOK

\* At rest everything is at the target.
LEMMA RestInv == ASSUME IInv, Prepare \/ Reset PROVE IInv'
<1> USE EngineAssumption DEF IInv
<1>1. /\ current' = target /\ countdown' = 0 /\ target' = target
      /\ circuitKnobs' = target /\ dcKnobs' = target /\ atRest' = TRUE
      /\ knobCountdown' = 0 /\ recent' = AllRecent(target)
      /\ env' = "quiet" /\ gain' = Full /\ holdCtr' = 0 /\ since' = HoldN
      /\ UNCHANGED <<enabled, gateAmount, call>>
  BY DEF Prepare, Reset, Rest, ResetGate
<1>2. prepared' \in BOOLEAN /\ stepsToTarget' = RampSteps
  BY DEF Prepare, Reset, ControlOK
<1>3. recent' \in [0..Interval-1 -> Pot] /\ \A i \in 0..Interval-1 : recent'[i] = target
  BY <1>1 DEF AllRecent, TypeOK
<1>4. TypeOK'
  BY <1>1, <1>2, <1>3 DEF TypeOK, call
<1>5. pc = "out" /\ pc' = pc
  BY <1>1 DEF Prepare, Reset, call
<1>6. ControlOK' /\ StartsAtRest' /\ RampLands' /\ HoldOK'
  BY <1>1, <1>2, <1>5 DEF ControlOK, StartsAtRest, RampLands, HoldOK
<1>7. UpdateOK'
  BY <1>1, <1>3 DEF UpdateOK
<1> QED
  BY <1>4, <1>6, <1>7

\* A new control starts a ramp; the circuit hears of it only by its samples.
LEMMA SetControlsInv ==
  ASSUME IInv, NEW v \in Pot, NEW on \in BOOLEAN, SetControls(v, on)
  PROVE  IInv'
<1> USE EngineAssumption DEF IInv
<1>1. /\ UNCHANGED <<prepared, stepsToTarget, circuit, gate, call, recent>>
      /\ gateAmount' = on /\ SetTarget(v)
  BY DEF SetControls
<1>2. /\ current' \in Pot /\ target' \in Pot /\ countdown' \in 0..RampSteps
      /\ prepared => current' = current
      /\ RampLands'
  BY <1>1 DEF SetTarget, TypeOK, ControlOK, RampLands
<1>3. TypeOK'
  BY <1>1, <1>2 DEF TypeOK, circuit, gate, call
<1>4. ControlOK' /\ StartsAtRest' /\ UpdateOK' /\ HoldOK'
  BY <1>1, <1>2 DEF ControlOK, StartsAtRest, UpdateOK, HoldOK, circuit, gate, call
<1> QED
  BY <1>2, <1>3, <1>4

LEMMA ProcessInv == ASSUME IInv, Process PROVE IInv'
<1> USE EngineAssumption DEF IInv
<1>1. /\ enabled' = gateAmount /\ pc' = "gate" /\ prepared
      /\ UNCHANGED <<prepared, smoother, circuit, gateAmount, env, gain, holdCtr, since,
                     recent>>
  BY DEF Process
<1>2. gateLeft' \in Nat /\ gateLeft' > 0 /\ circuitLeft' \in Nat /\ circuitLeft' > 0
  <2>1. PICK numSamples \in CallSizes :
          gateLeft' = numSamples /\ circuitLeft' = Factor * numSamples
    BY DEF Process
  <2>2. numSamples \in Nat \ {0} /\ Factor \in Nat \ {0}
    OBVIOUS
  <2>3. Factor * numSamples \in Nat \ {0}
    BY <2>2
  <2> QED
    BY <2>1, <2>2, <2>3
<1>3. TypeOK'
  BY <1>1, <1>2 DEF TypeOK, smoother, circuit
<1>4. ControlOK' /\ StartsAtRest' /\ UpdateOK' /\ RampLands' /\ HoldOK'
  BY <1>1, <1>2 DEF ControlOK, StartsAtRest, UpdateOK, RampLands, HoldOK, smoother, circuit
<1> QED
  BY <1>3, <1>4

\* The gate's part of a sample; it closes only once the hold has run down.
LEMMA GateSampleInv ==
  ASSUME IInv, GateSample
  PROVE  IInv' /\ (gain' < gain => since >= HoldN)
<1> USE EngineAssumption DEF IInv
<1>1. PICK e \in {"quiet", "between", "loud"} : GateStep(e)
  BY DEF GateSample
<1>2. /\ env' \in {"quiet", "between", "loud"}
      /\ gain' \in 0..Full /\ holdCtr' \in 0..HoldN /\ since' \in 0..HoldN
      /\ HoldOK'
      /\ gain' < gain => since >= HoldN
  <2>1. CASE ~enabled
    BY <1>1, <2>1 DEF GateStep, TypeOK, HoldOK
  <2>2. CASE enabled /\ e = "loud"
    BY <1>1, <2>2 DEF GateStep, Attack, Trigger, TypeOK, HoldOK
  <2>3. CASE enabled /\ e # "loud" /\ (e = "between" \/ holdCtr > 0)
    BY <1>1, <2>3 DEF GateStep, TypeOK, HoldOK
  <2>4. CASE enabled /\ e # "loud" /\ ~(e = "between" \/ holdCtr > 0)
    BY <1>1, <2>4 DEF GateStep, Release, ReleaseTail, TypeOK, HoldOK
  <2> QED
    BY <2>1, <2>2, <2>3, <2>4
<1>3. /\ UNCHANGED <<prepared, smoother, circuit, gateAmount, enabled, circuitLeft, recent>>
      /\ gateLeft' = gateLeft - 1 /\ pc = "gate"
      /\ pc' = IF gateLeft > 1 THEN "gate" ELSE "circuit"
  BY DEF GateSample
<1>4. TypeOK'
  BY <1>2, <1>3 DEF TypeOK, ControlOK, smoother, circuit
<1>5. ControlOK' /\ StartsAtRest' /\ UpdateOK' /\ RampLands'
  BY <1>3 DEF ControlOK, StartsAtRest, UpdateOK, RampLands, smoother, circuit, TypeOK
<1> QED
  BY <1>2, <1>4, <1>5

\* The circuit's part: every position moves one place down in what is recent, as the
\* update counter does.
LEMMA CircuitSampleInv == ASSUME IInv, CircuitSample PROVE IInv'
<1> USE EngineAssumption DEF IInv
<1>1. PICK v \in Pot :
        /\ NextValue(v)
        /\ recent' = [i \in 0..Interval-1 |-> IF i = 0 THEN v ELSE recent[i - 1]]
        /\ IF Due THEN knobCountdown' = Interval /\ circuitKnobs' = v
                  ELSE knobCountdown' = knobCountdown - 1 /\ UNCHANGED circuitKnobs
  BY DEF CircuitSample
<1>2. /\ atRest' = FALSE /\ circuitLeft' = circuitLeft - 1 /\ pc = "circuit"
      /\ pc' = IF circuitLeft > 1 THEN "circuit" ELSE "out"
      /\ UNCHANGED <<prepared, target, stepsToTarget, dcKnobs, gateAmount, gate, gateLeft>>
  BY DEF CircuitSample
<1>3. current' \in Pot /\ countdown' \in 0..RampSteps /\ RampLands'
  BY <1>1, <1>2 DEF NextValue, Between, TypeOK, RampLands
<1>4. recent' \in [0..Interval-1 -> Pot]
  BY <1>1 DEF TypeOK
<1>5. knobCountdown' \in 1..Interval /\ circuitKnobs' \in Pot
      /\ circuitKnobs' = recent'[Interval - knobCountdown']
  <2>1. CASE Due
    BY <1>1, <2>1 DEF TypeOK
  <2>2. CASE ~Due
    <3>1. knobCountdown \in 2..Interval /\ knobCountdown' = knobCountdown - 1
      BY <1>1, <2>2 DEF Due, TypeOK
    <3>2. circuitKnobs' = recent[Interval - knobCountdown]
      BY <1>1, <1>2, <2>2, <3>1 DEF UpdateOK, ControlOK
    <3>3. recent'[Interval - knobCountdown'] = recent[Interval - knobCountdown]
      BY <1>1, <3>1
    <3> QED
      BY <1>1, <2>2, <3>1, <3>2, <3>3 DEF TypeOK
  <2> QED
    BY <2>1, <2>2
<1>6. TypeOK'
  <2>1. /\ prepared' \in BOOLEAN /\ atRest' \in BOOLEAN
        /\ gateAmount' \in BOOLEAN /\ enabled' \in BOOLEAN
    BY <1>2, <1>3, <1>4, <1>5 DEF TypeOK, ControlOK, gate
  <2>2. /\ current' \in Pot /\ target' \in Pot
        /\ circuitKnobs' \in Pot /\ dcKnobs' \in Pot
        /\ countdown' \in 0..RampSteps /\ stepsToTarget' \in {0, RampSteps}
        /\ knobCountdown' \in 0..Interval
    BY <1>2, <1>3, <1>5 DEF TypeOK
  <2>3. /\ gain' \in 0..Full /\ holdCtr' \in 0..HoldN /\ since' \in 0..HoldN
        /\ gateLeft' \in Nat /\ circuitLeft' \in Nat
    BY <1>2 DEF TypeOK, ControlOK, gate
  <2>4. /\ env' \in {"quiet", "between", "loud"}
        /\ pc' \in {"out", "gate", "circuit"}
        /\ recent' \in [0..Interval-1 -> Pot]
    BY <1>2, <1>3, <1>4, <1>5 DEF TypeOK, ControlOK, gate
  <2> QED
    BY <2>1, <2>2, <2>3, <2>4 DEF TypeOK
<1>7. ControlOK' /\ StartsAtRest' /\ UpdateOK' /\ HoldOK'
  BY <1>2, <1>5 DEF ControlOK, StartsAtRest, UpdateOK, HoldOK, gate, TypeOK
<1> QED
  BY <1>3, <1>6, <1>7

\* The inductive invariant holds of every reachable state.
LEMMA Inductive == Spec => []IInv
<1>1. IInv /\ UNCHANGED vars => IInv'
  BY DEF IInv, TypeOK, ControlOK, StartsAtRest, UpdateOK, RampLands, HoldOK,
         vars, smoother, circuit, gate, call
<1>2. IInv /\ [Next]_vars => IInv'
  BY <1>1, RestInv, SetControlsInv, ProcessInv, GateSampleInv, CircuitSampleInv DEF Next
<1> QED
  BY <1>2, InitInv, PTL DEF Spec

-----------------------------------------------------------------------------
\* The pot, the counters and the gate keep their types and ranges.
THEOREM TypeCorrect == Spec => []TypeOK
  BY Inductive, PTL DEF IInv

\* After prepare and reset the circuit is at rest at the knobs it will run at.
THEOREM EngineStartsAtRest == Spec => []StartsAtRest
  BY Inductive, PTL DEF IInv

\* The circuit's knobs lag the pot by less than the update interval.
THEOREM KnobsLagBounded == Spec => []KnobsAreRecent
<1>1. IInv => KnobsAreRecent
  <2> SUFFICES ASSUME IInv, prepared PROVE \E i \in 0..Interval-1 : circuitKnobs = recent[i]
    BY DEF KnobsAreRecent
  <2>1. (IF knobCountdown = 0 THEN 0 ELSE Interval - knobCountdown) \in 0..Interval-1
    BY EngineAssumption DEF IInv, TypeOK
  <2> QED
    BY <2>1 DEF IInv, UpdateOK
<1> QED
  BY <1>1, Inductive, PTL

\* Every ramp lands on its target.
THEOREM RampsLand == Spec => []RampLands
  BY Inductive, PTL DEF IInv

\* The gate holds for HoldN samples after every trigger.
THEOREM GateHoldsAlways == Spec => GateHolds
<1>1. IInv /\ [Next]_vars => [gain' < gain => since >= HoldN]_vars
  <2> SUFFICES ASSUME IInv, Next PROVE gain' < gain => since >= HoldN
    OBVIOUS
  <2>1. CASE GateSample
    BY <2>1, GateSampleInv
  <2>2. CASE Prepare \/ Reset
    BY <2>2, EngineAssumption DEF Prepare, Reset, Rest, ResetGate, IInv, TypeOK
  <2>3. CASE (\E v \in Pot, on \in BOOLEAN : SetControls(v, on)) \/ Process \/ CircuitSample
    BY <2>3 DEF SetControls, Process, CircuitSample, gate, IInv, TypeOK
  <2> QED
    BY <2>1, <2>2, <2>3 DEF Next
<1> QED
  BY <1>1, Inductive, PTL DEF Spec, GateHolds

-----------------------------------------------------------------------------
(* The oversampler. A block is followed through each stage by a run of the   *)
(* stage's cascades over the whole signal, from rest: the stage at (j, l) is *)
(* what such runs hold after j samples up and l pairs down. A block in       *)
(* either direction moves it along them and puts out the samples that the    *)
(* reference filter has there. Runs exist because sets of numbers have a     *)
(* least element: what no number is the least to lack, all have.             *)

\* A set of numbers that is not empty has a least one.
LEMMA LeastNumber ==
  ASSUME NEW T, T \subseteq Nat, T # {}
  PROVE  \E i \in T : \A j \in T : i <= j
<1> DEFINE R == OpToRel(<, Nat)
<1>1. IsWellFoundedOn(R, Nat)
  BY NatLessThanWellFounded
<1>2. \A i, j \in Nat : i < j => <<i, j>> \in R
  BY DEF OpToRel
<1> HIDE DEF R
<1>3. PICK i \in T : \A j \in T : ~(<<j, i>> \in R)
  BY <1>1, WFMin
<1>4. \A j \in T : ~(j < i) /\ i \in Nat /\ j \in Nat
  BY <1>2, <1>3
<1> QED
  BY <1>4

\* Induction up to a number, over the set of the numbers it has been shown of.
LEMMA UpTo ==
  ASSUME NEW b \in Int, NEW m \in Int, NEW G,
         b <= m => b \in G, \A k \in b..m : k # b /\ k - 1 \in G => k \in G
  PROVE  \A k \in b..m : k \in G
<1> DEFINE Lack == {k \in Nat : b + k <= m /\ b + k \notin G}
<1> SUFFICES ASSUME Lack # {} PROVE FALSE
  <2>1. ASSUME NEW k \in b..m, k \notin G PROVE k - b \in Lack
    BY <2>1
  <2> QED
    BY <2>1
<1>1. PICK k \in Lack : \A j \in Lack : k <= j
  <2>1. Lack \subseteq Nat
    OBVIOUS
  <2> HIDE DEF Lack
  <2> QED
    BY <2>1, LeastNumber
<1>2. k # 0 /\ b + k \in b..m
  OBVIOUS
<1>3. k - 1 \in Nat /\ ~(k <= k - 1) /\ b + (k - 1) = b + k - 1 /\ b + k - 1 <= m
  BY <1>2
<1>4. k - 1 \in Lack
  BY <1>2, <1>3
<1> QED
  BY <1>1, <1>3, <1>4

\* The functions on b..m with the value first at b, and each next one by the step there.
Runs(b, m, S, first, step) ==
  { f \in [b..m -> S] :
      \A i \in b..m : f[i] = IF i = b THEN first ELSE step[i][f[i - 1]] }

\* What is defined by its first value and its steps exists.
LEMMA Recursion ==
  ASSUME NEW S, NEW b \in Int, NEW m \in Int, b <= m, NEW first \in S,
         NEW step \in [b..m -> [S -> S]]
  PROVE  Runs(b, m, S, first, step) # {}
<1> DEFINE Is(f, k) ==
             f \in [b..k -> S] /\ \A i \in b..k : f[i] = IF i = b THEN first ELSE step[i][f[i - 1]]
           G == {k \in b..m : \E f : Is(f, k)}
<1>1. b \in G
  <2> DEFINE f == [i \in b..b |-> first]
  <2>1. f \in [b..b -> S] /\ \A i \in b..b : i = b /\ f[i] = first
    OBVIOUS
  <2>2. Is(f, b)
    BY <2>1
  <2> HIDE DEF f, Is
  <2> QED
    BY <2>2
<1>2. ASSUME NEW k \in b..m, k # b, k - 1 \in G
      PROVE  k \in G
  <2>1. PICK f : Is(f, k - 1)
    BY <1>2
  <2>2. f[k - 1] \in S /\ step[k][f[k - 1]] \in S
    BY <1>2, <2>1
  <2> DEFINE g == [i \in b..k |-> IF i = k THEN step[k][f[k - 1]] ELSE f[i]]
  <2>3. g \in [b..k -> S]
    BY <2>1, <2>2
  <2>4. ASSUME NEW i \in b..k
        PROVE  g[i] = IF i = b THEN first ELSE step[i][g[i - 1]]
    <3>1. CASE i = k
      BY <1>2, <3>1
    <3>2. CASE i # k
      <4>1. i \in b..k - 1 /\ g[i] = f[i] /\ (i # b => g[i - 1] = f[i - 1])
        BY <3>2
      <4> QED
        BY <2>1, <4>1
    <3> QED
      BY <3>1, <3>2
  <2>5. Is(g, k)
    BY <2>3, <2>4
  <2> HIDE DEF Is, g
  <2> QED
    BY <1>2, <2>5
<1>3. \A k \in b..m : k \in G
  <2> HIDE DEF G
  <2> QED
    BY <1>1, <1>2, UpTo
<1>4. PICK f : Is(f, m)
  BY <1>3
<1> QED
  BY <1>4 DEF Runs

-----------------------------------------------------------------------------
(* Cascades *)

Tab == Seq(Int) \ {<<>>}
Sections == [x1 : Int, y1 : Int]
States(table) == [1..Len(table) -> Sections]

LEMMA TabType ==
  ASSUME NEW table \in Tab
  PROVE  /\ Len(table) \in Nat /\ 1 <= Len(table)
         /\ \A i \in 1..Len(table) : table[i] \in Int
<1>1. table \in Seq(Int) /\ table # <<>>
  BY DEF Tab
<1> QED
  BY <1>1, EmptySeq, LenProperties, ElementOfSeq

LEMMA SectionType ==
  ASSUME NEW s \in Sections, NEW x \in Int, NEW a \in Int
  PROVE  Section(s, x, a) \in Sections
<1>1. s.x1 \in Int /\ s.y1 \in Int
  BY DEF Sections
<1>2. a * (x - s.y1) + s.x1 \in Int
  BY <1>1
<1> QED
  BY <1>2 DEF Section, Sections

\* Each section is given what the one before it returns.
LEMMA CascadeIs ==
  ASSUME NEW table \in Tab, NEW s \in States(table), NEW x \in Int
  PROVE  /\ Cascade(s, table, x) \in States(table)
         /\ \A i \in 1..Len(table) : Cascade(s, table, x)[i] =
              Section(s[i], IF i = 1 THEN x ELSE Cascade(s, table, x)[i - 1].y1, table[i])
<1> DEFINE n == Len(table)
           after == CHOOSE after : after = [i \in 1..Len(table) |->
             Section(s[i], IF i = 1 THEN x ELSE after[i - 1].y1, table[i])]
           step == [i \in 1..n |-> [r \in Sections |-> Section(s[i], r.y1, table[i])]]
           first == Section(s[1], x, table[1])
<1>1. /\ n \in Nat /\ 1 <= n /\ 1 \in Int /\ n \in Int
      /\ \A i \in 1..n : table[i] \in Int /\ s[i] \in Sections
  BY TabType DEF States
<1>2. \A i \in 1..n, r \in Sections : Section(s[i], r.y1, table[i]) \in Sections
  <2> TAKE i \in 1..n, r \in Sections
  <2>1. r.y1 \in Int
    BY DEF Sections
  <2> QED
    BY <1>1, <2>1, SectionType
<1>3. /\ step \in [1..n -> [Sections -> Sections]]
      /\ \A i \in 1..n, r \in Sections : step[i][r] = Section(s[i], r.y1, table[i])
  BY <1>2
<1>4. first \in Sections
  BY <1>1, SectionType
<1>5. PICK f \in [1..n -> Sections] :
        \A i \in 1..n : f[i] = IF i = 1 THEN first ELSE step[i][f[i - 1]]
  <2> HIDE DEF step, n, first
  <2>1. Runs(1, n, Sections, first, step) # {}
    BY <1>1, <1>3, <1>4, Recursion
  <2> QED
    BY <2>1 DEF Runs
<1> HIDE DEF step
<1>6. \A i \in 1..n : f[i] = Section(s[i], IF i = 1 THEN x ELSE f[i - 1].y1, table[i])
  <2> TAKE i \in 1..n
  <2>1. CASE i = 1
    BY <1>5, <2>1
  <2>2. CASE i # 1
    <3>1. f[i - 1] \in Sections
      BY <1>1, <1>5, <2>2
    <3> QED
      BY <1>3, <1>5, <2>2, <3>1
  <2> QED
    BY <2>1, <2>2
<1>7. f = [i \in 1..Len(table) |-> Section(s[i], IF i = 1 THEN x ELSE f[i - 1].y1, table[i])]
  BY <1>5, <1>6
<1>8. after = [i \in 1..Len(table) |->
        Section(s[i], IF i = 1 THEN x ELSE after[i - 1].y1, table[i])]
  BY <1>7
<1>9. Cascade(s, table, x) = after
  BY DEF Cascade
<1> HIDE DEF after
<1>10. \A i \in 1..n : after[i] = Section(s[i], IF i = 1 THEN x ELSE after[i - 1].y1, table[i])
  BY <1>8, Zenon
<1>11. \A i \in 1..n : after[i] \in Sections
  <2> DEFINE G == {i \in 1..n : after[i] \in Sections}
  <2>1. 1 \in G
    BY <1>1, <1>4, <1>10
  <2>2. \A i \in 1..n : i # 1 /\ i - 1 \in G => i \in G
    <3> SUFFICES ASSUME NEW i \in 1..n, i # 1, after[i - 1] \in Sections
                 PROVE  after[i] \in Sections
      OBVIOUS
    <3>1. after[i - 1].y1 \in Int
      BY DEF Sections
    <3> QED
      BY <1>1, <1>10, <3>1, SectionType
  <2> HIDE DEF G, n
  <2>3. \A i \in 1..n : i \in G
    BY <1>1, <2>1, <2>2, UpTo
  <2> QED
    BY <2>3 DEF G
<1>12. after \in [1..n -> Sections]
  BY <1>8, <1>11
<1> QED
  BY <1>9, <1>10, <1>12 DEF States

\* A cascade that runs through x, from state s.
Through(table, s, x) ==
  { f \in [0..Len(x) -> States(table)] :
      /\ f[0] = s
      /\ \A k \in 1..Len(x) : f[k] = Cascade(f[k - 1], table, x[k]) }

LEMMA RunExists ==
  ASSUME NEW table \in Tab, NEW s \in States(table), NEW x \in Seq(Int)
  PROVE  Through(table, s, x) # {}
<1> DEFINE n == Len(x)
           step == [k \in 0..n |-> [r \in States(table) |-> IF k = 0 THEN r ELSE Cascade(r, table, x[k])]]
<1>1. n \in Nat /\ 0 \in Int /\ n \in Int /\ 0 <= n /\ \A k \in 1..n : x[k] \in Int
  BY LenProperties, ElementOfSeq
<1>2. \A k \in 1..n, r \in States(table) : Cascade(r, table, x[k]) \in States(table)
  BY <1>1, CascadeIs
<1>3. /\ step \in [0..n -> [States(table) -> States(table)]]
      /\ \A k \in 1..n, r \in States(table) : step[k][r] = Cascade(r, table, x[k])
  BY <1>1, <1>2
<1>4. PICK f \in [0..n -> States(table)] :
        \A k \in 0..n : f[k] = IF k = 0 THEN s ELSE step[k][f[k - 1]]
  <2> HIDE DEF step, n
  <2>1. Runs(0, n, States(table), s, step) # {}
    BY <1>1, <1>3, Recursion
  <2> QED
    BY <2>1 DEF Runs
<1> HIDE DEF step
<1>5. f[0] = s
  BY <1>1, <1>4
<1>6. \A k \in 1..n : f[k] = Cascade(f[k - 1], table, x[k])
  <2> TAKE k \in 1..n
  <2>1. f[k - 1] \in States(table) /\ k # 0 /\ k \in 0..n
    BY <1>1, <1>4
  <2> QED
    BY <1>3, <1>4, <2>1
<1> QED
  BY <1>4, <1>5, <1>6 DEF Through

\* Silence leaves a cascade at rest.
LEMMA StaysAtRest ==
  ASSUME NEW table \in Tab
  PROVE  /\ AtRest(table) \in States(table)
         /\ Cascade(AtRest(table), table, 0) = AtRest(table)
         /\ Last(AtRest(table), table) = 0
<1> DEFINE n == Len(table)
           c == Cascade(AtRest(table), table, 0)
           z == [x1 |-> 0, y1 |-> 0]
<1>1. n \in Nat /\ 1 <= n /\ 1 \in Int /\ n \in Int /\ \A i \in 1..n : table[i] \in Int
  BY TabType
<1>2. /\ AtRest(table) \in States(table)
      /\ \A i \in 1..n : AtRest(table)[i] = z
  BY DEF AtRest, States, Sections
<1>3. \A a \in Int : Section(z, 0, a) = z
  BY DEF Section
<1>4. /\ c \in States(table)
      /\ \A i \in 1..n : c[i] = Section(AtRest(table)[i], IF i = 1 THEN 0 ELSE c[i - 1].y1, table[i])
  BY <1>2, CascadeIs
<1>5. z.y1 = 0
  OBVIOUS
<1> HIDE DEF c, z
<1>6. \A i \in 1..n : c[i] = z
  <2> DEFINE G == {i \in 1..n : c[i] = z}
  <2>1. 1 \in G
    BY <1>1, <1>2, <1>3, <1>4
  <2>2. \A i \in 1..n : i # 1 /\ i - 1 \in G => i \in G
    BY <1>1, <1>2, <1>3, <1>4, <1>5
  <2> HIDE DEF G, n
  <2>3. \A i \in 1..n : i \in G
    BY <1>1, <2>1, <2>2, UpTo
  <2> QED
    BY <2>3 DEF G
<1>7. c = AtRest(table)
  BY <1>2, <1>4, <1>6 DEF States
<1> QED
  BY <1>1, <1>2, <1>5, <1>7 DEF c, Last

\* What section i of a cascade is given at the k-th sample.
Given(x, f, i, k) == IF i = 1 THEN x[k] ELSE f[k][i - 1].y1

\* A cascade from rest, section by section.
LEMMA RunIs ==
  ASSUME NEW table \in Tab, NEW x \in Seq(Int), NEW f \in Through(table, AtRest(table), x)
  PROVE  /\ f \in [0..Len(x) -> States(table)]
         /\ \A k \in 0..Len(x) : Last(f[k], table) \in Int
         /\ \A k \in 1..Len(x), i \in 1..Len(table) :
              /\ Given(x, f, i, k) \in Int /\ f[k][i].y1 \in Int
              /\ f[k][i].y1 =
                   IF k > 1 THEN table[i] * (Given(x, f, i, k) - f[k - 1][i].y1) + Given(x, f, i, k - 1)
                   ELSE table[i] * Given(x, f, i, k)
<1> DEFINE n == Len(x)
           m == Len(table)
<1>1. /\ n \in Nat /\ m \in Nat /\ 1 <= m
      /\ \A i \in 1..m : table[i] \in Int
      /\ \A k \in 1..n : x[k] \in Int
  BY TabType, LenProperties, ElementOfSeq
<1>2. f \in [0..n -> States(table)] /\ f[0] = AtRest(table)
      /\ \A k \in 1..n : f[k] = Cascade(f[k - 1], table, x[k])
  BY DEF Through
<1>3. \A k \in 0..n, i \in 1..m : f[k][i] \in Sections /\ f[k][i].x1 \in Int /\ f[k][i].y1 \in Int
  BY <1>2 DEF States, Sections
<1>4. \A k \in 1..n, i \in 1..m : Given(x, f, i, k) \in Int
  BY <1>1, <1>3 DEF Given
<1>5. \A k \in 1..n, i \in 1..m : f[k][i] = Section(f[k - 1][i], Given(x, f, i, k), table[i])
  <2> TAKE k \in 1..n, i \in 1..m
  <2>1. k - 1 \in 0..n /\ x[k] \in Int /\ f[k] = Cascade(f[k - 1], table, x[k])
    BY <1>1, <1>2
  <2>2. f[k - 1] \in States(table)
    BY <1>2, <2>1
  <2>3. \A j \in 1..m : Cascade(f[k - 1], table, x[k])[j] = Section(f[k - 1][j],
          IF j = 1 THEN x[k] ELSE Cascade(f[k - 1], table, x[k])[j - 1].y1, table[j])
    BY <2>1, <2>2, CascadeIs
  <2>4. f[k][i] = Section(f[k - 1][i], IF i = 1 THEN x[k] ELSE f[k][i - 1].y1, table[i])
    BY <2>1, <2>3
  <2> QED
    BY <2>4 DEF Given
<1>6. \A k \in 1..n, i \in 1..m :
        /\ f[k][i].x1 = Given(x, f, i, k)
        /\ f[k][i].y1 = table[i] * (Given(x, f, i, k) - f[k - 1][i].y1) + f[k - 1][i].x1
  <2>1. \A s, v, a : Section(s, v, a).x1 = v /\ Section(s, v, a).y1 = a * (v - s.y1) + s.x1
    BY DEF Section
  <2> QED
    BY <1>5, <2>1
<1>7. \A i \in 1..m : f[0][i].x1 = 0 /\ f[0][i].y1 = 0
  BY <1>2 DEF AtRest
<1>8. ASSUME NEW k \in 1..n, NEW i \in 1..m
      PROVE  f[k][i].y1 =
               IF k > 1 THEN table[i] * (Given(x, f, i, k) - f[k - 1][i].y1) + Given(x, f, i, k - 1)
               ELSE table[i] * Given(x, f, i, k)
  <2>1. CASE k > 1
    <3>1. k - 1 \in 1..n
      BY <1>1, <2>1
    <3> QED
      BY <1>6, <2>1, <3>1
  <2>2. CASE k = 1
    <3>1. k - 1 = 0
      BY <2>2
    <3>2. f[k][i].y1 = table[i] * (Given(x, f, i, k) - 0) + 0
      BY <1>6, <1>7, <3>1
    <3>3. \A a, v \in Int : a * (v - 0) + 0 = a * v
      OBVIOUS
    <3> QED
      BY <1>1, <1>4, <2>2, <3>2, <3>3
  <2> QED
    BY <1>1, <2>1, <2>2
<1>9. \A k \in 0..n : Last(f[k], table) \in Int
  BY <1>1, <1>3 DEF Last
<1>10. \A k \in 1..n, i \in 1..m :
         /\ Given(x, f, i, k) \in Int /\ f[k][i].y1 \in Int
         /\ f[k][i].y1 =
              IF k > 1 THEN table[i] * (Given(x, f, i, k) - f[k - 1][i].y1) + Given(x, f, i, k - 1)
              ELSE table[i] * Given(x, f, i, k)
  <2> TAKE k \in 1..n, i \in 1..m
  <2>1. k \in 0..n
    BY <1>1
  <2> HIDE DEF n, m
  <2> QED
    BY <1>3, <1>4, <1>8, <2>1
<1> QED
  BY <1>2, <1>9, <1>10

\* A sequence given by its samples.
LEMMA FunIsSeq ==
  ASSUME NEW S, NEW n \in Nat, NEW f \in [1..n -> S]
  PROVE  f \in Seq(S) /\ Len(f) = n /\ DOMAIN f = 1..n
<1>1. f \in Seq(S)
  BY SeqDef
<1>2. DOMAIN f = 1..Len(f) /\ Len(f) \in Nat
  BY <1>1, LenProperties
<1> QED
  BY <1>1, <1>2

\* The one signal that a section makes of u.
LEMMA AllpassIs ==
  ASSUME NEW n \in Nat, NEW u \in [1..n -> Int], NEW w \in [1..n -> Int], NEW a \in Int,
         \A t \in 1..n : w[t] = IF t > 2 THEN a * (u[t] - w[t - 2]) + u[t - 2] ELSE a * u[t]
  PROVE  Allpass(a, u) = w
<1> DEFINE y == CHOOSE y : y = [t \in 1..Len(u) |->
                  IF t > 2 THEN a * (u[t] - y[t - 2]) + u[t - 2] ELSE a * u[t]]
<1>1. Len(u) = n
  BY FunIsSeq
<1>2. w = [t \in 1..Len(u) |-> IF t > 2 THEN a * (u[t] - w[t - 2]) + u[t - 2] ELSE a * u[t]]
  BY <1>1
<1>3. y = [t \in 1..Len(u) |-> IF t > 2 THEN a * (u[t] - y[t - 2]) + u[t - 2] ELSE a * u[t]]
  BY <1>2
<1>4. Allpass(a, u) = y
  BY DEF Allpass
<1> HIDE DEF y
<1>5. \A t \in 1..n : y[t] = IF t > 2 THEN a * (u[t] - y[t - 2]) + u[t - 2] ELSE a * u[t]
  BY <1>1, <1>3, Zenon
<1> DEFINE G == {t \in 0..n : \A k \in 1..n : k <= t => y[k] = w[k]}
<1>6. 0 \in G
  OBVIOUS
<1>7. \A t \in 0..n : t # 0 /\ t - 1 \in G => t \in G
  <2> SUFFICES ASSUME NEW t \in 1..n, \A k \in 1..n : k <= t - 1 => y[k] = w[k]
               PROVE  y[t] = w[t]
    OBVIOUS
  <2>1. CASE t > 2
    <3>1. t - 2 \in 1..n /\ t - 2 <= t - 1
      BY <2>1
    <3>2. y[t - 2] = w[t - 2]
      BY <3>1
    <3> QED
      BY <1>5, <2>1, <3>2
  <2>2. CASE ~(t > 2)
    BY <1>5, <2>2
  <2> QED
    BY <2>1, <2>2
<1>8. \A t \in 0..n : t \in G
  <2>1. 0 \in Int /\ n \in Int
    OBVIOUS
  <2> HIDE DEF G
  <2> QED
    BY <1>6, <1>7, <2>1, UpTo
<1>9. \A t \in 1..n : y[t] = w[t]
  <2>1. n \in G
    <3>1. n \in 0..n
      OBVIOUS
    <3> HIDE DEF G
    <3> QED
      BY <1>8, <3>1
  <2> QED
    BY <2>1
<1>10. y = w
  BY <1>1, <1>3, <1>9
<1> QED
  BY <1>4, <1>10

\* The signal whose samples are in turn those of a and of b.
Merged(a, b) == [t \in 1..2 * Len(a) |-> IF t % 2 = 1 THEN a[(t + 1) \div 2] ELSE b[t \div 2]]

LEMMA MergedIs ==
  ASSUME NEW a \in Seq(Int), NEW b \in Seq(Int), Len(a) = Len(b)
  PROVE  /\ Merged(a, b) \in Seq(Int) /\ Len(Merged(a, b)) = 2 * Len(a)
         /\ Merged(a, b) \in [1..2 * Len(a) -> Int]
         /\ \A k \in 1..Len(a) : Merged(a, b)[2 * k - 1] = a[k] /\ Merged(a, b)[2 * k] = b[k]
<1> DEFINE n == Len(a)
<1>1. /\ n \in Nat /\ 2 * n \in Nat
      /\ \A k \in 1..n : a[k] \in Int /\ b[k] \in Int
  BY LenProperties, ElementOfSeq
<1>2. \A t \in 1..2 * n : /\ t % 2 = 1 => (t + 1) \div 2 \in 1..n
                          /\ t % 2 # 1 => t \div 2 \in 1..n
  BY <1>1
<1>3. Merged(a, b) \in [1..2 * n -> Int]
  BY <1>1, <1>2 DEF Merged
<1>4. \A k \in 1..n : /\ 2 * k - 1 \in 1..2 * n /\ 2 * k \in 1..2 * n
                      /\ (2 * k - 1) % 2 = 1 /\ ((2 * k - 1) + 1) \div 2 = k
                      /\ (2 * k) % 2 # 1 /\ (2 * k) \div 2 = k
  BY <1>1
<1>5. \A k \in 1..n : Merged(a, b)[2 * k - 1] = a[k] /\ Merged(a, b)[2 * k] = b[k]
  BY <1>4 DEF Merged
<1> QED
  <2>1. Merged(a, b) \in Seq(Int) /\ Len(Merged(a, b)) = 2 * n
    <3> DEFINE m == 2 * n
               f == Merged(a, b)
    <3>1. m \in Nat /\ f \in [1..m -> Int]
      BY <1>1, <1>3
    <3> HIDE DEF m, f
    <3>2. f \in Seq(Int) /\ Len(f) = m
      BY <3>1, FunIsSeq
    <3> QED
      BY <3>2 DEF m, f
  <2> QED
    BY <1>3, <1>5, <2>1

\* Every place in such a signal is one of the two.
LEMMA Places ==
  ASSUME NEW n \in Nat, NEW t \in 1..2 * n
  PROVE  \E k \in 1..n : t = 2 * k - 1 \/ t = 2 * k
<1>1. CASE t % 2 = 1
  <2>1. (t + 1) \div 2 \in 1..n /\ t = 2 * ((t + 1) \div 2) - 1
    BY <1>1
  <2> QED
    BY <2>1
<1>2. CASE t % 2 # 1
  <2>1. t \div 2 \in 1..n /\ t = 2 * (t \div 2)
    BY <1>2
  <2> QED
    BY <2>1
<1> QED
  BY <1>1, <1>2

\* A cascade at z^2 is the cascade on every second sample, twice.
LEMMA AllpassesIs ==
  ASSUME NEW table \in Tab, NEW a \in Seq(Int), NEW b \in Seq(Int), Len(a) = Len(b),
         NEW f \in Through(table, AtRest(table), a), NEW g \in Through(table, AtRest(table), b)
  PROVE  /\ Allpasses(table, Merged(a, b)) \in [1..2 * Len(a) -> Int]
         /\ \A k \in 1..Len(a) :
              /\ Allpasses(table, Merged(a, b))[2 * k - 1] = Last(f[k], table)
              /\ Allpasses(table, Merged(a, b))[2 * k] = Last(g[k], table)
<1> DEFINE n == Len(a)
           m == Len(table)
           u == Merged(a, b)
           F(i) == [k \in 1..n |-> IF i = 0 THEN a[k] ELSE f[k][i].y1]
           H(i) == [k \in 1..n |-> IF i = 0 THEN b[k] ELSE g[k][i].y1]
           row(i) == Merged(F(i), H(i))
           v == CHOOSE v : v = [i \in 0..Len(table) |->
                  IF i = 0 THEN u ELSE Allpass(table[i], v[i - 1])]
<1>1. /\ n \in Nat /\ n = Len(b) /\ m \in Nat /\ 1 <= m /\ 2 * n \in Nat
      /\ \A i \in 1..m : table[i] \in Int
      /\ \A k \in 1..n : a[k] \in Int /\ b[k] \in Int
  BY TabType, LenProperties, ElementOfSeq
<1>2. \A k \in 1..n, i \in 1..m :
        /\ f[k][i].y1 \in Int /\ Given(a, f, i, k) \in Int
        /\ f[k][i].y1 =
             IF k > 1 THEN table[i] * (Given(a, f, i, k) - f[k - 1][i].y1) + Given(a, f, i, k - 1)
             ELSE table[i] * Given(a, f, i, k)
  BY RunIs
<1>3. \A k \in 1..n, i \in 1..m :
        /\ g[k][i].y1 \in Int /\ Given(b, g, i, k) \in Int
        /\ g[k][i].y1 =
             IF k > 1 THEN table[i] * (Given(b, g, i, k) - g[k - 1][i].y1) + Given(b, g, i, k - 1)
             ELSE table[i] * Given(b, g, i, k)
  BY <1>1, RunIs
<1>4. \A i \in 0..m : /\ F(i) \in Seq(Int) /\ Len(F(i)) = n
                      /\ H(i) \in Seq(Int) /\ Len(H(i)) = n
  <2> TAKE i \in 0..m
  <2>1. \A k \in 1..n : /\ (IF i = 0 THEN a[k] ELSE f[k][i].y1) \in Int
                        /\ (IF i = 0 THEN b[k] ELSE g[k][i].y1) \in Int
    <3>1. CASE i = 0
      BY <1>1, <3>1
    <3>2. CASE i # 0
      <4>1. i \in 1..m
        BY <3>2
      <4> QED
        BY <1>2, <1>3, <3>2, <4>1
    <3> QED
      BY <3>1, <3>2
  <2>2. F(i) \in [1..n -> Int] /\ H(i) \in [1..n -> Int]
    BY <2>1
  <2> HIDE DEF F, H
  <2> QED
    BY <1>1, <2>2, FunIsSeq
<1>5. \A i \in 0..m :
        /\ row(i) \in [1..2 * n -> Int]
        /\ \A k \in 1..n : row(i)[2 * k - 1] = F(i)[k] /\ row(i)[2 * k] = H(i)[k]
  <2> HIDE DEF F, H
  <2> TAKE i \in 0..m
  <2>1. F(i) \in Seq(Int) /\ H(i) \in Seq(Int) /\ Len(F(i)) = Len(H(i)) /\ Len(F(i)) = n
    BY <1>4
  <2>2. /\ row(i) \in [1..2 * Len(F(i)) -> Int]
        /\ \A k \in 1..Len(F(i)) : row(i)[2 * k - 1] = F(i)[k] /\ row(i)[2 * k] = H(i)[k]
    BY <2>1, MergedIs
  <2> QED
    BY <2>1, <2>2
<1>6. row(0) = u
  <2>1. F(0) = a /\ H(0) = b
    <3>1. /\ a = [k \in 1..n |-> a[k]]
          /\ b = [k \in 1..n |-> b[k]]
      BY <1>1, LenProperties
    <3> QED
      BY <3>1
  <2> HIDE DEF F, H
  <2> QED
    BY <2>1
<1>7. \A i \in 1..m, k \in 1..n :
        /\ F(i - 1)[k] = Given(a, f, i, k) /\ F(i)[k] = f[k][i].y1
        /\ H(i - 1)[k] = Given(b, g, i, k) /\ H(i)[k] = g[k][i].y1
  BY DEF Given
<1> HIDE DEF F, H
<1>8. \A i \in 1..m, k \in 1..n :
        /\ F(i)[k] = IF k > 1 THEN table[i] * (F(i - 1)[k] - F(i)[k - 1]) + F(i - 1)[k - 1]
                     ELSE table[i] * F(i - 1)[k]
        /\ H(i)[k] = IF k > 1 THEN table[i] * (H(i - 1)[k] - H(i)[k - 1]) + H(i - 1)[k - 1]
                     ELSE table[i] * H(i - 1)[k]
  <2> TAKE i \in 1..m, k \in 1..n
  <2>1. k > 1 => /\ k - 1 \in 1..n
                 /\ F(i - 1)[k - 1] = Given(a, f, i, k - 1) /\ F(i)[k - 1] = f[k - 1][i].y1
                 /\ H(i - 1)[k - 1] = Given(b, g, i, k - 1) /\ H(i)[k - 1] = g[k - 1][i].y1
    BY <1>1, <1>7
  <2>2. /\ F(i - 1)[k] = Given(a, f, i, k) /\ F(i)[k] = f[k][i].y1
        /\ H(i - 1)[k] = Given(b, g, i, k) /\ H(i)[k] = g[k][i].y1
    BY <1>7
  <2>3. f[k][i].y1 =
          IF k > 1 THEN table[i] * (Given(a, f, i, k) - f[k - 1][i].y1) + Given(a, f, i, k - 1)
          ELSE table[i] * Given(a, f, i, k)
    BY <1>2
  <2>4. g[k][i].y1 =
          IF k > 1 THEN table[i] * (Given(b, g, i, k) - g[k - 1][i].y1) + Given(b, g, i, k - 1)
          ELSE table[i] * Given(b, g, i, k)
    BY <1>3
  <2> QED
    BY <2>1, <2>2, <2>3, <2>4
<1>9. ASSUME NEW i \in 1..m
      PROVE  Allpass(table[i], row(i - 1)) = row(i)
  <2> DEFINE p == row(i - 1)
             w == row(i)
  <2>1. i - 1 \in 0..m /\ i \in 0..m /\ table[i] \in Int
    BY <1>1
  <2>2. /\ p \in [1..2 * n -> Int] /\ w \in [1..2 * n -> Int]
        /\ \A k \in 1..n : p[2 * k - 1] = F(i - 1)[k] /\ p[2 * k] = H(i - 1)[k]
        /\ \A k \in 1..n : w[2 * k - 1] = F(i)[k] /\ w[2 * k] = H(i)[k]
    BY <1>5, <2>1
  <2> HIDE DEF p, w
  <2>3. ASSUME NEW t \in 1..2 * n
        PROVE  w[t] = IF t > 2 THEN table[i] * (p[t] - w[t - 2]) + p[t - 2] ELSE table[i] * p[t]
    <3>1. PICK k \in 1..n : t = 2 * k - 1 \/ t = 2 * k
      BY <1>1, Places
    <3>2. CASE k > 1
      <4>1. /\ k - 1 \in 1..n /\ t > 2
            /\ t = 2 * k - 1 => t - 2 = 2 * (k - 1) - 1
            /\ t = 2 * k => t - 2 = 2 * (k - 1)
        BY <1>1, <3>1, <3>2
      <4>2. /\ F(i)[k] = table[i] * (F(i - 1)[k] - F(i)[k - 1]) + F(i - 1)[k - 1]
            /\ H(i)[k] = table[i] * (H(i - 1)[k] - H(i)[k - 1]) + H(i - 1)[k - 1]
        BY <1>8, <3>2
      <4>3. CASE t = 2 * k - 1
        <5>1. p[t] = F(i - 1)[k] /\ w[t] = F(i)[k]
          BY <2>2, <4>3
        <5>2. p[t - 2] = F(i - 1)[k - 1] /\ w[t - 2] = F(i)[k - 1]
          BY <2>2, <4>1, <4>3
        <5> QED
          BY <4>1, <4>2, <5>1, <5>2
      <4>4. CASE t = 2 * k
        <5>1. p[t] = H(i - 1)[k] /\ w[t] = H(i)[k]
          BY <2>2, <4>4
        <5>2. p[t - 2] = H(i - 1)[k - 1] /\ w[t - 2] = H(i)[k - 1]
          BY <2>2, <4>1, <4>4
        <5> QED
          BY <4>1, <4>2, <5>1, <5>2
      <4> QED
        BY <3>1, <4>3, <4>4
    <3>3. CASE ~(k > 1)
      <4>1. ~(t > 2)
        BY <1>1, <3>1, <3>3
      <4> QED
        BY <1>8, <2>2, <3>1, <3>3, <4>1
    <3> QED
      BY <3>2, <3>3
  <2>4. Allpass(table[i], p) = w
    BY <1>1, <2>1, <2>2, <2>3, AllpassIs
  <2> QED
    BY <2>4 DEF p, w
<1>10. v = [i \in 0..Len(table) |-> IF i = 0 THEN u ELSE Allpass(table[i], v[i - 1])]
  <2> DEFINE r == [i \in 0..Len(table) |-> row(i)]
  <2>1. r = [i \in 0..Len(table) |-> IF i = 0 THEN u ELSE Allpass(table[i], r[i - 1])]
    <3> HIDE DEF row, u
    <3> QED
      BY <1>1, <1>6, <1>9
  <2> HIDE DEF r, row, u
  <2> QED
    BY <2>1
<1>11. Allpasses(table, u) = v[m]
  BY DEF Allpasses
<1> HIDE DEF v, u, row
<1>12. \A i \in 0..m : v[i] = IF i = 0 THEN u ELSE Allpass(table[i], v[i - 1])
  BY <1>10, Zenon
<1>13. v[m] = row(m)
  <2> DEFINE G == {i \in 0..m : v[i] = row(i)}
  <2>1. 0 \in G
    BY <1>1, <1>6, <1>12
  <2>2. \A i \in 0..m : i # 0 /\ i - 1 \in G => i \in G
    BY <1>1, <1>9, <1>12
  <2>3. 0 \in Int /\ m \in Int /\ m \in 0..m
    BY <1>1
  <2> HIDE DEF G, m
  <2>4. \A i \in 0..m : i \in G
    BY <2>1, <2>2, <2>3, UpTo
  <2> QED
    BY <2>3, <2>4 DEF G
<1>14. \A k \in 1..n : F(m)[k] = Last(f[k], table) /\ H(m)[k] = Last(g[k], table)
  BY <1>1, <1>7 DEF Last
<1>15. /\ row(m) \in [1..2 * n -> Int]
       /\ \A k \in 1..n : row(m)[2 * k - 1] = F(m)[k] /\ row(m)[2 * k] = H(m)[k]
  BY <1>1, <1>5 DEF row
<1> QED
  BY <1>11, <1>13, <1>14, <1>15 DEF u

-----------------------------------------------------------------------------
(* The half-band filters, by the cascades of a stage *)

Tables == [Cascades -> Tab]

Zeros(n) == [k \in 1..n |-> 0]

LEMMA SilentRun ==
  ASSUME NEW table \in Tab, NEW n \in Nat
  PROVE  /\ Zeros(n) \in Seq(Int) /\ Len(Zeros(n)) = n
         /\ [k \in 0..n |-> AtRest(table)] \in Through(table, AtRest(table), Zeros(n))
<1>1. Zeros(n) \in [1..n -> Int] /\ \A k \in 1..n : Zeros(n)[k] = 0
  BY DEF Zeros
<1>2. Zeros(n) \in Seq(Int) /\ Len(Zeros(n)) = n
  BY <1>1, FunIsSeq
<1> DEFINE f == [k \in 0..n |-> AtRest(table)]
<1>3. f \in [0..n -> States(table)] /\ f[0] = AtRest(table)
  BY StaysAtRest
<1>4. ASSUME NEW k \in 1..n PROVE f[k] = Cascade(f[k - 1], table, Zeros(n)[k])
  <2>1. f[k] = AtRest(table) /\ f[k - 1] = AtRest(table)
    OBVIOUS
  <2> QED
    BY <1>1, <2>1, StaysAtRest
<1> QED
  BY <1>2, <1>3, <1>4 DEF Through

\* Upwards the even samples are those of the direct cascade and the odd ones those of the
\* delayed one, each run at the lower rate.
LEMMA UpIs ==
  ASSUME NEW t \in Tables, NEW x \in Seq(Int),
         NEW f \in Through(t["upDirect"], AtRest(t["upDirect"]), x),
         NEW g \in Through(t["upDelayed"], AtRest(t["upDelayed"]), x)
  PROVE  /\ Up(t, x) \in Seq(Int) /\ Len(Up(t, x)) = 2 * Len(x)
         /\ \A k \in 1..Len(x) : /\ Up(t, x)[2 * k - 1] = Last(f[k], t["upDirect"])
                                 /\ Up(t, x)[2 * k] = Last(g[k], t["upDelayed"])
<1> DEFINE n == Len(x)
           u == Merged(x, Zeros(n))
           direct == t["upDirect"]
           delayed == t["upDelayed"]
           a0 == Allpasses(direct, u)
           a1 == Allpasses(delayed, u)
<1>1. n \in Nat /\ 2 * n \in Nat /\ direct \in Tab /\ delayed \in Tab
  BY LenProperties DEF Tables, Cascades
<1>2. Zeros(n) \in Seq(Int) /\ Len(Zeros(n)) = n /\ \A k \in 1..n : Zeros(n)[k] = 0
  BY <1>1, SilentRun DEF Zeros
<1>3. u \in Seq(Int) /\ Len(u) = 2 * n /\ u \in [1..2 * n -> Int]
      /\ \A k \in 1..n : u[2 * k - 1] = x[k] /\ u[2 * k] = 0
  BY <1>1, <1>2, MergedIs
<1>4. Stuffed(x) = u
  <2>1. ASSUME NEW i \in 1..2 * n
        PROVE  (IF i % 2 = 1 THEN x[(i + 1) \div 2] ELSE 0)
                 = (IF i % 2 = 1 THEN x[(i + 1) \div 2] ELSE Zeros(n)[i \div 2])
    <3>1. i % 2 # 1 => i \div 2 \in 1..n
      BY <1>1
    <3> QED
      BY <1>2, <3>1
  <2> HIDE DEF n
  <2>2. [i \in 1..2 * n |-> IF i % 2 = 1 THEN x[(i + 1) \div 2] ELSE 0]
          = [i \in 1..2 * n |-> IF i % 2 = 1 THEN x[(i + 1) \div 2] ELSE Zeros(n)[i \div 2]]
    BY <2>1
  <2> QED
    BY <2>2 DEF Stuffed, Merged, n
<1>5. /\ a0 \in [1..2 * n -> Int]
      /\ \A k \in 1..n : a0[2 * k - 1] = Last(f[k], direct) /\ a0[2 * k] = 0
  <2> DEFINE z == [k \in 0..n |-> AtRest(direct)]
  <2>1. z \in Through(direct, AtRest(direct), Zeros(n)) /\ \A k \in 1..n : z[k] = AtRest(direct)
    BY <1>1, SilentRun
  <2> HIDE DEF z
  <2>2. /\ a0 \in [1..2 * n -> Int]
        /\ \A k \in 1..n : a0[2 * k - 1] = Last(f[k], direct) /\ a0[2 * k] = Last(z[k], direct)
    BY <1>1, <1>2, <2>1, AllpassesIs
  <2> QED
    BY <1>1, <2>1, <2>2, StaysAtRest
<1>6. /\ a1 \in [1..2 * n -> Int]
      /\ \A k \in 1..n : a1[2 * k - 1] = Last(g[k], delayed) /\ a1[2 * k] = 0
  <2> DEFINE z == [k \in 0..n |-> AtRest(delayed)]
  <2>1. z \in Through(delayed, AtRest(delayed), Zeros(n)) /\ \A k \in 1..n : z[k] = AtRest(delayed)
    BY <1>1, SilentRun
  <2> HIDE DEF z
  <2>2. /\ a1 \in [1..2 * n -> Int]
        /\ \A k \in 1..n : a1[2 * k - 1] = Last(g[k], delayed) /\ a1[2 * k] = Last(z[k], delayed)
    BY <1>1, <1>2, <2>1, AllpassesIs
  <2> QED
    BY <1>1, <2>1, <2>2, StaysAtRest
<1> DEFINE y == [i \in 1..2 * n |-> a0[i] + (IF i > 1 THEN a1[i - 1] ELSE 0)]
<1>7. Up(t, x) = y
  BY <1>3, <1>4 DEF Up, HalfBand
<1> HIDE DEF a0, a1, direct, delayed, u
<1>8. y \in [1..2 * n -> Int]
  <2>1. ASSUME NEW i \in 1..2 * n PROVE a0[i] + (IF i > 1 THEN a1[i - 1] ELSE 0) \in Int
    <3>1. a0[i] \in Int /\ (i > 1 => a1[i - 1] \in Int)
      <4>1. i > 1 => i - 1 \in 1..2 * n
        BY <1>1
      <4>2. a0 \in [1..2 * n -> Int] /\ a1 \in [1..2 * n -> Int]
        BY <1>5, <1>6
      <4> QED
        BY <4>1, <4>2
    <3> QED
      BY <3>1
  <2> QED
    BY <2>1
<1>9. \A k \in 1..n : y[2 * k - 1] = Last(f[k], direct) /\ y[2 * k] = Last(g[k], delayed)
  <2> TAKE k \in 1..n
  <2>1. /\ 2 * k - 1 \in 1..2 * n /\ 2 * k \in 1..2 * n /\ 2 * k > 1
        /\ 2 * k - 1 > 1 => k - 1 \in 1..n /\ (2 * k - 1) - 1 = 2 * (k - 1)
    BY <1>1
  <2>2. y[2 * k - 1] = a0[2 * k - 1] + (IF 2 * k - 1 > 1 THEN a1[(2 * k - 1) - 1] ELSE 0)
    BY <2>1
  <2>3. 2 * k - 1 > 1 => a1[(2 * k - 1) - 1] = 0
    BY <1>6, <2>1
  <2>4. y[2 * k] = a0[2 * k] + a1[2 * k - 1]
    BY <2>1
  <2>5. a0[2 * k - 1] \in Int /\ a1[2 * k - 1] \in Int
    BY <1>5, <1>6, <2>1
  <2> HIDE DEF y
  <2> QED
    BY <1>5, <1>6, <2>2, <2>3, <2>4, <2>5
<1>10. Up(t, x) \in Seq(Int) /\ Len(Up(t, x)) = 2 * n
  <2> DEFINE m == 2 * n
  <2>1. m \in Nat /\ y \in [1..m -> Int]
    BY <1>1, <1>8
  <2> HIDE DEF m, y
  <2> QED
    BY <1>7, <2>1, FunIsSeq DEF m
<1> QED
  BY <1>7, <1>9, <1>10 DEF direct, delayed

\* What the two cascades downwards are given: the even samples, and the odd ones of the
\* pair before.
Evens(y) == [k \in 1..Len(y) \div 2 |-> y[2 * k - 1]]
Odds(y) == [k \in 1..Len(y) \div 2 |-> y[2 * k]]
OddsBefore(y) == [k \in 1..Len(y) \div 2 |-> IF k = 1 THEN 0 ELSE y[2 * k - 2]]

LEMMA HalvesAre ==
  ASSUME NEW n \in Nat, NEW y \in Seq(Int), Len(y) = 2 * n
  PROVE  /\ Len(y) \div 2 = n
         /\ Evens(y) \in Seq(Int) /\ Len(Evens(y)) = n /\ \A k \in 1..n : Evens(y)[k] = y[2 * k - 1]
         /\ Odds(y) \in Seq(Int) /\ Len(Odds(y)) = n /\ \A k \in 1..n : Odds(y)[k] = y[2 * k]
         /\ OddsBefore(y) \in Seq(Int) /\ Len(OddsBefore(y)) = n
         /\ \A k \in 1..n : OddsBefore(y)[k] = IF k = 1 THEN 0 ELSE y[2 * k - 2]
         /\ Merged(Evens(y), Odds(y)) = y
<1>1. Len(y) \div 2 = n /\ \A t \in 1..2 * n : y[t] \in Int
  BY ElementOfSeq
<1>2. \A k \in 1..n : /\ 2 * k - 1 \in 1..2 * n /\ 2 * k \in 1..2 * n
                      /\ k # 1 => 2 * k - 2 \in 1..2 * n
  OBVIOUS
<1>3. /\ Evens(y) \in [1..n -> Int] /\ \A k \in 1..n : Evens(y)[k] = y[2 * k - 1]
      /\ Odds(y) \in [1..n -> Int] /\ \A k \in 1..n : Odds(y)[k] = y[2 * k]
  BY <1>1, <1>2 DEF Evens, Odds
<1>4. /\ OddsBefore(y) \in [1..n -> Int]
      /\ \A k \in 1..n : OddsBefore(y)[k] = IF k = 1 THEN 0 ELSE y[2 * k - 2]
  BY <1>1, <1>2 DEF OddsBefore
<1>5. /\ Evens(y) \in Seq(Int) /\ Len(Evens(y)) = n /\ Odds(y) \in Seq(Int) /\ Len(Odds(y)) = n
      /\ OddsBefore(y) \in Seq(Int) /\ Len(OddsBefore(y)) = n
  BY <1>3, <1>4, FunIsSeq
<1> DEFINE u == Merged(Evens(y), Odds(y))
<1>6. /\ u \in Seq(Int) /\ Len(u) = 2 * n
      /\ \A k \in 1..n : u[2 * k - 1] = y[2 * k - 1] /\ u[2 * k] = y[2 * k]
  <2> DEFINE a == Evens(y)
             b == Odds(y)
  <2>1. /\ a \in Seq(Int) /\ b \in Seq(Int) /\ Len(a) = Len(b) /\ Len(a) = n
        /\ \A k \in 1..n : a[k] = y[2 * k - 1] /\ b[k] = y[2 * k]
    BY <1>3, <1>5
  <2> HIDE DEF a, b
  <2>2. /\ Merged(a, b) \in Seq(Int) /\ Len(Merged(a, b)) = 2 * Len(a)
        /\ \A k \in 1..Len(a) : Merged(a, b)[2 * k - 1] = a[k] /\ Merged(a, b)[2 * k] = b[k]
    BY <2>1, MergedIs
  <2>3. u = Merged(a, b)
    BY DEF a, b
  <2> HIDE DEF u
  <2> QED
    BY <2>1, <2>2, <2>3
<1> HIDE DEF u
<1>7. \A t \in 1..2 * n : u[t] = y[t]
  <2> TAKE t \in 1..2 * n
  <2>1. PICK k \in 1..n : t = 2 * k - 1 \/ t = 2 * k
    BY Places
  <2> QED
    BY <1>6, <2>1
<1>8. u = y
  BY <1>6, <1>7, SeqEqual
<1> QED
  BY <1>1, <1>3, <1>4, <1>5, <1>8 DEF u

\* Downwards the delayed cascade runs one pair behind.
LEMMA DownIs ==
  ASSUME NEW t \in Tables, NEW n \in Nat, NEW y \in Seq(Int), Len(y) = 2 * n,
         NEW f \in Through(t["downDirect"], AtRest(t["downDirect"]), Evens(y)),
         NEW q \in Through(t["downDelayed"], AtRest(t["downDelayed"]), OddsBefore(y))
  PROVE  /\ Down(t, y) \in Seq(Int) /\ Len(Down(t, y)) = n
         /\ \A k \in 1..n : Down(t, y)[k] = Last(f[k], t["downDirect"]) + Last(q[k], t["downDelayed"])
<1> DEFINE direct == t["downDirect"]
           delayed == t["downDelayed"]
           a0 == Allpasses(direct, y)
           a1 == Allpasses(delayed, y)
<1>1. n \in Nat /\ 2 * n \in Nat /\ direct \in Tab /\ delayed \in Tab
  BY DEF Tables, Cascades
<1>2. /\ Evens(y) \in Seq(Int) /\ Len(Evens(y)) = n
      /\ Odds(y) \in Seq(Int) /\ Len(Odds(y)) = n /\ \A k \in 1..n : Odds(y)[k] = y[2 * k]
      /\ OddsBefore(y) \in Seq(Int) /\ Len(OddsBefore(y)) = n
      /\ \A k \in 1..n : OddsBefore(y)[k] = IF k = 1 THEN 0 ELSE y[2 * k - 2]
      /\ Merged(Evens(y), Odds(y)) = y
  BY HalvesAre
<1>3. PICK h \in Through(direct, AtRest(direct), Odds(y)) : TRUE
  BY <1>1, <1>2, StaysAtRest, RunExists
<1>4. PICK g \in Through(delayed, AtRest(delayed), Odds(y)) : TRUE
  BY <1>1, <1>2, StaysAtRest, RunExists
<1>5. PICK e \in Through(delayed, AtRest(delayed), Evens(y)) : TRUE
  BY <1>1, <1>2, StaysAtRest, RunExists
<1>6. /\ a0 \in [1..2 * n -> Int]
      /\ \A k \in 1..n : a0[2 * k - 1] = Last(f[k], direct)
  <2> HIDE DEF direct, delayed
  <2>1. f \in Through(direct, AtRest(direct), Evens(y))
    BY DEF direct
  <2> DEFINE a == Evens(y)
             b == Odds(y)
  <2> HIDE DEF a, b
  <2>2. /\ Allpasses(direct, Merged(a, b)) \in [1..2 * Len(a) -> Int]
        /\ \A k \in 1..Len(a) : Allpasses(direct, Merged(a, b))[2 * k - 1] = Last(f[k], direct)
    <3>1. /\ a \in Seq(Int) /\ b \in Seq(Int) /\ Len(a) = Len(b)
          /\ f \in Through(direct, AtRest(direct), a) /\ h \in Through(direct, AtRest(direct), b)
      BY <1>2, <1>3, <2>1 DEF a, b
    <3> QED
      BY <1>1, <3>1, AllpassesIs
  <2>3. Merged(a, b) = y /\ Len(a) = n
    BY <1>2 DEF a, b
  <2> QED
    BY <2>2, <2>3
<1>7. /\ a1 \in [1..2 * n -> Int]
      /\ \A k \in 1..n : a1[2 * k] = Last(g[k], delayed)
  <2> HIDE DEF direct, delayed
  <2> DEFINE a == Evens(y)
             b == Odds(y)
  <2> HIDE DEF a, b
  <2>2. /\ Allpasses(delayed, Merged(a, b)) \in [1..2 * Len(a) -> Int]
        /\ \A k \in 1..Len(a) : Allpasses(delayed, Merged(a, b))[2 * k] = Last(g[k], delayed)
    <3>1. /\ a \in Seq(Int) /\ b \in Seq(Int) /\ Len(a) = Len(b)
          /\ e \in Through(delayed, AtRest(delayed), a)
          /\ g \in Through(delayed, AtRest(delayed), b)
      BY <1>2, <1>4, <1>5 DEF a, b
    <3> QED
      BY <1>1, <3>1, AllpassesIs
  <2>3. Merged(a, b) = y /\ Len(a) = n
    BY <1>2 DEF a, b
  <2> QED
    BY <2>2, <2>3
<1>8. \A k \in 1..n : q[k] = g[k - 1]
  <2> DEFINE G == {k \in 1..n : q[k] = g[k - 1]}
  <2>1. /\ q[0] = AtRest(delayed)
        /\ \A k \in 1..n : q[k] = Cascade(q[k - 1], delayed, OddsBefore(y)[k])
    BY <1>2 DEF Through
  <2>2. /\ g[0] = AtRest(delayed)
        /\ \A k \in 1..n : g[k] = Cascade(g[k - 1], delayed, Odds(y)[k])
    BY <1>2, <1>4 DEF Through
  <2> HIDE DEF delayed
  <2>3. 1 <= n => 1 \in G
    <3> SUFFICES ASSUME 1 <= n PROVE q[1] = g[1 - 1]
      BY <1>1
    <3>1. 1 \in 1..n /\ 1 - 1 = 0
      BY <1>1
    <3>2. q[1] = Cascade(AtRest(delayed), delayed, 0)
      BY <1>2, <2>1, <3>1
    <3> QED
      BY <1>1, <2>2, <3>1, <3>2, StaysAtRest
  <2>4. \A k \in 1..n : k # 1 /\ k - 1 \in G => k \in G
    <3> SUFFICES ASSUME NEW k \in 1..n, k # 1, q[k - 1] = g[(k - 1) - 1]
                 PROVE  q[k] = g[k - 1]
      OBVIOUS
    <3>1. k - 1 \in 1..n /\ 2 * (k - 1) = 2 * k - 2
      BY <1>1
    <3>2. q[k] = Cascade(q[k - 1], delayed, y[2 * k - 2])
      BY <1>2, <2>1
    <3>3. g[k - 1] = Cascade(g[(k - 1) - 1], delayed, y[2 * (k - 1)])
      BY <1>2, <2>2, <3>1
    <3> QED
      BY <3>1, <3>2, <3>3
  <2>5. 1 \in Int /\ n \in Int
    OBVIOUS
  <2> HIDE DEF G
  <2>6. \A k \in 1..n : k \in G
    BY <2>3, <2>4, <2>5, UpTo
  <2> QED
    BY <2>6 DEF G
<1> DEFINE z == [i \in 1..2 * n |-> a0[i] + (IF i > 1 THEN a1[i - 1] ELSE 0)]
           d == [k \in 1..n |-> z[2 * k - 1]]
<1>9. Down(t, y) = d
  <2>1. HalfBand(direct, delayed, y) = z
    BY DEF HalfBand
  <2> HIDE DEF direct, delayed
  <2>2. z \in [1..2 * n -> Int]
    <3>1. ASSUME NEW i \in 1..2 * n PROVE a0[i] + (IF i > 1 THEN a1[i - 1] ELSE 0) \in Int
      <4>1. i > 1 => i - 1 \in 1..2 * n
        BY <1>1
      <4>2. a0[i] \in Int /\ (i > 1 => a1[i - 1] \in Int)
        BY <1>6, <1>7, <4>1
      <4> QED
        BY <4>2
    <3> HIDE DEF a0, a1
    <3> QED
      BY <3>1
  <2> HIDE DEF z
  <2>3. Len(z) = 2 * n
    <3> DEFINE m == 2 * n
    <3>1. m \in Nat /\ z \in [1..m -> Int]
      BY <1>1, <2>2
    <3> HIDE DEF m
    <3> QED
      BY <3>1, FunIsSeq DEF m
  <2>4. Len(z) \div 2 = n
    BY <2>3
  <2>5. Decimated(z) = [k \in 1..n |-> z[2 * k - 1]]
    BY <2>4 DEF Decimated
  <2> QED
    BY <2>1, <2>5 DEF Down, direct, delayed
<1>10. \A k \in 1..n : Last(f[k], direct) \in Int /\ Last(q[k], delayed) \in Int
  <2>1. \A k \in 0..n : Last(f[k], direct) \in Int /\ Last(q[k], delayed) \in Int
    BY <1>1, <1>2, RunIs
  <2> QED
    BY <2>1
<1>11. \A k \in 1..n : d[k] = Last(f[k], direct) + Last(q[k], delayed)
  <2> TAKE k \in 1..n
  <2>1. /\ 2 * k - 1 \in 1..2 * n
        /\ k = 1 => ~(2 * k - 1 > 1)
        /\ k # 1 => 2 * k - 1 > 1 /\ k - 1 \in 1..n /\ (2 * k - 1) - 1 = 2 * (k - 1)
    BY <1>1
  <2>2. d[k] = a0[2 * k - 1] + (IF 2 * k - 1 > 1 THEN a1[(2 * k - 1) - 1] ELSE 0)
    BY <2>1
  <2> HIDE DEF direct, delayed, a0, a1, d
  <2>3. CASE k = 1
    <3>1. g[k - 1] = AtRest(delayed)
      BY <1>4, <2>3 DEF Through
    <3>2. Last(q[k], delayed) = 0
      BY <1>1, <1>8, <3>1, StaysAtRest
    <3> QED
      BY <1>6, <2>1, <2>2, <2>3, <3>2
  <2>4. CASE k # 1
    <3>1. a1[(2 * k - 1) - 1] = Last(q[k], delayed)
      BY <1>7, <1>8, <2>1, <2>4
    <3> QED
      BY <1>6, <2>1, <2>2, <2>4, <3>1
  <2> QED
    BY <2>3, <2>4
<1>12. Down(t, y) \in Seq(Int) /\ Len(Down(t, y)) = n
  <2>1. \A k \in 1..n : d[k] \in Int
    <3> HIDE DEF d, direct, delayed
    <3> QED
      BY <1>10, <1>11
  <2>2. d \in [1..n -> Int]
    <3>1. \A k \in 1..n : z[2 * k - 1] \in Int
      BY <2>1
    <3> HIDE DEF z
    <3> QED
      BY <3>1
  <2> HIDE DEF d
  <2> QED
    BY <1>9, <2>2, FunIsSeq
<1> QED
  BY <1>9, <1>11, <1>12

-----------------------------------------------------------------------------
(* A stage within its signals *)

Stage(a, b, c, d, e) ==
  [upDirect |-> a, upDelayed |-> b, downDirect |-> c, downDelayed |-> d, downPrevOdd |-> e]

LEMMA StageSteps ==
  ASSUME NEW t, NEW a, NEW b, NEW c, NEW d, NEW e
  PROVE  /\ \A x : ProcessUp(t, Stage(a, b, c, d, e), x) =
              Stage(Cascade(a, t["upDirect"], x), Cascade(b, t["upDelayed"], x), c, d, e)
         /\ \A even, odd : ProcessDown(t, Stage(a, b, c, d, e), even, odd) =
              Stage(a, b, Cascade(c, t["downDirect"], even), Cascade(d, t["downDelayed"], e), odd)
<1> DEFINE s == Stage(a, b, c, d, e)
<1>1. s.upDirect = a /\ s.upDelayed = b /\ s.downDirect = c /\ s.downDelayed = d /\ s.downPrevOdd = e
  BY DEF Stage
<1>2. ASSUME NEW v, NEW w
      PROVE  [s EXCEPT !.upDirect = v, !.upDelayed = w] = Stage(v, w, c, d, e)
  <2>1. [s EXCEPT !.upDirect = v, !.upDelayed = w]
          = [[s EXCEPT !.upDirect = v] EXCEPT !.upDelayed = w]
    BY DEF Stage
  <2>2. [s EXCEPT !.upDirect = v] = Stage(v, b, c, d, e)
    BY DEF Stage
  <2>3. [Stage(v, b, c, d, e) EXCEPT !.upDelayed = w] = Stage(v, w, c, d, e)
    BY DEF Stage
  <2> HIDE DEF s
  <2> QED
    BY <2>1, <2>2, <2>3
<1>3. ASSUME NEW v, NEW w, NEW o
      PROVE  [s EXCEPT !.downDirect = v, !.downDelayed = w, !.downPrevOdd = o] = Stage(a, b, v, w, o)
  <2>1. [s EXCEPT !.downDirect = v, !.downDelayed = w, !.downPrevOdd = o]
          = [[[s EXCEPT !.downDirect = v] EXCEPT !.downDelayed = w] EXCEPT !.downPrevOdd = o]
    BY DEF Stage
  <2>2. [s EXCEPT !.downDirect = v] = Stage(a, b, v, d, e)
    BY DEF Stage
  <2>3. [Stage(a, b, v, d, e) EXCEPT !.downDelayed = w] = Stage(a, b, v, w, e)
    BY DEF Stage
  <2>4. [Stage(a, b, v, w, e) EXCEPT !.downPrevOdd = o] = Stage(a, b, v, w, o)
    BY DEF Stage
  <2> HIDE DEF s
  <2> QED
    BY <2>1, <2>2, <2>3, <2>4
<1> HIDE DEF s
<1>4. \A x : ProcessUp(t, s, x) = Stage(Cascade(a, t["upDirect"], x), Cascade(b, t["upDelayed"], x), c, d, e)
  BY <1>1, <1>2 DEF ProcessUp
<1>5. \A even, odd : ProcessDown(t, s, even, odd) =
        Stage(a, b, Cascade(c, t["downDirect"], even), Cascade(d, t["downDelayed"], e), odd)
  <2> TAKE even, odd
  <2> DEFINE v == Cascade(c, t["downDirect"], even)
             w == Cascade(d, t["downDelayed"], e)
  <2>1. ProcessDown(t, s, even, odd) = [s EXCEPT !.downDirect = v, !.downDelayed = w, !.downPrevOdd = odd]
    BY <1>1 DEF ProcessDown
  <2> HIDE DEF v, w
  <2>2. ProcessDown(t, s, even, odd) = Stage(a, b, v, w, odd)
    BY <1>3, <2>1
  <2> QED
    BY <2>2 DEF v, w
<1> QED
  BY <1>4, <1>5 DEF s

\* The runs of a stage: upwards through x and downwards through y.
StageRun(t, x, y) ==
  [ a : Through(t["upDirect"], AtRest(t["upDirect"]), x),
    b : Through(t["upDelayed"], AtRest(t["upDelayed"]), x),
    c : Through(t["downDirect"], AtRest(t["downDirect"]), Evens(y)),
    d : Through(t["downDelayed"], AtRest(t["downDelayed"]), OddsBefore(y)) ]

\* The stage when j samples of x have gone up and l pairs of y down.
StageAt(r, y, j, l) ==
  Stage(r.a[j], r.b[j], r.c[l], r.d[l], IF l = 0 THEN 0 ELSE y[2 * l])

LEMMA StageStarts ==
  ASSUME NEW t, NEW x, NEW y, NEW r \in StageRun(t, x, y)
  PROVE  StageAt(r, y, 0, 0) = StageReset(t)
  BY DEF StageRun, Through, StageAt, Stage, StageReset

\* A block of the next samples of x,
UpFits(t, x, y, r, j, l, in) ==
  /\ t \in Tables /\ x \in Seq(Int) /\ r \in StageRun(t, x, y) /\ j \in Nat /\ l \in Nat
  /\ in \in Seq(Int) /\ j + Len(in) <= Len(x) /\ \A i \in 1..Len(in) : in[i] = x[j + i]

\* and one of the next n pairs of y, of h.
DownFits(t, x, h, y, r, j, l, n, in) ==
  /\ t \in Tables /\ h \in Nat /\ y \in Seq(Int) /\ Len(y) = 2 * h
  /\ r \in StageRun(t, x, y) /\ j \in Nat /\ l \in Nat
  /\ n \in Nat /\ in \in Seq(Int) /\ Len(in) = 2 * n /\ l + n <= h
  /\ \A i \in 1..2 * n : in[i] = y[2 * l + i]

\* The states of a stage over a block of n, and n samples of u.
UpStates(r, y, j, l, n) == [i \in 0..n |-> StageAt(r, y, j + i, l)]
DownStates(r, y, j, l, n) == [i \in 0..n |-> StageAt(r, y, j, l + i)]
Slice(u, j, n) == [i \in 1..n |-> u[j + i]]

\* A block of x takes the stage on by its length,
LEMMA StageUpIs ==
  ASSUME NEW t, NEW x, NEW y, NEW r, NEW j, NEW l, NEW in, UpFits(t, x, y, r, j, l, in)
  PROVE  StageUp(t, StageAt(r, y, j, l), in) = UpStates(r, y, j, l, Len(in))
<1>0. /\ x \in Seq(Int) /\ r \in StageRun(t, x, y) /\ j \in Nat /\ l \in Nat
      /\ in \in Seq(Int) /\ j + Len(in) <= Len(x) /\ \A i \in 1..Len(in) : in[i] = x[j + i]
  BY DEF UpFits
<1> USE <1>0
<1> DEFINE n == Len(in)
           w == [i \in 0..Len(in) |-> StageAt(r, y, j + i, l)]
           s == StageAt(r, y, j, l)
           st == CHOOSE st : st = [i \in 0..Len(in) |->
                   IF i = 0 THEN s ELSE ProcessUp(t, st[i - 1], in[i])]
<1>1. n \in Nat /\ Len(x) \in Nat
  BY LenProperties
<1>2. /\ \A k \in 1..Len(x) : r.a[k] = Cascade(r.a[k - 1], t["upDirect"], x[k])
      /\ \A k \in 1..Len(x) : r.b[k] = Cascade(r.b[k - 1], t["upDelayed"], x[k])
  BY DEF StageRun, Through
<1>3. ASSUME NEW i \in 1..n
      PROVE  ProcessUp(t, StageAt(r, y, j + (i - 1), l), in[i]) = StageAt(r, y, j + i, l)
  <2>1. j + i \in 1..Len(x) /\ (j + i) - 1 = j + (i - 1)
    <3>1. j \in Nat /\ j + n <= Len(x)
      BY <1>0
    <3> HIDE DEF n
    <3> QED
      BY ONLY <1>1, <3>1
  <2>2. /\ r.a[j + i] = Cascade(r.a[j + (i - 1)], t["upDirect"], in[i])
        /\ r.b[j + i] = Cascade(r.b[j + (i - 1)], t["upDelayed"], in[i])
    <3>1. in[i] = x[j + i]
      BY <1>0
    <3> QED
      BY <1>2, <2>1, <3>1
  <2> QED
    BY <2>2, StageSteps DEF StageAt
<1>4. w[0] = s /\ \A i \in 1..n : w[i] = ProcessUp(t, w[i - 1], in[i])
  <2>1. w[0] = s
    BY <1>1
  <2>2. \A i \in 1..n : w[i] = StageAt(r, y, j + i, l) /\ w[i - 1] = StageAt(r, y, j + (i - 1), l)
    BY <1>1
  <2> HIDE DEF w
  <2> QED
    BY <1>3, <2>1, <2>2
<1>5. w = [i \in 0..Len(in) |-> IF i = 0 THEN s ELSE ProcessUp(t, w[i - 1], in[i])]
  <2>1. \A i \in 0..n : w[i] = IF i = 0 THEN s ELSE ProcessUp(t, w[i - 1], in[i])
    <3> HIDE DEF w, s
    <3>1. \A i \in 0..n : i # 0 => i \in 1..n
      BY <1>1
    <3> QED
      BY <1>4, <3>1
  <2> QED
    BY <2>1
<1>6. st = [i \in 0..Len(in) |-> IF i = 0 THEN s ELSE ProcessUp(t, st[i - 1], in[i])]
  <2> HIDE DEF w, s
  <2> QED
    BY <1>5
<1>7. StageUp(t, s, in) = st
  BY DEF StageUp
<1> HIDE DEF st, w, s
<1>8. \A i \in 0..n : st[i] = IF i = 0 THEN s ELSE ProcessUp(t, st[i - 1], in[i])
  BY <1>6, Zenon
<1>9. \A i \in 0..n : st[i] = w[i]
  <2> DEFINE G == {i \in 0..n : st[i] = w[i]}
  <2>1. 0 \in G
    BY <1>1, <1>4, <1>8
  <2>2. \A i \in 0..n : i # 0 /\ i - 1 \in G => i \in G
    BY <1>1, <1>4, <1>8
  <2>3. 0 \in Int /\ n \in Int
    BY <1>1
  <2> HIDE DEF G, n
  <2>4. \A i \in 0..n : i \in G
    BY <2>1, <2>2, <2>3, UpTo
  <2> QED
    BY <2>4 DEF G
<1>10. st = w
  <2>1. w = [i \in 0..n |-> w[i]] /\ st = [i \in 0..n |-> st[i]]
    BY <1>5, <1>6, Zenon
  <2> QED
    BY <1>9, <2>1
<1> QED
  BY <1>7, <1>10 DEF w, s, UpStates

\* and puts out what the half-band filter makes of it.
LEMMA UpBlock ==
  ASSUME NEW t, NEW x, NEW y, NEW r, NEW j, NEW l, NEW in, UpFits(t, x, y, r, j, l, in)
  PROVE  Interleaved(t, UpStates(r, y, j, l, Len(in)), Len(in))
           = Slice(Up(t, x), 2 * j, 2 * Len(in))
<1> DEFINE n == Len(in)
<1>0. /\ t \in Tables /\ x \in Seq(Int) /\ r \in StageRun(t, x, y) /\ j \in Nat /\ l \in Nat
      /\ n \in Nat /\ j + n <= Len(x)
  BY LenProperties DEF UpFits
<1> HIDE DEF n
<1> USE <1>0
<1> DEFINE st == [i \in 0..n |-> StageAt(r, y, j + i, l)]
<1>1. /\ Len(x) \in Nat
      /\ r.a \in Through(t["upDirect"], AtRest(t["upDirect"]), x)
      /\ r.b \in Through(t["upDelayed"], AtRest(t["upDelayed"]), x)
  BY LenProperties DEF StageRun
<1>2. \A k \in 1..Len(x) : /\ Up(t, x)[2 * k - 1] = Last(r.a[k], t["upDirect"])
                           /\ Up(t, x)[2 * k] = Last(r.b[k], t["upDelayed"])
  BY <1>1, UpIs
<1>3. \A k \in 1..n : UpPair(t, st[k]) =
        << Last(r.a[j + k], t["upDirect"]), Last(r.b[j + k], t["upDelayed"]) >>
  BY DEF UpPair, StageAt, Stage
<1> HIDE DEF st
<1>4. ASSUME NEW i \in 1..2 * n
      PROVE  UpPair(t, st[(i + 1) \div 2])[2 - (i % 2)] = Up(t, x)[2 * j + i]
  <2>1. PICK k \in 1..n : i = 2 * k - 1 \/ i = 2 * k
    BY Places
  <2>2. j + k \in 1..Len(x)
    BY <1>1, <2>1
  <2>3. CASE i = 2 * k - 1
    <3>1. (i + 1) \div 2 = k /\ 2 - (i % 2) = 1 /\ 2 * j + i = 2 * (j + k) - 1
      BY <2>1, <2>3
    <3>2. UpPair(t, st[k])[1] = Last(r.a[j + k], t["upDirect"])
      BY <1>3
    <3>3. Up(t, x)[2 * (j + k) - 1] = Last(r.a[j + k], t["upDirect"])
      BY <1>2, <2>2
    <3> QED
      BY <3>1, <3>2, <3>3
  <2>4. CASE i = 2 * k
    <3>1. (i + 1) \div 2 = k /\ 2 - (i % 2) = 2 /\ 2 * j + i = 2 * (j + k)
      BY <2>1, <2>4
    <3>2. UpPair(t, st[k])[2] = Last(r.b[j + k], t["upDelayed"])
      BY <1>3
    <3>3. Up(t, x)[2 * (j + k)] = Last(r.b[j + k], t["upDelayed"])
      BY <1>2, <2>2
    <3> QED
      BY <3>1, <3>2, <3>3
  <2> QED
    BY <2>1, <2>3, <2>4
<1>5. Interleaved(t, st, n) = [i \in 1..2 * n |-> Up(t, x)[2 * j + i]]
  BY <1>4 DEF Interleaved
<1> QED
  BY <1>5 DEF st, n, UpStates, Slice

\* So does a block of y downwards.
LEMMA StageDownIs ==
  ASSUME NEW t, NEW x, NEW h, NEW y, NEW r, NEW j, NEW l, NEW n, NEW in,
         DownFits(t, x, h, y, r, j, l, n, in)
  PROVE  StageDown(t, StageAt(r, y, j, l), in) = DownStates(r, y, j, l, n)
<1>0. /\ h \in Nat /\ y \in Seq(Int) /\ Len(y) = 2 * h
      /\ r \in StageRun(t, x, y) /\ j \in Nat /\ l \in Nat
      /\ n \in Nat /\ in \in Seq(Int) /\ Len(in) = 2 * n /\ l + n <= h
      /\ \A i \in 1..2 * n : in[i] = y[2 * l + i]
  BY DEF DownFits
<1> USE <1>0
<1> DEFINE w == [i \in 0..n |-> StageAt(r, y, j, l + i)]
           s == StageAt(r, y, j, l)
           st == CHOOSE st : st = [i \in 0..Len(in) \div 2 |->
                   IF i = 0 THEN s ELSE ProcessDown(t, st[i - 1], in[2 * i - 1], in[2 * i])]
<1>1. Len(in) \div 2 = n
  OBVIOUS
<1>2. /\ \A k \in 1..h : r.c[k] = Cascade(r.c[k - 1], t["downDirect"], Evens(y)[k])
      /\ \A k \in 1..h : r.d[k] = Cascade(r.d[k - 1], t["downDelayed"], OddsBefore(y)[k])
  <2>1. Len(Evens(y)) = h /\ Len(OddsBefore(y)) = h
    BY HalvesAre
  <2> QED
    BY <2>1 DEF StageRun, Through
<1>3. \A k \in 1..h : /\ Evens(y)[k] = y[2 * k - 1]
                      /\ OddsBefore(y)[k] = IF k = 1 THEN 0 ELSE y[2 * k - 2]
  <2>1. \A k \in 1..h : Evens(y)[k] = y[2 * k - 1]
    BY HalvesAre
  <2>2. \A k \in 1..h : OddsBefore(y)[k] = IF k = 1 THEN 0 ELSE y[2 * k - 2]
    BY HalvesAre
  <2> QED
    BY <2>1, <2>2
<1>3a. l \in Nat /\ n \in Nat /\ h \in Nat /\ l + n <= h
  BY <1>0
<1>4. ASSUME NEW i \in 1..n
      PROVE  ProcessDown(t, StageAt(r, y, j, l + (i - 1)), in[2 * i - 1], in[2 * i])
               = StageAt(r, y, j, l + i)
  <2> DEFINE m == l + (i - 1)
  <2>1. /\ l + i \in 1..h /\ (l + i) - 1 = m /\ l + i # 0
        /\ (m = 0 <=> l + i = 1)
        /\ 2 * (l + i) - 2 = 2 * m
    BY ONLY <1>3a
  <2>2. in[2 * i - 1] = y[2 * (l + i) - 1] /\ in[2 * i] = y[2 * (l + i)]
    <3>1. /\ 2 * i - 1 \in 1..2 * n /\ 2 * l + (2 * i - 1) = 2 * (l + i) - 1
          /\ 2 * i \in 1..2 * n /\ 2 * l + 2 * i = 2 * (l + i)
      OBVIOUS
    <3> QED
      BY <3>1
  <2> DEFINE e == IF l + (i - 1) = 0 THEN 0 ELSE y[2 * (l + (i - 1))]
  <2>3. OddsBefore(y)[l + i] = e
    BY <1>3, <2>1
  <2> HIDE DEF e
  <2>4. /\ r.c[l + i] = Cascade(r.c[l + (i - 1)], t["downDirect"], in[2 * i - 1])
        /\ r.d[l + i] = Cascade(r.d[l + (i - 1)], t["downDelayed"], e)
    <3>1. Evens(y)[l + i] = in[2 * i - 1]
      BY <1>3, <2>1, <2>2
    <3> HIDE DEF m
    <3>2. /\ r.c[l + i] = Cascade(r.c[m], t["downDirect"], Evens(y)[l + i])
          /\ r.d[l + i] = Cascade(r.d[m], t["downDelayed"], OddsBefore(y)[l + i])
      BY <1>2, <2>1
    <3> QED
      BY <2>3, <3>1, <3>2 DEF m
  <2>5. StageAt(r, y, j, l + (i - 1)) = Stage(r.a[j], r.b[j], r.c[l + (i - 1)], r.d[l + (i - 1)], e)
    BY DEF StageAt, e
  <2>6. StageAt(r, y, j, l + i) = Stage(r.a[j], r.b[j], r.c[l + i], r.d[l + i], in[2 * i])
    BY <2>1, <2>2 DEF StageAt
  <2> QED
    BY <2>4, <2>5, <2>6, StageSteps
<1>5. w[0] = s /\ \A i \in 1..n : w[i] = ProcessDown(t, w[i - 1], in[2 * i - 1], in[2 * i])
  <2>1. w[0] = s
    OBVIOUS
  <2>2. \A i \in 1..n : w[i] = StageAt(r, y, j, l + i) /\ w[i - 1] = StageAt(r, y, j, l + (i - 1))
    <3>1. \A i \in 1..n : i \in 0..n /\ i - 1 \in 0..n
      OBVIOUS
    <3> QED
      BY <3>1
  <2> HIDE DEF w
  <2> QED
    BY <1>4, <2>1, <2>2
<1>6. w = [i \in 0..Len(in) \div 2 |->
            IF i = 0 THEN s ELSE ProcessDown(t, w[i - 1], in[2 * i - 1], in[2 * i])]
  <2>1. \A i \in 0..n : w[i] = IF i = 0 THEN s ELSE ProcessDown(t, w[i - 1], in[2 * i - 1], in[2 * i])
    <3> HIDE DEF w, s
    <3>1. \A i \in 0..n : i # 0 => i \in 1..n
      OBVIOUS
    <3> QED
      BY <1>5, <3>1
  <2> QED
    BY <1>1, <2>1
<1>7. st = [i \in 0..Len(in) \div 2 |->
             IF i = 0 THEN s ELSE ProcessDown(t, st[i - 1], in[2 * i - 1], in[2 * i])]
  <2> HIDE DEF w, s
  <2> QED
    BY <1>6
<1>8. StageDown(t, s, in) = st
  BY DEF StageDown
<1> HIDE DEF st, w, s
<1>9. \A i \in 0..n : st[i] =
        IF i = 0 THEN s ELSE ProcessDown(t, st[i - 1], in[2 * i - 1], in[2 * i])
  BY <1>1, <1>7, Zenon
<1>10. \A i \in 0..n : st[i] = w[i]
  <2> DEFINE G == {i \in 0..n : st[i] = w[i]}
  <2>1. 0 \in G
    BY <1>5, <1>9
  <2>2. \A i \in 0..n : i # 0 /\ i - 1 \in G => i \in G
    BY <1>5, <1>9
  <2>3. 0 \in Int /\ n \in Int
    OBVIOUS
  <2> HIDE DEF G
  <2>4. \A i \in 0..n : i \in G
    BY <2>1, <2>2, <2>3, UpTo
  <2> QED
    BY <2>4 DEF G
<1>11. st = w
  <2>1. w = [i \in 0..n |-> w[i]] /\ st = [i \in 0..n |-> st[i]]
    BY <1>1, <1>6, <1>7, Zenon
  <2> QED
    BY <1>10, <2>1
<1> QED
  BY <1>8, <1>11 DEF w, s, DownStates

LEMMA DownBlock ==
  ASSUME NEW t, NEW x, NEW h, NEW y, NEW r, NEW j, NEW l, NEW n, NEW in,
         DownFits(t, x, h, y, r, j, l, n, in)
  PROVE  \A i \in 1..n : DownSample(t, DownStates(r, y, j, l, n)[i]) = Down(t, y)[l + i]
<1>0. /\ t \in Tables /\ h \in Nat /\ y \in Seq(Int) /\ Len(y) = 2 * h
      /\ r \in StageRun(t, x, y) /\ j \in Nat /\ l \in Nat /\ n \in Nat /\ l + n <= h
  BY DEF DownFits
<1> USE <1>0
<1>1. /\ r.c \in Through(t["downDirect"], AtRest(t["downDirect"]), Evens(y))
      /\ r.d \in Through(t["downDelayed"], AtRest(t["downDelayed"]), OddsBefore(y))
  BY DEF StageRun
<1>2. \A k \in 1..h : Down(t, y)[k] = Last(r.c[k], t["downDirect"]) + Last(r.d[k], t["downDelayed"])
  BY <1>1, DownIs
<1>3. \A k \in Nat : DownSample(t, StageAt(r, y, j, k))
                       = Last(r.c[k], t["downDirect"]) + Last(r.d[k], t["downDelayed"])
  BY DEF DownSample, StageAt, Stage
<1>4. \A i \in 1..n : /\ l + i \in 1..h /\ l + i \in Nat
                      /\ DownStates(r, y, j, l, n)[i] = StageAt(r, y, j, l + i)
  BY DEF DownStates
<1> QED
  BY <1>2, <1>3, <1>4

-----------------------------------------------------------------------------
(* The two stages within a whole signal *)

\* The signal at each place between x and what comes out of it.
Doubled(x) == Up(Tables0, x)
Quadrupled(x) == Up(Tables1, Doubled(x))
Worked(x) == Work(Quadrupled(x))
Halved(x) == Down(Tables1, Worked(x))

LEMMA SignalTypes ==
  ASSUME NEW x \in Seq(Int)
  PROVE  /\ Tables0 \in Tables /\ Tables1 \in Tables
         /\ Doubled(x) \in Seq(Int) /\ Len(Doubled(x)) = 2 * Len(x)
         /\ Quadrupled(x) \in Seq(Int) /\ Len(Quadrupled(x)) = 2 * (2 * Len(x))
         /\ Worked(x) \in Seq(Int) /\ Len(Worked(x)) = 2 * (2 * Len(x))
         /\ \A i \in 1..4 * Len(x) : Worked(x)[i] = Quadrupled(x)[i] * Quadrupled(x)[i]
         /\ Halved(x) \in Seq(Int) /\ Len(Halved(x)) = 2 * Len(x)
         /\ Reference(x) = Down(Tables0, Halved(x))
         /\ Reference(x) \in Seq(Int) /\ Len(Reference(x)) = Len(x)
<1> DEFINE n == Len(x)
<1>1. n \in Nat /\ 2 * n \in Nat /\ 2 * (2 * n) \in Nat /\ 4 * n = 2 * (2 * n)
  BY LenProperties
<1>2. Tables0 \in Tables /\ Tables1 \in Tables
  BY OversamplerAssumption DEF Tables, Tab
<1>3. ASSUME NEW t \in Tables, NEW u \in Seq(Int)
      PROVE  Up(t, u) \in Seq(Int) /\ Len(Up(t, u)) = 2 * Len(u)
  <2>1. \A c \in Cascades : t[c] \in Tab
    BY DEF Tables
  <2>2. PICK f \in Through(t["upDirect"], AtRest(t["upDirect"]), u) : TRUE
    BY <2>1, StaysAtRest, RunExists DEF Cascades
  <2>3. PICK g \in Through(t["upDelayed"], AtRest(t["upDelayed"]), u) : TRUE
    BY <2>1, StaysAtRest, RunExists DEF Cascades
  <2> QED
    BY UpIs
<1>4. ASSUME NEW t \in Tables, NEW u \in Seq(Int), NEW m \in Nat, Len(u) = 2 * m
      PROVE  Down(t, u) \in Seq(Int) /\ Len(Down(t, u)) = m
  <2>1. \A c \in Cascades : t[c] \in Tab
    BY DEF Tables
  <2>2. Evens(u) \in Seq(Int) /\ OddsBefore(u) \in Seq(Int)
    BY <1>4, HalvesAre
  <2>3. PICK f \in Through(t["downDirect"], AtRest(t["downDirect"]), Evens(u)) : TRUE
    BY <2>1, <2>2, StaysAtRest, RunExists DEF Cascades
  <2>4. PICK g \in Through(t["downDelayed"], AtRest(t["downDelayed"]), OddsBefore(u)) : TRUE
    BY <2>1, <2>2, StaysAtRest, RunExists DEF Cascades
  <2> QED
    BY <1>4, DownIs
<1>5. Doubled(x) \in Seq(Int) /\ Len(Doubled(x)) = 2 * n
  BY <1>2, <1>3 DEF Doubled
<1>6. Quadrupled(x) \in Seq(Int) /\ Len(Quadrupled(x)) = 2 * (2 * n)
  BY <1>2, <1>3, <1>5 DEF Quadrupled
<1>7. /\ Worked(x) \in Seq(Int) /\ Len(Worked(x)) = 2 * (2 * n)
      /\ \A i \in 1..4 * n : Worked(x)[i] = Quadrupled(x)[i] * Quadrupled(x)[i]
  <2> DEFINE m == 2 * (2 * n)
             u == Quadrupled(x)
             w == [i \in 1..m |-> u[i] * u[i]]
  <2>1. m \in Nat /\ 4 * n = m /\ DOMAIN u = 1..m /\ \A i \in 1..m : u[i] \in Int
    BY <1>1, <1>6, LenProperties, ElementOfSeq
  <2>2. Worked(x) = w
    BY <2>1 DEF Worked, Work
  <2> HIDE DEF m, u
  <2>3. w \in [1..m -> Int] /\ \A i \in 1..m : w[i] = u[i] * u[i]
    BY <2>1
  <2> HIDE DEF w
  <2>4. w \in Seq(Int) /\ Len(w) = m
    BY <2>1, <2>3, FunIsSeq
  <2> QED
    BY <2>1, <2>2, <2>3, <2>4 DEF m, u
<1>8. Halved(x) \in Seq(Int) /\ Len(Halved(x)) = 2 * n
  BY <1>1, <1>2, <1>4, <1>7 DEF Halved
<1>9. Reference(x) = Down(Tables0, Halved(x))
  BY DEF Reference, Halved, Worked, Quadrupled, Doubled
<1>10. Reference(x) \in Seq(Int) /\ Len(Reference(x)) = n
  BY <1>1, <1>2, <1>4, <1>8, <1>9
<1> QED
  BY <1>2, <1>5, <1>6, <1>7, <1>8, <1>9, <1>10

\* The runs of the two stages through x.
Runs0(x) == StageRun(Tables0, x, Halved(x))
Runs1(x) == StageRun(Tables1, Doubled(x), Worked(x))

\* The oversampler when j samples of x have gone up and l have come down.
OversamplerAt(x, r0, r1, j, l) ==
  [stage0 |-> StageAt(r0, Halved(x), j, l), stage1 |-> StageAt(r1, Worked(x), 2 * j, 2 * l)]

Sliceable(u, j, n) == u \in Seq(Int) /\ j \in Nat /\ n \in Nat /\ j + n <= Len(u)

LEMMA SliceIs ==
  ASSUME NEW u, NEW j, NEW n, Sliceable(u, j, n)
  PROVE  /\ Slice(u, j, n) \in Seq(Int) /\ Len(Slice(u, j, n)) = n
         /\ \A i \in 1..n : Slice(u, j, n)[i] = u[j + i]
<1> USE DEF Sliceable
<1>1. Len(u) \in Nat
  BY LenProperties
<1>2. \A i \in 1..n : u[j + i] \in Int
  <2>1. \A i \in 1..n : j + i \in 1..Len(u)
    BY <1>1
  <2> QED
    BY <2>1, ElementOfSeq
<1>3. Slice(u, j, n) \in [1..n -> Int] /\ \A i \in 1..n : Slice(u, j, n)[i] = u[j + i]
  BY <1>2 DEF Slice
<1> QED
  BY <1>3, FunIsSeq

\* A block that goes up, from wherever the signal has come to,
BlockFits(x, r0, r1, j, l, n) ==
  /\ x \in Seq(Int) /\ r0 \in Runs0(x) /\ r1 \in Runs1(x)
  /\ j \in Nat /\ l \in Nat /\ n \in Nat

LEMMA BlockUp ==
  ASSUME NEW x, NEW r0, NEW r1, NEW j, NEW l, NEW n, BlockFits(x, r0, r1, j, l, n),
         n <= MaxBlock, j + n <= Len(x)
  PROVE  ProcessSamplesUp(OversamplerAt(x, r0, r1, j, l), Slice(x, j, n)) =
           [os  |-> OversamplerAt(x, r0, r1, j + n, l),
            out |-> Slice(Quadrupled(x), 4 * j, 4 * n)]
<1> DEFINE in == Slice(x, j, n)
           s0 == StageAt(r0, Halved(x), j, l)
           s1 == StageAt(r1, Worked(x), 2 * j, 2 * l)
           st0 == UpStates(r0, Halved(x), j, l, n)
           buf2 == Slice(Doubled(x), 2 * j, 2 * n)
           st1 == UpStates(r1, Worked(x), 2 * j, 2 * l, 2 * n)
           out == Slice(Quadrupled(x), 4 * j, 4 * n)
<1>1. /\ x \in Seq(Int) /\ j \in Nat /\ l \in Nat /\ n \in Nat
      /\ Len(x) \in Nat /\ ~(n > MaxBlock)
      /\ 2 * n \in Nat /\ 2 * j \in Nat /\ 2 * l \in Nat /\ 2 * j + 2 * n <= 2 * Len(x)
      /\ 2 * (2 * n) = 4 * n /\ 2 * (2 * j) = 4 * j /\ 2 * (j + n) = 2 * j + 2 * n
  BY LenProperties, OversamplerAssumption DEF BlockFits
<1>2. /\ Tables0 \in Tables /\ Tables1 \in Tables
      /\ Doubled(x) \in Seq(Int) /\ Len(Doubled(x)) = 2 * Len(x)
      /\ r0 \in StageRun(Tables0, x, Halved(x))
      /\ r1 \in StageRun(Tables1, Doubled(x), Worked(x))
  BY <1>1, SignalTypes DEF BlockFits, Runs0, Runs1
<1>3. in \in Seq(Int) /\ Len(in) = n /\ \A i \in 1..n : in[i] = x[j + i]
  <2>1. Sliceable(x, j, n)
    BY <1>1 DEF Sliceable
  <2> QED
    BY <2>1, SliceIs
<1>4. buf2 \in Seq(Int) /\ Len(buf2) = 2 * n /\ \A i \in 1..2 * n : buf2[i] = Doubled(x)[2 * j + i]
  <2>1. Sliceable(Doubled(x), 2 * j, 2 * n)
    BY <1>1, <1>2 DEF Sliceable
  <2> QED
    BY <2>1, SliceIs
<1> HIDE DEF in, buf2
<1>5. UpFits(Tables0, x, Halved(x), r0, j, l, in)
  BY <1>1, <1>2, <1>3 DEF UpFits
<1>6. StageUp(Tables0, s0, in) = st0 /\ Interleaved(Tables0, st0, n) = buf2
  BY <1>3, <1>5, StageUpIs, UpBlock DEF Doubled, buf2
<1>7. UpFits(Tables1, Doubled(x), Worked(x), r1, 2 * j, 2 * l, buf2)
  BY <1>1, <1>2, <1>4 DEF UpFits
<1>8. StageUp(Tables1, s1, buf2) = st1 /\ Interleaved(Tables1, st1, 2 * n) = out
  <2>1. /\ StageUp(Tables1, s1, buf2) = UpStates(r1, Worked(x), 2 * j, 2 * l, Len(buf2))
        /\ Interleaved(Tables1, UpStates(r1, Worked(x), 2 * j, 2 * l, Len(buf2)), Len(buf2))
             = Slice(Quadrupled(x), 2 * (2 * j), 2 * Len(buf2))
    BY <1>7, StageUpIs, UpBlock DEF Quadrupled
  <2> QED
    BY <1>1, <1>4, <2>1
<1>9. /\ st0[n] = StageAt(r0, Halved(x), j + n, l)
      /\ st1[2 * n] = StageAt(r1, Worked(x), 2 * (j + n), 2 * l)
  BY <1>1 DEF UpStates
<1> DEFINE os == OversamplerAt(x, r0, r1, j, l)
<1>10. os.stage0 = s0 /\ os.stage1 = s1
  BY DEF OversamplerAt
<1> HIDE DEF os, s0, s1, st0, st1, out
<1>11. ProcessSamplesUp(os, in) =
         [os |-> [stage0 |-> st0[n], stage1 |-> st1[2 * n]], out |-> out]
  BY <1>1, <1>3, <1>4, <1>6, <1>8, <1>10 DEF ProcessSamplesUp
<1> QED
  BY <1>9, <1>11 DEF os, out, in, OversamplerAt

\* and one that comes down, once the circuit has been at it.
LEMMA BlockDown ==
  ASSUME NEW x, NEW r0, NEW r1, NEW j, NEW l, NEW n, BlockFits(x, r0, r1, j, l, n),
         l + n <= Len(x)
  PROVE  ProcessSamplesDown(OversamplerAt(x, r0, r1, j, l), Slice(Worked(x), 4 * l, 4 * n)) =
           [os  |-> OversamplerAt(x, r0, r1, j, l + n), out |-> Slice(Reference(x), l, n)]
<1> DEFINE buf4 == Slice(Worked(x), 4 * l, 4 * n)
           s0 == StageAt(r0, Halved(x), j, l)
           s1 == StageAt(r1, Worked(x), 2 * j, 2 * l)
           st0 == DownStates(r0, Halved(x), j, l, n)
           buf2 == Slice(Halved(x), 2 * l, 2 * n)
           st1 == DownStates(r1, Worked(x), 2 * j, 2 * l, 2 * n)
           out == Slice(Reference(x), l, n)
<1>1. /\ x \in Seq(Int) /\ j \in Nat /\ l \in Nat /\ n \in Nat /\ Len(x) \in Nat
      /\ 2 * n \in Nat /\ 2 * j \in Nat /\ 2 * l \in Nat /\ 2 * Len(x) \in Nat
      /\ 4 * n \in Nat /\ 4 * l \in Nat
      /\ 2 * l + 2 * n <= 2 * Len(x) /\ 4 * l + 4 * n <= 2 * (2 * Len(x))
      /\ 2 * (2 * n) = 4 * n /\ 2 * (2 * l) = 4 * l /\ 2 * (l + n) = 2 * l + 2 * n
      /\ (2 * n) \div 2 = n /\ (4 * n) \div 2 = 2 * n
  BY LenProperties DEF BlockFits
<1>2. /\ Tables0 \in Tables /\ Tables1 \in Tables
      /\ Worked(x) \in Seq(Int) /\ Len(Worked(x)) = 2 * (2 * Len(x))
      /\ Halved(x) \in Seq(Int) /\ Len(Halved(x)) = 2 * Len(x)
      /\ Reference(x) = Down(Tables0, Halved(x))
      /\ r0 \in StageRun(Tables0, x, Halved(x))
      /\ r1 \in StageRun(Tables1, Doubled(x), Worked(x))
  BY <1>1, SignalTypes DEF BlockFits, Runs0, Runs1
<1>3. buf4 \in Seq(Int) /\ Len(buf4) = 4 * n /\ \A i \in 1..4 * n : buf4[i] = Worked(x)[4 * l + i]
  <2>1. Sliceable(Worked(x), 4 * l, 4 * n)
    BY <1>1, <1>2 DEF Sliceable
  <2> QED
    BY <2>1, SliceIs
<1>4. buf2 \in Seq(Int) /\ Len(buf2) = 2 * n /\ \A i \in 1..2 * n : buf2[i] = Halved(x)[2 * l + i]
  <2>1. Sliceable(Halved(x), 2 * l, 2 * n)
    BY <1>1, <1>2 DEF Sliceable
  <2> QED
    BY <2>1, SliceIs
<1> HIDE DEF buf4, buf2
<1>5. DownFits(Tables1, Doubled(x), 2 * Len(x), Worked(x), r1, 2 * j, 2 * l, 2 * n, buf4)
  BY <1>1, <1>2, <1>3 DEF DownFits
<1>6. /\ StageDown(Tables1, s1, buf4) = st1
      /\ \A i \in 1..2 * n : DownSample(Tables1, st1[i]) = Halved(x)[2 * l + i]
  BY <1>5, StageDownIs, DownBlock DEF Halved
<1>7. DownFits(Tables0, x, Len(x), Halved(x), r0, j, l, n, buf2)
  BY <1>1, <1>2, <1>4 DEF DownFits
<1>8. /\ StageDown(Tables0, s0, buf2) = st0
      /\ \A i \in 1..n : DownSample(Tables0, st0[i]) = Reference(x)[l + i]
  BY <1>2, <1>7, StageDownIs, DownBlock
<1>9. /\ st0[n] = StageAt(r0, Halved(x), j, l + n)
      /\ st1[2 * n] = StageAt(r1, Worked(x), 2 * j, 2 * (l + n))
  BY <1>1 DEF DownStates
<1> DEFINE os == OversamplerAt(x, r0, r1, j, l)
<1>10. os.stage0 = s0 /\ os.stage1 = s1
  BY DEF OversamplerAt
<1> HIDE DEF os, s0, s1, st0, st1
<1>11. [i \in 1..2 * n |-> DownSample(Tables1, st1[i])] = buf2
  BY <1>6 DEF buf2, Slice
<1>12. [i \in 1..n |-> DownSample(Tables0, st0[i])] = out
  BY <1>8 DEF Slice
<1> HIDE DEF out
<1>13. ProcessSamplesDown(os, buf4) =
         [os |-> [stage0 |-> st0[n], stage1 |-> st1[2 * n]], out |-> out]
  BY <1>1, <1>3, <1>6, <1>8, <1>10, <1>11, <1>12 DEF ProcessSamplesDown
<1> QED
  BY <1>9, <1>13 DEF os, out, buf4, OversamplerAt

LEMMA StageRuns ==
  ASSUME NEW t \in Tables, NEW x \in Seq(Int), NEW y \in Seq(Int), NEW h \in Nat, Len(y) = 2 * h
  PROVE  StageRun(t, x, y) # {}
<1>1. \A c \in Cascades : t[c] \in Tab
  BY DEF Tables
<1>2. Evens(y) \in Seq(Int) /\ OddsBefore(y) \in Seq(Int)
  BY HalvesAre
<1>3. PICK a \in Through(t["upDirect"], AtRest(t["upDirect"]), x) : TRUE
  BY <1>1, StaysAtRest, RunExists DEF Cascades
<1>4. PICK b \in Through(t["upDelayed"], AtRest(t["upDelayed"]), x) : TRUE
  BY <1>1, StaysAtRest, RunExists DEF Cascades
<1>5. PICK c \in Through(t["downDirect"], AtRest(t["downDirect"]), Evens(y)) : TRUE
  BY <1>1, <1>2, StaysAtRest, RunExists DEF Cascades
<1>6. PICK d \in Through(t["downDelayed"], AtRest(t["downDelayed"]), OddsBefore(y)) : TRUE
  BY <1>1, <1>2, StaysAtRest, RunExists DEF Cascades
<1>7. [a |-> a, b |-> b, c |-> c, d |-> d] \in StageRun(t, x, y)
  BY <1>3, <1>4, <1>5, <1>6 DEF StageRun
<1> QED
  BY <1>7

\* A signal cut at k.
LEMMA CutIs ==
  ASSUME NEW u \in Seq(Int), NEW k \in Nat, NEW n \in Nat, Len(u) = k + n
  PROVE  /\ SubSeq(u, 1, k) = Slice(u, 0, k)
         /\ SubSeq(u, k + 1, Len(u)) = Slice(u, k, n)
         /\ Slice(u, 0, k) \o Slice(u, k, n) = u
<1>1. /\ Len(u) \in Nat
      /\ \A i \in 1..Len(u) : u[i] \in Int
  BY LenProperties, ElementOfSeq
<1>2. Sliceable(u, 0, k) /\ Sliceable(u, k, n)
  BY <1>1 DEF Sliceable
<1>3. /\ Slice(u, 0, k) \in Seq(Int) /\ Len(Slice(u, 0, k)) = k
      /\ \A i \in 1..k : Slice(u, 0, k)[i] = u[0 + i]
  <2>1. Sliceable(u, 0, k)
    BY <1>2
  <2> QED
    BY <2>1, SliceIs
<1>4. /\ Slice(u, k, n) \in Seq(Int) /\ Len(Slice(u, k, n)) = n
      /\ \A i \in 1..n : Slice(u, k, n)[i] = u[k + i]
  <2>1. Slice(u, k, n) \in Seq(Int) /\ Len(Slice(u, k, n)) = n
    BY <1>2, SliceIs
  <2>2. \A i \in 1..n : Slice(u, k, n)[i] = u[k + i]
    BY DEF Slice
  <2> QED
    BY <2>1, <2>2
<1> DEFINE a == Slice(u, 0, k)
           b == Slice(u, k, n)
<1> HIDE DEF a, b
<1>5. SubSeq(u, 1, k) = a
  <2>1. \A i \in 1..k : u[i] \in Int
    BY <1>1
  <2>2. /\ SubSeq(u, 1, k) \in Seq(Int)
        /\ Len(SubSeq(u, 1, k)) = IF 1 <= k THEN k - 1 + 1 ELSE 0
        /\ \A i \in 1..k - 1 + 1 : SubSeq(u, 1, k)[i] = u[1 + i - 1]
    BY <1>1, <2>1, SubSeqProperties
  <2>3. Len(SubSeq(u, 1, k)) = k /\ \A i \in 1..k : SubSeq(u, 1, k)[i] = a[i]
    BY <1>1, <1>3, <2>2 DEF a
  <2> QED
    BY <1>3, <2>2, <2>3, SeqEqual DEF a
<1>6. SubSeq(u, k + 1, Len(u)) = b
  <2>1. \A i \in k + 1..Len(u) : u[i] \in Int
    BY <1>1
  <2> DEFINE m == Len(u)  d == k + 1
  <2>2. /\ m \in Int /\ d \in Int /\ m - d + 1 = n /\ (d <= m <=> n # 0)
        /\ \A i \in 1..n : d + i - 1 = k + i
        /\ \A i \in d..m : u[i] \in Int
    BY <1>1, <2>1
  <2> HIDE DEF m, d
  <2>3. /\ SubSeq(u, d, m) \in Seq(Int)
        /\ Len(SubSeq(u, d, m)) = IF d <= m THEN m - d + 1 ELSE 0
        /\ \A i \in 1..m - d + 1 : SubSeq(u, d, m)[i] = u[d + i - 1]
    BY <2>2, SubSeqProperties
  <2>4. Len(SubSeq(u, d, m)) = n /\ \A i \in 1..n : SubSeq(u, d, m)[i] = b[i]
    BY <1>4, <2>2, <2>3 DEF b
  <2>5. SubSeq(u, d, m) = b
    BY <1>4, <2>3, <2>4, SeqEqual DEF b
  <2> QED
    BY <2>5 DEF m, d
<1>7. a \o b = u
  <2>1. /\ a \o b \in Seq(Int) /\ Len(a \o b) = k + n
        /\ \A i \in 1..k + n : (a \o b)[i] = IF i <= k THEN a[i] ELSE b[i - k]
    <3>1. a \in Seq(Int) /\ Len(a) = k /\ b \in Seq(Int) /\ Len(b) = n
      BY <1>3, <1>4 DEF a, b
    <3> QED
      BY <3>1, ConcatProperties
  <2>2. \A i \in 1..k + n : (a \o b)[i] = u[i]
    <3> TAKE i \in 1..k + n
    <3>1. CASE i <= k
      <4>1. i \in 1..k /\ 0 + i = i
        BY <1>1, <3>1
      <4> QED
        BY <1>3, <2>1, <3>1, <4>1 DEF a
    <3>2. CASE ~(i <= k)
      <4>1. i - k \in 1..n /\ k + (i - k) = i
        BY <1>1, <3>2
      <4> QED
        BY <1>4, <2>1, <3>2, <4>1 DEF b
    <3> QED
      BY <3>1, <3>2
  <2> QED
    BY <1>1, <2>1, <2>2, SeqEqual
<1> QED
  BY <1>5, <1>6, <1>7 DEF a, b

\* Work is done sample by sample.
LEMMA WorkedSlice ==
  ASSUME NEW x \in Seq(Int), NEW j \in Nat, NEW n \in Nat, j + n <= Len(x)
  PROVE  Work(Slice(Quadrupled(x), 4 * j, 4 * n)) = Slice(Worked(x), 4 * j, 4 * n)
<1> DEFINE s == Slice(Quadrupled(x), 4 * j, 4 * n)
<1>1. /\ Quadrupled(x) \in Seq(Int) /\ Len(Quadrupled(x)) = 2 * (2 * Len(x))
      /\ \A i \in 1..4 * Len(x) : Worked(x)[i] = Quadrupled(x)[i] * Quadrupled(x)[i]
  BY SignalTypes
<1>2. /\ Len(x) \in Nat /\ 4 * j \in Nat /\ 4 * n \in Nat /\ 4 * j + 4 * n <= 2 * (2 * Len(x))
      /\ \A i \in 1..4 * n : 4 * j + i \in 1..4 * Len(x)
  BY LenProperties
<1>3. DOMAIN s = 1..4 * n /\ \A i \in 1..4 * n : s[i] = Quadrupled(x)[4 * j + i]
  BY DEF Slice
<1>4. Work(s) = [i \in 1..4 * n |-> s[i] * s[i]]
  BY <1>3 DEF Work
<1>5. \A i \in 1..4 * n : s[i] * s[i] = Worked(x)[4 * j + i]
  BY <1>1, <1>2, <1>3
<1> HIDE DEF s
<1> QED
  BY <1>4, <1>5 DEF Slice, s

\* So two blocks come out as the half-band filters would have the signal.
THEOREM ResampledInTwo ==
  ASSUME NEW x \in Seq(Int), NEW k \in Nat, NEW n \in Nat, Len(x) = k + n,
         k <= MaxBlock, n <= MaxBlock
  PROVE  Resampled(x, k) = Reference(x)
<1>1. /\ Len(x) \in Nat /\ k \in Nat /\ n \in Nat /\ 0 \in Nat /\ k + n = Len(x)
      /\ 0 + k = k /\ 4 * 0 = 0 /\ k <= MaxBlock /\ n <= MaxBlock
      /\ k <= Len(x) /\ 0 + k <= Len(x) /\ k + n <= Len(x)
  BY LenProperties
<1>2. /\ Tables0 \in Tables /\ Tables1 \in Tables /\ Doubled(x) \in Seq(Int)
      /\ Worked(x) \in Seq(Int) /\ Len(Worked(x)) = 2 * (2 * Len(x)) /\ 2 * Len(x) \in Nat
      /\ Halved(x) \in Seq(Int) /\ Len(Halved(x)) = 2 * Len(x)
      /\ Reference(x) \in Seq(Int) /\ Len(Reference(x)) = Len(x)
  BY <1>1, SignalTypes
<1>3. PICK r0 \in Runs0(x) : TRUE
  BY <1>1, <1>2, StageRuns DEF Runs0
<1>4. PICK r1 \in Runs1(x) : TRUE
  BY <1>2, StageRuns DEF Runs1
<1> DEFINE At(j, l) == OversamplerAt(x, r0, r1, j, l)
           in1 == Slice(x, 0, k)  in2 == Slice(x, k, n)
           buf1 == Slice(Quadrupled(x), 0, 4 * k)  buf2 == Slice(Quadrupled(x), 4 * k, 4 * n)
           out1 == Slice(Reference(x), 0, k)  out2 == Slice(Reference(x), k, n)
<1>5. OversamplerReset = At(0, 0)
  <2>1. StageAt(r0, Halved(x), 0, 0) = StageReset(Tables0)
    BY <1>3, StageStarts DEF Runs0
  <2>2. StageAt(r1, Worked(x), 0, 0) = StageReset(Tables1)
    BY <1>4, StageStarts DEF Runs1
  <2>3. 2 * 0 = 0
    OBVIOUS
  <2> QED
    BY <2>1, <2>2, <2>3 DEF OversamplerReset, OversamplerAt
<1>6. SubSeq(x, 1, k) = in1 /\ SubSeq(x, k + 1, Len(x)) = in2
  BY CutIs
<1>7. out1 \o out2 = Reference(x)
  BY <1>1, <1>2, CutIs
<1>8. /\ BlockFits(x, r0, r1, 0, 0, k) /\ BlockFits(x, r0, r1, k, 0, k)
      /\ BlockFits(x, r0, r1, k, k, n) /\ BlockFits(x, r0, r1, k + n, k, n)
  BY <1>1, <1>3, <1>4 DEF BlockFits
<1>9. ProcessSamplesUp(At(0, 0), in1) = [os |-> At(k, 0), out |-> buf1]
  BY <1>1, <1>8, BlockUp
<1>10. ProcessSamplesDown(At(k, 0), Work(buf1)) = [os |-> At(k, k), out |-> out1]
  <2>1. Work(buf1) = Slice(Worked(x), 4 * 0, 4 * k)
    BY <1>1, WorkedSlice
  <2>2. ProcessSamplesDown(At(k, 0), Slice(Worked(x), 4 * 0, 4 * k))
          = [os |-> At(k, 0 + k), out |-> Slice(Reference(x), 0, k)]
    BY <1>1, <1>8, BlockDown
  <2> QED
    BY <1>1, <2>1, <2>2
<1>11. ProcessSamplesUp(At(k, k), in2) = [os |-> At(k + n, k), out |-> buf2]
  BY <1>1, <1>8, BlockUp
<1>12. ProcessSamplesDown(At(k + n, k), Work(buf2)) = [os |-> At(k + n, k + n), out |-> out2]
  <2>1. Work(buf2) = Slice(Worked(x), 4 * k, 4 * n)
    BY <1>1, WorkedSlice
  <2> DEFINE j == k + n
  <2>2. BlockFits(x, r0, r1, j, k, n)
    BY <1>8
  <2> HIDE DEF j, At, out2
  <2>3. ProcessSamplesDown(OversamplerAt(x, r0, r1, j, k), Slice(Worked(x), 4 * k, 4 * n)) =
          [os  |-> OversamplerAt(x, r0, r1, j, k + n), out |-> Slice(Reference(x), k, n)]
    BY <1>1, <2>2, BlockDown
  <2> QED
    BY <2>1, <2>3 DEF j, At, out2
<1> HIDE DEF At, in1, in2, buf1, buf2, out1, out2
<1>13. Resampled(x, k) = out1 \o out2
  <2> DEFINE up1 == ProcessSamplesUp(OversamplerReset, SubSeq(x, 1, k))
             down1 == ProcessSamplesDown(up1.os, Work(up1.out))
             up2 == ProcessSamplesUp(down1.os, SubSeq(x, k + 1, Len(x)))
             down2 == ProcessSamplesDown(up2.os, Work(up2.out))
  <2>1. Resampled(x, k) = down1.out \o down2.out
    BY DEF Resampled
  <2>2. up1.os = At(k, 0) /\ up1.out = buf1
    <3>1. up1 = ProcessSamplesUp(At(0, 0), in1)
      BY <1>5, <1>6, Zenon
    <3> QED
      BY ONLY <1>9, <3>1
  <2> HIDE DEF up1
  <2>3. down1.os = At(k, k) /\ down1.out = out1
    BY <1>10, <2>2
  <2> HIDE DEF down1
  <2>4. up2.os = At(k + n, k) /\ up2.out = buf2
    <3>1. up2 = ProcessSamplesUp(At(k, k), in2)
      BY <1>6, <2>3, Zenon
    <3> QED
      BY ONLY <1>11, <3>1
  <2> HIDE DEF up2
  <2>5. down2.out = out2
    BY <1>12, <2>4
  <2> HIDE DEF down2
  <2> QED
    BY <2>1, <2>3, <2>5
<1> QED
  BY <1>7, <1>13

\* Any signal that fits in two blocks comes out as the half-band filters would have it.
LEMMA AllAreResampled == AllResampled
<1> SUFFICES ASSUME NEW x \in Signals, NEW k \in 0..Len(x),
                    k <= MaxBlock, Len(x) - k <= MaxBlock
             PROVE  Resampled(x, k) = Reference(x)
  BY DEF AllResampled
<1> DEFINE n == Len(x) - k
<1>1. x \in Seq(Int)
  BY OversamplerAssumption
<1>2. Len(x) \in Nat
  BY <1>1, LenProperties
<1>3. k \in Nat /\ n \in Nat /\ Len(x) = k + n /\ n <= MaxBlock
  BY <1>2
<1> HIDE DEF n
<1> QED
  BY <1>1, <1>3, ResampledInTwo

\* The engine that is prepared resamples every signal exactly (Oversampler.h 92-195).
THEOREM EngineResamples == Spec => []ResamplesExactly
<1>1. ResamplesExactly
  BY AllAreResampled DEF ResamplesExactly
<1>2. IInv => ResamplesExactly
  BY <1>1
<1> QED
  BY <1>2, Inductive, PTL
=============================================================================
