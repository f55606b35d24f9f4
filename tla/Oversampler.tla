---------------------------- MODULE Oversampler -----------------------------
(***************************************************************************)
(* The 4x oversampler around the circuit (src/src/dsp/Oversampler.h): two  *)
(* half-band stages, each a pair of allpass cascades run at the lower of   *)
(* its two rates, with what they remember from one block to the next. They *)
(* are checked against the filter they stand for,                          *)
(* H(z) = (A0(z^2) + A1(z^2) / z) / 2, run sample by sample at the higher  *)
(* rate with nothing decimated, cut or remembered.                         *)
(*                                                                         *)
(* Both are polynomials in the coefficients, so samples and coefficients   *)
(* are integers here; the tables have other values, and rounding is the    *)
(* business of the repository's numeric tests. The factor 1/2 of           *)
(* processDown and of H is left out on both sides.                         *)
(***************************************************************************)
EXTENDS Integers, Sequences

CONSTANTS
  Tables0, Tables1,  \* the coefficients of stage 0 and of stage 1, by cascade
  MaxBlock,          \* what prepare was given
  Signals            \* what the oversampler is tried with

Cascades == {"upDirect", "upDelayed", "downDirect", "downDelayed"}

ASSUME OversamplerAssumption ==
  /\ MaxBlock \in Nat
  /\ \A x \in Signals : x \in Seq(Int)
  /\ Tables0 \in [Cascades -> Seq(Int) \ {<<>>}]
  /\ Tables1 \in [Cascades -> Seq(Int) \ {<<>>}]

-----------------------------------------------------------------------------
(* A stage *)

\* Allpass1::process; the new y1 is what the section returns.
Section(s, x, a) == [x1 |-> x, y1 |-> a * (x - s.y1) + s.x1]

\* A cascade of sections given x, with its state before.
Cascade(states, table, x) ==
  LET after[i \in 1..Len(table)] ==
        Section(states[i], IF i = 1 THEN x ELSE after[i - 1].y1, table[i])
  IN  after

Last(states, table) == states[Len(table)].y1

AtRest(table) == [i \in 1..Len(table) |-> [x1 |-> 0, y1 |-> 0]]

\* HalfBandStage2x::reset
StageReset(t) ==
  [upDirect |-> AtRest(t["upDirect"]), upDelayed |-> AtRest(t["upDelayed"]),
   downDirect |-> AtRest(t["downDirect"]), downDelayed |-> AtRest(t["downDelayed"]),
   downPrevOdd |-> 0]

\* processUp: one sample in, the even and the odd one out.
ProcessUp(t, s, x) ==
  [s EXCEPT !.upDirect = Cascade(@, t["upDirect"], x),
            !.upDelayed = Cascade(@, t["upDelayed"], x)]

UpPair(t, s) == << Last(s.upDirect, t["upDirect"]), Last(s.upDelayed, t["upDelayed"]) >>

\* Mutant: the delayed path is given the odd sample of the same pair.
ProcessDownSamePair(t, s, even, odd) ==
  [s EXCEPT !.downDirect = Cascade(@, t["downDirect"], even),
            !.downDelayed = Cascade(@, t["downDelayed"], odd),
            !.downPrevOdd = odd]

\* processDown: "the delayed path consumes the odd sample of the PREVIOUS pair".
ProcessDown(t, s, even, odd) ==
  [s EXCEPT !.downDirect = Cascade(@, t["downDirect"], even),
            !.downDelayed = Cascade(@, t["downDelayed"], s.downPrevOdd),
            !.downPrevOdd = odd]

DownSample(t, s) == Last(s.downDirect, t["downDirect"]) + Last(s.downDelayed, t["downDelayed"])

-----------------------------------------------------------------------------
(* The two stages over a block *)

\* The states of a stage before the block and after each of its samples or pairs.
StageUp(t, s, in) ==
  LET st[i \in 0..Len(in)] == IF i = 0 THEN s ELSE ProcessUp(t, st[i - 1], in[i])
  IN  st

StageDown(t, s, in) ==
  LET st[i \in 0..Len(in) \div 2] ==
        IF i = 0 THEN s ELSE ProcessDown(t, st[i - 1], in[2 * i - 1], in[2 * i])
  IN  st

Interleaved(t, st, n) == [i \in 1..2 * n |-> UpPair(t, st[(i + 1) \div 2])[2 - (i % 2)]]

OversamplerReset == [stage0 |-> StageReset(Tables0), stage1 |-> StageReset(Tables1)]

\* processSamplesUp: the oversampler after the block and the buffer of four times its
\* length, or no buffer if the block is too long for it.
ProcessSamplesUp(os, in) ==
  IF Len(in) > MaxBlock THEN [os |-> os, out |-> <<>>]
  ELSE LET st0  == StageUp(Tables0, os.stage0, in)
           buf2 == Interleaved(Tables0, st0, Len(in))
           st1  == StageUp(Tables1, os.stage1, buf2)
       IN  [os  |-> [stage0 |-> st0[Len(in)], stage1 |-> st1[Len(buf2)]],
            out |-> Interleaved(Tables1, st1, Len(buf2))]

\* processSamplesDown, of a buffer that processSamplesUp has returned.
ProcessSamplesDown(os, buf4) ==
  LET n1   == Len(buf4) \div 2
      st1  == StageDown(Tables1, os.stage1, buf4)
      buf2 == [i \in 1..n1 |-> DownSample(Tables1, st1[i])]
      st0  == StageDown(Tables0, os.stage0, buf2)
  IN  [os  |-> [stage0 |-> st0[n1 \div 2], stage1 |-> st1[n1]],
       out |-> [i \in 1..n1 \div 2 |-> DownSample(Tables0, st0[i])]]

-----------------------------------------------------------------------------
(* The filter they stand for *)

\* The signal u through one section at z^2, from rest,
Allpass(a, u) ==
  LET y[t \in 1..Len(u)] ==
        IF t > 2 THEN a * (u[t] - y[t - 2]) + u[t - 2] ELSE a * u[t]
  IN  y

\* and through the cascade A(z^2).
Allpasses(table, u) ==
  LET v[i \in 0..Len(table)] == IF i = 0 THEN u ELSE Allpass(table[i], v[i - 1])
  IN  v[Len(table)]

\* u through A0(z^2) + A1(z^2) / z.
HalfBand(direct, delayed, u) ==
  LET a0 == Allpasses(direct, u)  a1 == Allpasses(delayed, u)
  IN  [t \in 1..Len(u) |-> a0[t] + (IF t > 1 THEN a1[t - 1] ELSE 0)]

Stuffed(x) == [t \in 1..2 * Len(x) |-> IF t % 2 = 1 THEN x[(t + 1) \div 2] ELSE 0]

Decimated(y) == [t \in 1..Len(y) \div 2 |-> y[2 * t - 1]]

Up(tables, x) == HalfBand(tables["upDirect"], tables["upDelayed"], Stuffed(x))

Down(tables, y) == Decimated(HalfBand(tables["downDirect"], tables["downDelayed"], y))

-----------------------------------------------------------------------------
\* Two blocks up, each then processed in place by Work and taken down before the next, as
\* BigMuffPi::process does, and all of it at once by the reference. Work stands for a
\* circuit between the two directions that is not linear.
Work(buf4) == [i \in DOMAIN buf4 |-> buf4[i] * buf4[i]]

Resampled(x, k) ==
  LET up1   == ProcessSamplesUp(OversamplerReset, SubSeq(x, 1, k))
      down1 == ProcessSamplesDown(up1.os, Work(up1.out))
      up2   == ProcessSamplesUp(down1.os, SubSeq(x, k + 1, Len(x)))
      down2 == ProcessSamplesDown(up2.os, Work(up2.out))
  IN  down1.out \o down2.out

Reference(x) == Down(Tables0, Down(Tables1, Work(Up(Tables1, Up(Tables0, x)))))

\* A signal comes out as the two half-band filters would have it, wherever it is cut into
\* blocks: what a stage remembers, and where its odd samples go, is right in both
\* directions, and the two do not disturb one another (Oversampler.h 92-195). No block is
\* too long.
AllResampled ==
  \A x \in Signals : \A k \in 0..Len(x) :
    k <= MaxBlock /\ Len(x) - k <= MaxBlock => Resampled(x, k) = Reference(x)
=============================================================================
