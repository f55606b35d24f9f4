-------------------------- MODULE Lv2PluginProofs --------------------------
(***************************************************************************)
(* Proofs about Lv2Plugin and the state blob, for any number of parameters *)
(* and any set of port values.                                             *)
(***************************************************************************)
EXTENDS Lv2Plugin, SequenceTheorems, TLAPS

\* Clamping, conversion and the defaults give normalised values (ids.h).
LEMMA ClampType == \A v \in Int \cup {NaN} : ClampNorm(v) \in Norm
  BY BlobAssumption DEF ClampNorm, Norm

LEMMA ClampIsIdentity == \A v \in Norm : ClampNorm(v) = v
  BY BlobAssumption DEF ClampNorm, Norm

LEMMA DefaultType == DefaultState \in [Params -> Norm]
  BY BlobAssumption DEF DefaultState, Params, HostBypass, Norm

LEMMA NormOfType == \A p \in Params, v \in Bits : NormOf(p, v) \in Norm
<1> SUFFICES ASSUME NEW p \in Params, NEW v \in Bits PROVE NormOf(p, v) \in Norm
  OBVIOUS
<1>1. v \in Int \cup {NaN}
  BY Lv2Assumption
<1>2. BypassFromEnabled(v) \in Norm
  BY <1>1, BlobAssumption DEF BypassFromEnabled, Norm
<1>3. CASE p = HostBypass
  BY <1>2, <1>3 DEF NormOf
<1>4. CASE p # HostBypass
  <2>1. Def[p] \in Norm
    BY <1>4, BlobAssumption DEF Params, HostBypass, Norm
  <2>. QED
    BY <1>1, <1>4, <2>1, ClampType DEF NormOf, ToNorm
<1>. QED
  BY <1>3, <1>4

-----------------------------------------------------------------------------
(* The blob *)

\* A blob put together from a header, values and a bypass (state.h: "Layout").
LEMMA Assembled ==
  ASSUME NEW n \in Nat, NEW body \in Seq(Int), Len(body) = n + 1
  PROVE  LET b == <<StateVersion, n>> \o body
         IN  /\ b \in Seq(Int) /\ Len(b) = n + 3
             /\ b[1] = StateVersion /\ b[2] = n
             /\ \A i \in 3..n + 3 : b[i] = body[i - 2] /\ b[i] \in Int
<1> DEFINE head == <<StateVersion, n>>
           b == head \o body
<1>1. head \in Seq(Int) /\ Len(head) = 2 /\ head[1] = StateVersion /\ head[2] = n
  BY DEF StateVersion
<1> HIDE DEF head
<1>2. /\ b \in Seq(Int) /\ Len(b) = 2 + Len(body)
      /\ \A i \in 1..2 + Len(body) : b[i] = IF i <= 2 THEN head[i] ELSE body[i - 2]
  <2>1. /\ head \o body \in Seq(Int) /\ Len(head \o body) = Len(head) + Len(body)
        /\ \A i \in 1..Len(head) + Len(body) :
             (head \o body)[i] = IF i <= Len(head) THEN head[i] ELSE body[i - Len(head)]
    BY ONLY <1>1, body \in Seq(Int), ConcatProperties
  <2>. QED
    BY <1>1, <2>1
<1>3. b \in Seq(Int) /\ Len(b) = n + 3
  BY <1>2
<1> HIDE DEF b
<1>4. b[1] = StateVersion /\ b[2] = n
  BY <1>1, <1>2
<1>5. ASSUME NEW i \in 3..n + 3 PROVE b[i] = body[i - 2] /\ b[i] \in Int
  <2>1. i \in 1..2 + Len(body) /\ ~(i <= 2) /\ i \in 1..Len(b)
    BY <1>3
  <2>. QED
    BY <1>2, <2>1, ElementOfSeq
<1>. QED
  BY <1>3, <1>4, <1>5 DEF b, head

\* What writeState writes: the version, the count and the values in ID order.
LEMMA WriteStateShape ==
  ASSUME NEW v \in [Params -> Norm]
  PROVE  /\ WriteState(v) \in Seq(Int)
         /\ Len(WriteState(v)) = NParams + 3
         /\ WriteState(v)[1] = StateVersion
         /\ WriteState(v)[2] = NParams
         /\ \A i \in 3..NParams + 3 : WriteState(v)[i] = v[i - 3]
<1> DEFINE body == [i \in 1..NParams + 1 |-> v[i - 1]]
<1>1. \A i \in 1..NParams + 1 : v[i - 1] \in Int
  BY BlobAssumption DEF Params, HostBypass, Norm
<1>2. body \in Seq(Int) /\ Len(body) = NParams + 1
  <2>1. NParams + 1 \in Nat
    BY BlobAssumption
  <2>. QED
    BY <1>1, <2>1, IsASeq
<1>3. \A i \in 3..NParams + 3 : body[i - 2] = v[i - 3]
  <2>1. \A i \in 3..NParams + 3 : i - 2 \in 1..NParams + 1 /\ (i - 2) - 1 = i - 3
    BY BlobAssumption
  <2>. QED
    BY <2>1
<1>4. WriteState(v) = <<StateVersion, NParams>> \o body
  BY DEF WriteState
<1> HIDE DEF body
<1>5. NParams \in Nat
  BY BlobAssumption
<1>6. LET b == <<StateVersion, NParams>> \o body
      IN  /\ b \in Seq(Int) /\ Len(b) = NParams + 3
          /\ b[1] = StateVersion /\ b[2] = NParams
          /\ \A i \in 3..NParams + 3 : b[i] = body[i - 2] /\ b[i] \in Int
  BY ONLY <1>2, <1>5, Assembled
<1>. QED
  BY <1>3, <1>4, <1>6

\* Reading back what was written gives the values that were written.
LEMMA RoundTrip ==
  ASSUME NEW v \in [Params -> Norm]
  PROVE  /\ Readable(WriteState(v))
         /\ StateOf(WriteState(v)) = v
<1> DEFINE b == WriteState(v)
<1>1. /\ Len(b) = NParams + 3
      /\ b[1] = StateVersion /\ b[2] = NParams
      /\ \A i \in 3..NParams + 3 : b[i] = v[i - 3]
  BY WriteStateShape
<1>2. \A p \in Params : p + 3 \in 3..NParams + 3 /\ (p + 3) - 3 = p
  BY BlobAssumption DEF Params, HostBypass
<1>3. \A p \in Params : b[p + 3] = v[p] /\ v[p] \in Norm
  BY <1>1, <1>2
<1> HIDE DEF b
<1>4. \A i \in 3..NParams + 3 : i - 3 \in Params
  BY BlobAssumption DEF Params, HostBypass
<1>5. \A i \in 3..b[2] + 3 : b[i] # NaN
  BY <1>1, <1>4, BlobAssumption DEF Norm
<1>6. Readable(b)
  BY <1>1, <1>5, BlobAssumption DEF Readable, StateVersion
<1>7. ASSUME NEW p \in Params PROVE StateOf(b)[p] = v[p]
  <2>1. CASE p = HostBypass
    BY <1>1, <1>3, <2>1, ClampIsIdentity DEF StateOf, HostBypass
  <2>2. CASE p # HostBypass
    <3>1. p < b[2]
      BY <1>1, <2>2, BlobAssumption DEF Params, HostBypass
    <3>. QED
      BY <1>3, <2>2, <3>1, ClampIsIdentity DEF StateOf
  <2>. QED
    BY <2>1, <2>2
<1>8. StateOf(b) = [p \in Params |-> StateOf(b)[p]]
  BY DEF StateOf
<1>9. StateOf(b) = v
  BY <1>7, <1>8
<1>. QED
  BY <1>6, <1>9 DEF b

\* No part of a blob, no blob with a value that is not finite, with the version of a
\* later build or with too many values is readable.
LEMMA DamagedIsUnreadable ==
  ASSUME NEW v \in [Params -> Norm], NEW d \in Damaged(WriteState(v))
  PROVE  ~Readable(d)
<1> DEFINE b == WriteState(v)
<1>1. b \in Seq(Int) /\ Len(b) = NParams + 3 /\ b[2] = NParams
  BY WriteStateShape
<1> HIDE DEF b
<1>2. ASSUME NEW n \in 0..Len(b) - 1, d = SubSeq(b, 1, n)
      PROVE  ~Readable(d)
  <2>1. \A i \in 1..n : b[i] \in Int
    BY <1>1, ElementOfSeq, BlobAssumption
  <2>2. n \in Int
    BY <1>1, BlobAssumption
  <2>3. /\ Len(d) = IF 1 <= n THEN n - 1 + 1 ELSE 0
        /\ \A i \in 1..n - 1 + 1 : d[i] = b[1 + i - 1]
    BY <1>2, <2>1, <2>2, SubSeqProperties
  <2>4. Len(d) = n
    BY <1>1, <2>2, <2>3, BlobAssumption
  <2>5. CASE n < 2
    BY <2>4, <2>5, <2>2 DEF Readable
  <2>6. CASE n >= 2
    <3>1. d[2] = NParams
      BY <1>1, <2>2, <2>3, <2>6
    <3>. QED
      BY <1>1, <2>4, <3>1, BlobAssumption DEF Readable
  <2>. QED
    BY <2>2, <2>5, <2>6
<1>3. ASSUME NEW i \in 3..Len(b), d = [b EXCEPT ![i] = NaN]
      PROVE  ~Readable(d)
  <2>1. DOMAIN b = 1..Len(b)
    BY <1>1
  <2>2. d[i] = NaN /\ d[2] = NParams
    BY <1>1, <1>3, <2>1, BlobAssumption
  <2>. QED
    BY <1>1, <2>2, BlobAssumption DEF Readable
<1>4. ASSUME d = <<StateVersion + 1>> \o Tail(b)
      PROVE  ~Readable(d)
  <2>1. b # <<>>
    BY <1>1, EmptySeq, BlobAssumption
  <2>2. Tail(b) \in Seq(Int)
    BY <1>1, <2>1, HeadTailProperties
  <2>3. <<StateVersion + 1>> \in Seq(Int) /\ Len(<<StateVersion + 1>>) = 1
    BY DEF StateVersion
  <2>4. Len(Tail(b)) \in Nat
    BY <2>2
  <2>5. 1 \in 1..1 + Len(Tail(b))
    BY <2>4
  <2>6. d[1] = IF 1 <= Len(<<StateVersion + 1>>) THEN <<StateVersion + 1>>[1]
               ELSE Tail(b)[1 - Len(<<StateVersion + 1>>)]
    BY ONLY <1>4, <2>2, <2>3, <2>5, ConcatProperties
  <2>7. d[1] = 2
    BY <2>3, <2>6 DEF StateVersion
  <2>. QED
    BY <2>7 DEF Readable, StateVersion
<1>5. ASSUME d = <<StateVersion, MaxStateValues + 1>> \o SubSeq(b, 3, Len(b))
      PROVE  ~Readable(d)
  <2> DEFINE head == <<StateVersion, MaxStateValues + 1>>
             body == SubSeq(b, 3, Len(b))
  <2>1. \A i \in 3..Len(b) : b[i] \in Int
    BY <1>1, ElementOfSeq, BlobAssumption
  <2>2. Len(b) \in Int
    BY <1>1, BlobAssumption
  <2>3. body \in Seq(Int)
    BY <2>1, <2>2, SubSeqProperties
  <2>4. head \in Seq(Int) /\ Len(head) = 2 /\ head[2] = MaxStateValues + 1
    BY BlobAssumption DEF StateVersion
  <2>5. d = head \o body
    BY <1>5
  <2> HIDE DEF head, body
  <2>6. Len(body) \in Nat
    BY <2>3
  <2>7. 2 \in 1..2 + Len(body)
    BY <2>6
  <2>8. /\ head \o body \in Seq(Int) /\ Len(head \o body) = Len(head) + Len(body)
        /\ \A i \in 1..Len(head) + Len(body) :
             (head \o body)[i] = IF i <= Len(head) THEN head[i] ELSE body[i - Len(head)]
    BY ONLY <2>3, <2>4, ConcatProperties
  <2>9. d[2] = MaxStateValues + 1
    BY <2>4, <2>5, <2>7, <2>8
  <2>. QED
    BY <2>9, BlobAssumption DEF Readable
<1>. QED
  BY <1>2, <1>3, <1>4, <1>5 DEF Damaged, b


\* What is left of a blob between its header and its end.
LEMMA Middle ==
  ASSUME NEW v \in [Params -> Norm], NEW n \in 0..NParams,
         NEW end \in Seq(Int)
  PROVE  LET body == SubSeq(WriteState(v), 3, n + 2) \o end
         IN  /\ body \in Seq(Int)
             /\ Len(body) = n + Len(end)
             /\ \A i \in 1..n : body[i] = v[i - 1]
             /\ \A i \in 1..Len(end) : body[n + i] = end[i]
<1> DEFINE b == WriteState(v)
           mid == SubSeq(b, 3, n + 2)
           body == mid \o end
<1>1. b \in Seq(Int) /\ Len(b) = NParams + 3 /\ \A i \in 3..NParams + 3 : b[i] = v[i - 3]
  BY WriteStateShape
<1> HIDE DEF b
<1>2. n \in Int /\ n + 2 \in Int /\ \A i \in 3..n + 2 : b[i] \in Int
  BY <1>1, ElementOfSeq, BlobAssumption
<1>3. /\ mid \in Seq(Int)
      /\ Len(mid) = IF 3 <= n + 2 THEN (n + 2) - 3 + 1 ELSE 0
      /\ \A i \in 1..(n + 2) - 3 + 1 : mid[i] = b[3 + i - 1]
  BY ONLY <1>2, SubSeqProperties
<1>4. Len(mid) = n
  BY <1>2, <1>3
<1>5. ASSUME NEW i \in 1..n PROVE mid[i] = v[i - 1]
  <2>1. i \in 1..(n + 2) - 3 + 1 /\ 3 + i - 1 = i + 2
    BY <1>2
  <2>2. i + 2 \in 3..NParams + 3 /\ (i + 2) - 3 = i - 1
    BY <1>2, BlobAssumption
  <2>3. mid[i] = b[i + 2]
    BY <1>3, <2>1
  <2>4. b[i + 2] = v[(i + 2) - 3]
    BY <1>1, <2>2
  <2>. QED
    BY <2>2, <2>3, <2>4
<1> HIDE DEF mid
<1>6. /\ body \in Seq(Int) /\ Len(body) = Len(mid) + Len(end)
      /\ \A i \in 1..Len(mid) + Len(end) :
           body[i] = IF i <= Len(mid) THEN mid[i] ELSE end[i - Len(mid)]
  BY ONLY <1>3, end \in Seq(Int), ConcatProperties
<1> HIDE DEF body
<1>7. Len(end) \in Nat
  OBVIOUS
<1>8. \A i \in 1..n : body[i] = v[i - 1]
  BY <1>2, <1>4, <1>5, <1>6, <1>7
<1>9. ASSUME NEW i \in 1..Len(end) PROVE body[n + i] = end[i]
  <2>1. n + i \in 1..Len(mid) + Len(end) /\ ~(n + i <= Len(mid)) /\ (n + i) - Len(mid) = i
    BY <1>2, <1>4, <1>7
  <2>. QED
    BY <1>6, <2>1
<1>. QED
  BY <1>4, <1>6, <1>8, <1>9 DEF body, mid, b

\* One of fewer parameters leaves the rest at their defaults.
LEMMA FewerKeepsDefaults ==
  ASSUME NEW v \in [Params -> Norm], NEW old
  PROVE  ReadState(Fewer(WriteState(v)), old)
           = [v EXCEPT ![NParams - 1] = Def[NParams - 1]]
<1> DEFINE n == NParams - 1
           last == <<WriteState(v)[NParams + 3]>>
           body == SubSeq(WriteState(v), 3, n + 2) \o last
           b == <<StateVersion, n>> \o body
<1>1. n \in Nat /\ n \in 0..NParams /\ n + 2 = NParams + 1 /\ n + 1 = NParams
  BY BlobAssumption
<1>2. NParams \in Params /\ NParams + 3 \in 3..NParams + 3
  BY BlobAssumption DEF Params, HostBypass
<1>3. WriteState(v)[NParams + 3] = v[NParams]
  <2>1. (NParams + 3) - 3 = NParams
    BY BlobAssumption
  <2>. QED
    BY <1>2, <2>1, WriteStateShape
<1>4. last \in Seq(Int) /\ Len(last) = 1 /\ last[1] = v[NParams]
  <2>1. v[NParams] \in Int
    BY <1>2, BlobAssumption DEF Norm
  <2>. QED
    BY <1>3, <2>1
<1>5. Fewer(WriteState(v)) = b
  BY <1>1 DEF Fewer
<1> HIDE DEF last
<1>6. /\ body \in Seq(Int) /\ Len(body) = n + Len(last)
      /\ \A i \in 1..n : body[i] = v[i - 1]
      /\ \A i \in 1..Len(last) : body[n + i] = last[i]
  BY ONLY <1>1, <1>4, v \in [Params -> Norm], Middle
<1> HIDE DEF body
<1>7. Len(body) = n + 1 /\ body[n + 1] = v[NParams]
  <2>1. 1 \in 1..Len(last)
    BY <1>4
  <2>. QED
    BY <1>4, <1>6, <2>1
<1>8. /\ Len(b) = n + 3 /\ b[1] = StateVersion /\ b[2] = n
      /\ \A i \in 3..n + 3 : b[i] = body[i - 2] /\ b[i] \in Int
  BY ONLY <1>1, <1>6, <1>7, Assembled
<1> HIDE DEF b
<1>9. Readable(b)
  BY <1>1, <1>8, BlobAssumption DEF Readable, StateVersion
<1>10. ASSUME NEW p \in 0..n - 1 PROVE b[p + 3] = v[p]
  <2>1. p + 3 \in 3..n + 3 /\ (p + 3) - 2 = p + 1 /\ p + 1 \in 1..n /\ (p + 1) - 1 = p
    BY <1>1
  <2>. QED
    BY <1>6, <1>8, <2>1
<1>11. b[n + 3] = v[NParams]
  <2>1. n + 3 \in 3..n + 3 /\ (n + 3) - 2 = n + 1
    BY <1>1
  <2>. QED
    BY <1>7, <1>8, <2>1
<1>12. ASSUME NEW p \in Params
       PROVE  StateOf(b)[p] = [v EXCEPT ![n] = Def[n]][p]
  <2>1. p \in Int /\ v[p] \in Norm /\ (p = HostBypass <=> p = NParams)
    BY BlobAssumption DEF Params, HostBypass
  <2>2. n \in Params
    BY <1>1, BlobAssumption DEF Params, HostBypass
  <2>3. CASE p = HostBypass
    BY <1>1, <1>8, <1>11, <2>1, <2>2, <2>3, ClampIsIdentity DEF StateOf
  <2>4. CASE p = n
    BY <1>1, <1>8, <2>1, <2>2, <2>4 DEF StateOf
  <2>5. CASE p \in 0..n - 1
    BY <1>1, <1>8, <1>10, <2>1, <2>2, <2>5, ClampIsIdentity DEF StateOf
  <2>. QED
    BY <1>1, <2>3, <2>4, <2>5, BlobAssumption DEF Params, HostBypass
<1>13. StateOf(b) = [p \in Params |-> StateOf(b)[p]]
  BY DEF StateOf
<1>14. StateOf(b) = [v EXCEPT ![n] = Def[n]]
  BY <1>12, <1>13
<1>. QED
  BY <1>5, <1>9, <1>14 DEF ReadState

\* One of more parameters is read for the part that is known: the host bypass is found
\* behind the values.
LEMMA MoreIsKnown ==
  ASSUME NEW v \in [Params -> Norm], NEW old
  PROVE  ReadState(More(WriteState(v)), old) = v
<1> DEFINE n == NParams + 1
           last == <<Top, WriteState(v)[NParams + 3]>>
           body == SubSeq(WriteState(v), 3, NParams + 2) \o last
           b == <<StateVersion, n>> \o body
<1>1. n \in Nat /\ NParams \in 0..NParams /\ NParams \in Nat
  BY BlobAssumption
<1>2. NParams \in Params /\ NParams + 3 \in 3..NParams + 3
  BY BlobAssumption DEF Params, HostBypass
<1>3. WriteState(v)[NParams + 3] = v[NParams]
  <2>1. (NParams + 3) - 3 = NParams
    BY BlobAssumption
  <2>. QED
    BY <1>2, <2>1, WriteStateShape
<1>4. last \in Seq(Int) /\ Len(last) = 2 /\ last[2] = v[NParams]
  <2>1. v[NParams] \in Int /\ Top \in Int
    BY <1>2, BlobAssumption DEF Norm
  <2>. QED
    BY <1>3, <2>1
<1>5. More(WriteState(v)) = b
  BY DEF More
<1> HIDE DEF last
<1>6. /\ body \in Seq(Int) /\ Len(body) = NParams + Len(last)
      /\ \A i \in 1..NParams : body[i] = v[i - 1]
      /\ \A i \in 1..Len(last) : body[NParams + i] = last[i]
  BY ONLY <1>1, <1>4, v \in [Params -> Norm], Middle
<1> HIDE DEF body
<1>7. Len(body) = n + 1 /\ body[NParams + 2] = v[NParams]
  <2>1. 2 \in 1..Len(last)
    BY <1>4
  <2>. QED
    BY <1>1, <1>4, <1>6, <2>1
<1>8. /\ Len(b) = n + 3 /\ b[1] = StateVersion /\ b[2] = n
      /\ \A i \in 3..n + 3 : b[i] = body[i - 2] /\ b[i] \in Int
  BY ONLY <1>1, <1>6, <1>7, Assembled
<1> HIDE DEF b
<1>9. Readable(b)
  BY <1>1, <1>8, BlobAssumption DEF Readable, StateVersion
<1>10. ASSUME NEW p \in 0..NParams - 1 PROVE b[p + 3] = v[p]
  <2>1. p + 3 \in 3..n + 3 /\ (p + 3) - 2 = p + 1 /\ p + 1 \in 1..NParams /\ (p + 1) - 1 = p
    BY <1>1
  <2>. QED
    BY <1>6, <1>8, <2>1
<1>11. b[n + 3] = v[NParams]
  <2>1. n + 3 \in 3..n + 3 /\ (n + 3) - 2 = NParams + 2
    BY <1>1
  <2>. QED
    BY <1>7, <1>8, <2>1
<1>12. ASSUME NEW p \in Params PROVE StateOf(b)[p] = v[p]
  <2>1. p \in Int /\ v[p] \in Norm /\ (p = HostBypass <=> p = NParams)
    BY BlobAssumption DEF Params, HostBypass
  <2>2. CASE p = HostBypass
    BY <1>1, <1>8, <1>11, <2>1, <2>2, ClampIsIdentity DEF StateOf
  <2>3. CASE p \in 0..NParams - 1
    BY <1>1, <1>8, <1>10, <2>1, <2>3, ClampIsIdentity DEF StateOf
  <2>. QED
    BY <1>1, <2>2, <2>3, BlobAssumption DEF Params, HostBypass
<1>13. StateOf(b) = [p \in Params |-> StateOf(b)[p]]
  BY DEF StateOf
<1>14. StateOf(b) = v
  BY <1>12, <1>13
<1>. QED
  BY <1>5, <1>9, <1>14 DEF ReadState

-----------------------------------------------------------------------------
(* The plug-in *)

\* The blob the host keeps is the one of the last save, and it is whole.
BlobOK == preset.blob # <<>> => saving = {} /\ preset.blob = WriteState(draft)

LEMMA InitType == Init => TypeOK /\ BlobOK
<1> SUFFICES ASSUME Init PROVE TypeOK /\ BlobOK
  OBVIOUS
<1>1. <<>> \in Seq(Int)
  OBVIOUS
<1>2. DefaultState \in [Params -> Norm]
  BY DefaultType
<1>. QED
  BY <1>1, <1>2, Lv2Assumption DEF Init, TypeOK, BlobOK, PortValue

\* What a readable blob says is in range, and an unreadable one changes nothing.
LEMMA ReadStateType ==
  ASSUME TypeOK, BlobOK, preset.blob # <<>>,
         NEW b, \/ b = preset.blob \/ b \in Damaged(preset.blob)
                \/ b = Fewer(preset.blob) \/ b = More(preset.blob)
  PROVE  ReadState(b, mNorm) \in [Params -> Norm]
<1>1. preset.blob = WriteState(draft) /\ draft \in [Params -> Norm]
      /\ mNorm \in [Params -> Norm]
  BY DEF BlobOK, TypeOK
<1>2. CASE b = preset.blob
  BY <1>1, <1>2, RoundTrip DEF ReadState
<1>3. CASE b \in Damaged(preset.blob)
  BY <1>1, <1>3, DamagedIsUnreadable DEF ReadState
<1>4. CASE b = Fewer(preset.blob)
  <2>1. Def[NParams - 1] \in Norm
    BY BlobAssumption DEF Norm
  <2>. QED
    BY <1>1, <1>4, <2>1, FewerKeepsDefaults
<1>5. CASE b = More(preset.blob)
  BY <1>1, <1>5, MoreIsKnown
<1>. QED
  BY <1>2, <1>3, <1>4, <1>5

\* The files a restore may find.
LEMMA RestoreCases ==
  ASSUME RestoreSome
  PROVE  \E b, kind :
           /\ kind \in {"intact", "fewer", "more", "damaged"}
           /\ Restore(b, kind)
           /\ \/ b = preset.blob /\ kind = "intact"
              \/ b \in Damaged(preset.blob) /\ kind = "damaged"
              \/ b = Fewer(preset.blob) /\ kind = "fewer"
              \/ b = More(preset.blob) /\ kind = "more"
<1>1. CASE Restore(preset.blob, "intact")
  BY <1>1
<1>2. CASE \E b \in Damaged(preset.blob) : Restore(b, "damaged")
  BY <1>2
<1>3. CASE Restore(Fewer(preset.blob), "fewer")
  BY <1>3
<1>4. CASE Restore(More(preset.blob), "more")
  BY <1>4
<1>. QED
  BY <1>1, <1>2, <1>3, <1>4 DEF RestoreSome

LEMMA NextType == TypeOK /\ BlobOK /\ [Next]_vars => TypeOK' /\ BlobOK'
<1> SUFFICES ASSUME TypeOK, BlobOK, [Next]_vars PROVE TypeOK' /\ BlobOK'
  OBVIOUS
<1>1. ASSUME NEW p \in Params, NEW v \in Bits, WritePort(p, v)
      PROVE  TypeOK' /\ BlobOK'
  BY <1>1 DEF WritePort, TypeOK, BlobOK, PortValue
<1>2. CASE RunBegin
  <2>1. \A p \in Params : Moved(p) => port[p] \in Bits /\ NormOf(p, port[p]) \in Norm
    BY NormOfType DEF TypeOK, Moved, Connected, PortValue
  <2>2. changes' \in [Params -> Norm \cup {NoPoint}]
    BY <1>2, <2>1 DEF RunBegin
  <2>3. mLast' \in [Params -> Bits] /\ mSeen' \in [Params -> BOOLEAN]
    <3>1. mLast' \in [Params -> Bits]
      BY <1>2, <2>1 DEF RunBegin, TypeOK
    <3>2. \A p \in Params : (mSeen[p] \/ Moved(p)) \in BOOLEAN
      OBVIOUS
    <3>3. mSeen' \in [Params -> BOOLEAN]
      BY <1>2, <3>2 DEF RunBegin
    <3>. QED
      BY <3>1, <3>3
  <2>. QED
    BY <1>2, <2>2, <2>3 DEF RunBegin, TypeOK, BlobOK
<1>3. CASE RunEnd
  BY <1>3 DEF RunEnd, TypeOK, BlobOK
<1>4. ASSUME NEW p \in Params, RunStore(p)
      PROVE  TypeOK' /\ BlobOK'
  <2>1. ClampNorm(changes[p]) \in Norm
    BY <1>4, ClampIsIdentity DEF RunStore, TypeOK
  <2>. QED
    BY <1>4, <2>1 DEF RunStore, TypeOK, BlobOK
<1>5. ASSUME NEW p \in Params, SaveLoad(p)
      PROVE  TypeOK' /\ BlobOK'
  <2>1. draft' \in [Params -> Norm]
    BY <1>5 DEF SaveLoad, TypeOK
  <2>2. WriteState(draft') \in Seq(Int)
    BY <2>1, WriteStateShape
  <2>3. preset.blob = <<>>
    BY <1>5 DEF SaveLoad, BlobOK
  <2>4. CASE saving' = {}
    <3>1. preset' = [preset EXCEPT !.blob = WriteState(draft'), !.quiet = quiet]
      BY <1>5, <2>4 DEF SaveLoad
    <3>2. TypeOK'
      BY <1>5, <2>1, <2>2, <3>1 DEF SaveLoad, TypeOK
    <3>3. preset'.blob = WriteState(draft')
      BY <3>1 DEF TypeOK
    <3>. QED
      BY <2>4, <3>2, <3>3 DEF BlobOK
  <2>5. CASE saving' # {}
    BY <1>5, <2>1, <2>3, <2>5 DEF SaveLoad, TypeOK, BlobOK
  <2>. QED
    BY <2>4, <2>5
<1>6. CASE SaveBegin
  <2>1. <<>> \in Seq(Int)
    OBVIOUS
  <2>2. preset' = [port |-> port, blob |-> <<>>, quiet |-> FALSE]
    BY <1>6 DEF SaveBegin
  <2>3. quiet' \in BOOLEAN
    BY <1>6 DEF SaveBegin
  <2>. QED
    BY <1>6, <2>1, <2>2, <2>3 DEF SaveBegin, TypeOK, BlobOK
<1>7. CASE RestoreSome
  <2>1. PICK b, kind :
          /\ kind \in {"intact", "fewer", "more", "damaged"}
          /\ Restore(b, kind)
          /\ \/ b = preset.blob \/ b \in Damaged(preset.blob)
             \/ b = Fewer(preset.blob) \/ b = More(preset.blob)
    BY <1>7, RestoreCases
  <2>2. mNorm' \in [Params -> Norm]
    BY <1>7, <2>1, ReadStateType DEF Restore, RestoreSome
  <2>3. alien' \subseteq Params
    BY <2>1 DEF Restore, TypeOK
  <2>. QED
    BY <2>1, <2>2, <2>3 DEF Restore, TypeOK, BlobOK
<1>8. CASE LoadPorts
  <2>1. \A p \in Params : PresetPort(p) \in PortValue
    BY DEF PresetPort, TypeOK
  <2>2. port' \in [Params -> PortValue]
    BY <1>8, <2>1 DEF LoadPorts
  <2>3. pending' \subseteq Params
    BY <1>8 DEF LoadPorts, TypeOK
  <2>. QED
    BY <1>8, <2>2, <2>3 DEF LoadPorts, TypeOK, BlobOK
<1>9. CASE UNCHANGED vars
  BY <1>9 DEF vars, TypeOK, BlobOK
<1>. QED
  BY <1>1, <1>2, <1>3, <1>4, <1>5, <1>6, <1>7, <1>8, <1>9 DEF Next

\* The values of the plug-in, the processor and the host's preset keep their types,
\* whatever lies on a port or in a file.
THEOREM TypeCorrect == Spec => []TypeOK
  BY InitType, NextType, PTL DEF Spec

-----------------------------------------------------------------------------
(* Ports, points and values *)

\* A connected port that nobody wrote since the last block was seen as it is; during a
\* block every one was.
PortsOK ==
  \A p \in Params :
    /\ mSeen[p] => Connected(p)
    /\ Connected(p) /\ (pc = "run" \/ p \notin pending) =>
         mSeen[p] /\ mLast[p] = port[p]

\* A point is that of a port written since the last block, as it was seen.
PointsOK ==
  \A p \in Params : changes[p] # NoPoint =>
    /\ pc = "run" /\ mSeen[p] /\ p \in pending
    /\ changes[p] = NormOf(p, mLast[p])

\* The value of a parameter that no load left apart is that of the bits last seen.
\* While a load is not through a block yet it is so at least for a port that the load
\* leaves, or will leave, at these bits.
Follows(p) == mNorm[p] = NormOf(p, mLast[p])
ValuesOK ==
  \A p \in Params : p \notin alien =>
    /\ /\ mSeen[p] /\ changes[p] = NoPoint
       /\ loading = "no" \/ PresetPort(p) = mLast[p]
       => Follows(p)
    /\ loading = "ports" =>
         \/ PresetPort(p) = port[p]
         \/ pc = "run" /\ changes[p] = NoPoint /\ Follows(p)

LoadInv == TypeOK /\ BlobOK /\ PortsOK /\ PointsOK /\ ValuesOK

LEMMA InitLoad == Init => LoadInv
<1> SUFFICES ASSUME Init PROVE LoadInv
  OBVIOUS
<1>1. TypeOK /\ BlobOK
  BY InitType
<1>. QED
  BY <1>1 DEF LoadInv, Init, PortsOK, PointsOK, ValuesOK, Connected

\* Between calls a sound port is one that was seen, and its value follows it.
LEMMA LoadImpliesPanel == LoadInv => PanelIsSound
<1> SUFFICES ASSUME LoadInv, pc = "out", ~Restored,
                    NEW p \in Params, Connected(p), p \notin pending \cup alien
             PROVE  mNorm[p] = NormOf(p, port[p])
  BY DEF PanelIsSound
<1>1. mSeen[p] /\ mLast[p] = port[p]
  BY DEF LoadInv, PortsOK
<1>2. changes[p] = NoPoint
  BY DEF LoadInv, PointsOK
<1>3. loading = "no" \/ PresetPort(p) = mLast[p]
  BY <1>1 DEF LoadInv, ValuesOK, Restored
<1>. QED
  BY <1>1, <1>2, <1>3 DEF LoadInv, ValuesOK, Follows

LEMMA NextLoad == LoadInv /\ [Next]_vars => LoadInv'
<1> SUFFICES ASSUME LoadInv, [Next]_vars PROVE PortsOK' /\ PointsOK' /\ ValuesOK'
  BY NextType DEF LoadInv
<1> USE DEF LoadInv
<1>1. ASSUME NEW p \in Params, NEW v \in Bits, WritePort(p, v)
      PROVE  PortsOK' /\ PointsOK' /\ ValuesOK'
  <2>1. v # Unconnected
    BY Lv2Assumption
  <2>2. PortsOK'
    BY <1>1, <2>1 DEF WritePort, PortsOK, Connected, TypeOK
  <2>3. PointsOK'
    BY <1>1 DEF WritePort, PointsOK, TypeOK
  <2>4. ASSUME NEW q \in Params, q \notin alien' PROVE
          /\ (mSeen[q] /\ changes[q] = NoPoint /\ (loading = "no" \/ PresetPort(q)' = mLast[q])
                => Follows(q))
          /\ (loading = "ports" => PresetPort(q)' = port'[q])
    <3>1. q \notin alien
      BY <1>1, <2>4 DEF WritePort
    <3>2. CASE loading = "no"
      BY <1>1, <3>1, <3>2 DEF WritePort, ValuesOK
    <3>3. CASE loading = "ports"
      <4>1. q # p
        BY <1>1, <2>4, <3>3 DEF WritePort
      <4>2. port'[q] = port[q] /\ PresetPort(q)' = PresetPort(q)
        BY <1>1, <4>1 DEF WritePort, PresetPort, TypeOK
      <4>. QED
        BY <1>1, <3>1, <3>3, <4>2 DEF WritePort, ValuesOK
    <3>. QED
      BY <1>1, <3>2, <3>3 DEF WritePort, Restored
  <2>5. ValuesOK'
    BY <1>1, <2>4 DEF WritePort, ValuesOK, Follows
  <2>. QED
    BY <2>2, <2>3, <2>5
<1>2. CASE RunBegin
  <2>1. ASSUME NEW p \in Params
        PROVE  /\ changes'[p] = IF Moved(p) THEN NormOf(p, port[p]) ELSE NoPoint
               /\ mLast'[p] = IF Moved(p) THEN port[p] ELSE mLast[p]
               /\ mSeen'[p] = (mSeen[p] \/ Moved(p))
               /\ changes[p] = NoPoint
    BY <1>2 DEF RunBegin, PointsOK
  <2>2. \A p \in Params : Moved(p) => NormOf(p, port[p]) # NoPoint
    BY NormOfType, BlobAssumption DEF TypeOK, Moved, Connected, PortValue, NoPoint, Norm
  <2>3. PortsOK'
    BY <1>2, <2>1 DEF RunBegin, PortsOK, Moved, Connected
  <2>4. PointsOK'
    BY <1>2, <2>1 DEF RunBegin, PointsOK, PortsOK, Moved, Connected
  <2>5. ValuesOK'
    <3>1. ASSUME NEW p \in Params, changes'[p] = NoPoint
          PROVE  mLast'[p] = mLast[p] /\ mSeen'[p] = mSeen[p]
      BY <2>1, <2>2, <3>1 DEF TypeOK
    <3>. QED
      BY <1>2, <2>1, <3>1 DEF RunBegin, ValuesOK, Follows, PresetPort
  <2>. QED
    BY <2>3, <2>4, <2>5
<1>3. CASE RunEnd
  <2>1. PortsOK'
    BY <1>3 DEF RunEnd, PortsOK, Connected
  <2>2. PointsOK'
    BY <1>3 DEF RunEnd, PointsOK
  <2>3. ASSUME NEW p \in Params, p \notin alien, mSeen[p], loading' = "no"
        PROVE  Follows(p)
    <3>1. mLast[p] = port[p] /\ changes[p] = NoPoint
      BY <1>3, <2>3 DEF RunEnd, PortsOK
    <3>2. loading = "no" \/ loading = "ports"
      BY <1>3, <2>3 DEF RunEnd
    <3>. QED
      BY <2>3, <3>1, <3>2 DEF ValuesOK
  <2>4. ASSUME NEW p \in Params, p \notin alien, mSeen[p], loading' # "no",
               PresetPort(p) = mLast[p]
        PROVE  Follows(p)
    BY <1>3, <2>4 DEF RunEnd, ValuesOK
  <2>5. loading' # "ports"
    BY <1>3 DEF RunEnd
  <2>6. ValuesOK'
    BY <1>3, <2>3, <2>4, <2>5 DEF RunEnd, ValuesOK, Follows, PresetPort
  <2>. QED
    BY <2>1, <2>2, <2>6
<1>4. ASSUME NEW p \in Params, RunStore(p)
      PROVE  PortsOK' /\ PointsOK' /\ ValuesOK'
  <2>1. PortsOK'
    BY <1>4 DEF RunStore, PortsOK, Connected
  <2>2. PointsOK'
    BY <1>4 DEF RunStore, PointsOK, TypeOK
  <2>3. mNorm'[p] = NormOf(p, mLast[p]) /\ changes'[p] = NoPoint /\ pc = "run"
    <3>1. changes[p] \in Norm
      BY <1>4 DEF RunStore, TypeOK
    <3>. QED
      BY <1>4, <3>1, ClampIsIdentity DEF RunStore, PointsOK, TypeOK
  <2>4. ASSUME NEW q \in Params, q # p
        PROVE  mNorm'[q] = mNorm[q] /\ changes'[q] = changes[q]
               /\ (q \in alien' <=> q \in alien)
    BY <1>4, <2>4 DEF RunStore, TypeOK
  <2>5. ValuesOK'
    BY <1>4, <2>3, <2>4 DEF RunStore, ValuesOK, Follows, PresetPort
  <2>. QED
    BY <2>1, <2>2, <2>5
<1>5. ASSUME NEW p \in Params, SaveLoad(p)
      PROVE  PortsOK' /\ PointsOK' /\ ValuesOK'
  <2>1. preset'.port = preset.port
    BY <1>5 DEF SaveLoad, TypeOK
  <2>2. \A q \in Params : PresetPort(q)' = PresetPort(q)
    BY <1>5, <2>1 DEF SaveLoad, PresetPort
  <2>. QED
    BY <1>5, <2>2 DEF SaveLoad, PortsOK, PointsOK, ValuesOK, Follows, Connected
<1>6. CASE SaveBegin
  <2>1. \A q \in Params : PresetPort(q)' = port[q]
    BY <1>6 DEF SaveBegin, PresetPort
  <2>2. loading = "no" \/ loading = "ports"
    BY <1>6 DEF SaveBegin, Restored
  <2>. QED
    BY <1>6, <2>1, <2>2 DEF SaveBegin, PortsOK, PointsOK, ValuesOK, Follows, Connected
<1>7. CASE RestoreSome
  <2>1. PICK b, kind :
           /\ kind \in {"intact", "fewer", "more", "damaged"}
           /\ Restore(b, kind)
           /\ b \in Damaged(preset.blob) \/ kind # "damaged"
    BY <1>7, RestoreCases
  <2>2. PortsOK' /\ PointsOK'
    BY <2>1 DEF Restore, PortsOK, PointsOK, Connected
  <2>3. CASE kind # "damaged"
    <3>1. \A p \in Params : p \notin alien' => Agrees(p)
      BY <2>1, <2>3 DEF Restore
    <3>2. \A p \in Params : mSeen[p] => mLast[p] # Unconnected
      BY Lv2Assumption DEF TypeOK
    <3>. QED
      BY <2>1, <2>2, <2>3, <3>1, <3>2 DEF Restore, ValuesOK, Follows, Agrees, PresetPort
  <2>4. CASE kind = "damaged"
    <3>1. preset.blob = WriteState(draft) /\ draft \in [Params -> Norm]
      BY <1>7 DEF RestoreSome, BlobOK, TypeOK
    <3>2. mNorm' = mNorm /\ alien' = alien
      BY <2>1, <2>4, <3>1, DamagedIsUnreadable DEF Restore, ReadState
    <3>. QED
      BY <2>1, <2>2, <2>4, <3>2 DEF Restore, ValuesOK, Follows, PresetPort
  <2>. QED
    BY <2>3, <2>4
<1>8. CASE LoadPorts
  <2>1. \A p \in Params : port'[p] = PresetPort(p) /\ PresetPort(p)' = PresetPort(p)
    BY <1>8 DEF LoadPorts, PresetPort
  <2>2. ASSUME NEW p \in Params, p \notin pending'
        PROVE  p \notin pending /\ port'[p] = port[p]
    BY <1>8, <2>1, <2>2 DEF LoadPorts, PresetPort
  <2>3. \A p \in Params : Connected(p) => Connected(p)'
    BY <1>8, <2>1 DEF LoadPorts, PresetPort, Connected
  <2>4. PortsOK'
    BY <1>8, <2>2, <2>3 DEF LoadPorts, PortsOK, Connected
  <2>5. PointsOK'
    BY <1>8 DEF LoadPorts, PointsOK
  <2>6. ValuesOK'
    BY <1>8, <2>1 DEF LoadPorts, Restored, ValuesOK, Follows
  <2>. QED
    BY <2>4, <2>5, <2>6
<1>9. CASE UNCHANGED vars
  BY <1>9 DEF vars, PortsOK, PointsOK, ValuesOK, Follows, Connected, PresetPort
<1>. QED
  BY <1>1, <1>2, <1>3, <1>4, <1>5, <1>6, <1>7, <1>8, <1>9 DEF Next

\* What the ports show is what is heard: after the first block, through NaNs, and
\* through every load but the two kinds the invariant names.
THEOREM PanelStaysSound == Spec => []PanelIsSound
  BY InitLoad, NextLoad, LoadImpliesPanel, PTL DEF Spec

\* A block takes no restored value back through a port that nobody wrote.
THEOREM LoadedValuesStay == Spec => LoadedStays
<1>1. LoadInv /\ [Next]_vars =>
        [\A p \in Params : pc = "run" /\ mNorm'[p] # mNorm[p] => p \in pending]_vars
  <2> SUFFICES ASSUME LoadInv, Next, NEW p \in Params, pc = "run", mNorm'[p] # mNorm[p]
               PROVE  p \in pending
    BY DEF vars
  <2>1. \E q \in Params : RunStore(q)
    BY DEF Next, WritePort, RunBegin, RunEnd, SaveLoad, SaveBegin, RestoreSome, Restore,
           LoadPorts
  <2>2. RunStore(p)
    BY <2>1 DEF RunStore, LoadInv, TypeOK
  <2>. QED
    BY <2>2 DEF RunStore, LoadInv, PointsOK
<1>. QED
  BY <1>1, InitLoad, NextLoad, PTL DEF Spec, LoadedStays

\* A file applies all of what it holds, or nothing: a restored blob gives the values
\* that were saved, with the defaults for those it lacks, and a damaged one none.
THEOREM RestoresWhole == Spec => RestoreIsWhole
<1> DEFINE Whole ==
      ~Restored /\ Restored' =>
       CASE loading' = "damaged" -> mNorm' = mNorm
         [] loading' = "fewer" -> mNorm' = [draft EXCEPT ![NParams - 1] = Def[NParams - 1]]
         [] OTHER -> mNorm' = draft
<1>1. LoadInv /\ [Next]_vars => [Whole]_vars
  <2> SUFFICES ASSUME LoadInv, Next, ~Restored, Restored' PROVE Whole
    OBVIOUS
  <2>1. RestoreSome
    BY DEF Next, WritePort, RunBegin, RunEnd, RunStore, SaveLoad, SaveBegin, LoadPorts,
           Restored
  <2>2. PICK b, kind :
           /\ Restore(b, kind)
           /\ \/ b = preset.blob /\ kind = "intact"
              \/ b \in Damaged(preset.blob) /\ kind = "damaged"
              \/ b = Fewer(preset.blob) /\ kind = "fewer"
              \/ b = More(preset.blob) /\ kind = "more"
    BY <2>1, RestoreCases
  <2>3. preset.blob = WriteState(draft) /\ draft \in [Params -> Norm]
    BY <2>1 DEF LoadInv, RestoreSome, BlobOK, TypeOK
  <2>4. mNorm' = ReadState(b, mNorm) /\ loading' = kind
    BY <2>2 DEF Restore
  <2>5. CASE b = preset.blob /\ kind = "intact"
    BY <2>3, <2>4, <2>5, RoundTrip DEF ReadState
  <2>6. CASE b \in Damaged(preset.blob) /\ kind = "damaged"
    BY <2>3, <2>4, <2>6, DamagedIsUnreadable DEF ReadState
  <2>7. CASE b = Fewer(preset.blob) /\ kind = "fewer"
    BY <2>3, <2>4, <2>7, FewerKeepsDefaults
  <2>8. CASE b = More(preset.blob) /\ kind = "more"
    BY <2>3, <2>4, <2>8, MoreIsKnown
  <2>. QED
    BY <2>2, <2>5, <2>6, <2>7, <2>8
<1>. QED
  BY <1>1, InitLoad, NextLoad, PTL DEF Spec, RestoreIsWhole

-----------------------------------------------------------------------------
(* Save *)

\* While a quiet save runs, nothing that it reads moves: what is loaded, and what is
\* still to be loaded, is what the kept ports say. No restore goes on meanwhile.
SaveOK ==
  /\ Restored => saving = {}
  /\ saving # {} /\ quiet =>
       /\ pending = {} /\ preset.port = port
       /\ \A p \in Params : Connected(p) =>
            /\ mNorm[p] = NormOf(p, port[p])
            /\ p \notin saving => draft[p] = NormOf(p, port[p])

SaveInv == LoadInv /\ SaveOK /\ PresetAgrees

LEMMA InitSave == Init => SaveInv
<1> SUFFICES ASSUME Init PROVE SaveInv
  OBVIOUS
<1>. QED
  BY InitLoad DEF SaveInv, SaveOK, Restored, Init, PresetAgrees

LEMMA NextSave == SaveInv /\ [Next]_vars => SaveInv'
<1> SUFFICES ASSUME SaveInv, [Next]_vars PROVE SaveOK' /\ PresetAgrees'
  BY NextLoad DEF SaveInv
<1> USE DEF SaveInv
<1>1. ASSUME NEW p \in Params, NEW v \in Bits, WritePort(p, v)
      PROVE  SaveOK' /\ PresetAgrees'
  BY <1>1 DEF WritePort, SaveOK, Restored, PresetAgrees
<1>2. CASE RunBegin
  BY <1>2 DEF RunBegin, SaveOK, Restored, PresetAgrees, Connected
<1>3. CASE RunEnd
  BY <1>3 DEF RunEnd, SaveOK, Restored, PresetAgrees, Connected
<1>4. ASSUME NEW p \in Params, RunStore(p)
      PROVE  SaveOK' /\ PresetAgrees'
  <2>1. pending # {}
    BY <1>4 DEF RunStore, LoadInv, PointsOK
  <2>. QED
    BY <1>4, <2>1 DEF RunStore, SaveOK, Restored, PresetAgrees
<1>5. ASSUME NEW p \in Params, SaveLoad(p)
      PROVE  SaveOK' /\ PresetAgrees'
  <2>1. draft \in [Params -> Norm] /\ draft' \in [Params -> Norm]
    BY <1>5 DEF SaveLoad, LoadInv, TypeOK
  <2>2. ASSUME quiet, NEW q \in Params, Connected(q), q \notin saving'
        PROVE  draft'[q] = NormOf(q, port[q])
    BY <1>5, <2>1, <2>2 DEF SaveLoad, SaveOK
  <2>3. preset'.port = preset.port
    BY <1>5 DEF SaveLoad, LoadInv, TypeOK
  <2>4. SaveOK'
    BY <1>5, <2>2, <2>3 DEF SaveLoad, SaveOK, Restored, Connected
  <2>5. CASE saving' = {}
    <3>1. preset' = [preset EXCEPT !.blob = WriteState(draft'), !.quiet = quiet]
      BY <1>5, <2>5 DEF SaveLoad
    <3>2. preset'.blob = WriteState(draft') /\ preset'.quiet = quiet
      BY <3>1 DEF LoadInv, TypeOK
    <3>3. Readable(preset'.blob) /\ StateOf(preset'.blob) = draft'
      BY <2>1, <3>2, RoundTrip
    <3>4. quiet => preset.port = port
      BY <1>5 DEF SaveLoad, SaveOK
    <3>. QED
      BY <2>2, <2>3, <2>4, <2>5, <3>2, <3>3, <3>4 DEF PresetAgrees, Connected
  <2>6. CASE saving' # {}
    BY <1>5, <2>4, <2>6 DEF SaveLoad, PresetAgrees
  <2>. QED
    BY <2>5, <2>6
<1>6. CASE SaveBegin
  <2>1. preset' = [port |-> port, blob |-> <<>>, quiet |-> FALSE] /\ saving' = Params
    BY <1>6 DEF SaveBegin
  <2>2. ASSUME quiet' PROVE pending = {} /\ alien = {} /\ pc = "out" /\ ~Restored
    BY <1>6, <2>2 DEF SaveBegin
  <2>3. ASSUME quiet', NEW p \in Params, Connected(p)
        PROVE  mNorm[p] = NormOf(p, port[p])
    BY <2>2, <2>3, LoadImpliesPanel DEF PanelIsSound
  <2>. QED
    BY <1>6, <2>1, <2>2, <2>3 DEF SaveBegin, SaveOK, Restored, PresetAgrees, Connected
<1>7. CASE RestoreSome
  <2>1. PICK b, kind : Restore(b, kind)
    BY <1>7, RestoreCases
  <2>. QED
    BY <2>1 DEF Restore, SaveOK, Restored, PresetAgrees
<1>8. CASE LoadPorts
  <2>1. PresetAgrees'
    BY <1>8 DEF LoadPorts, PresetAgrees
  <2>2. saving = {}
    BY <1>8 DEF LoadPorts, SaveOK
  <2>. QED
    BY <1>8, <2>1, <2>2 DEF LoadPorts, SaveOK, Restored
<1>9. CASE UNCHANGED vars
  BY <1>9 DEF vars, SaveOK, Restored, PresetAgrees, Connected
<1>. QED
  BY <1>1, <1>2, <1>3, <1>4, <1>5, <1>6, <1>7, <1>8, <1>9 DEF Next

\* A preset saved while nothing moved is one whose blob and ports agree.
THEOREM QuietPresetAgrees == Spec => []PresetAgrees
  BY InitSave, NextSave, PTL DEF Spec, SaveInv
=============================================================================
