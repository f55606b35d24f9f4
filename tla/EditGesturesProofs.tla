------------------------- MODULE EditGesturesProofs -------------------------
(***************************************************************************)
(* Theorems about EditGestures for any editors, parameters, resolution of  *)
(* the values, heights of the pointer, presets and states.                 *)
(***************************************************************************)
EXTENDS EditGestures, FiniteSetTheorems, TLAPS

\* The controller forwards to the editor that was opened last.
Known == mView = latest

\* A knob in the last editor's drag is where the drag puts it for the pointer's last
\* height, unless something else has set it.
AtTarget ==
  latest # None /\ Dragging(latest) /\ ~disturbed =>
    mNorm[latest][drag[latest].knob] = DragTarget(drag[latest], lastY)

IInv == TypeOK /\ Known /\ CopiesAgree /\ GesturesAreDrags /\ AtTarget

-----------------------------------------------------------------------------
(* Values *)

\* clampNorm normalises, and leaves a normalised value alone.
LEMMA ClampFacts ==
  /\ \A n \in Int : ClampNorm(n) \in Norm
  /\ \A n \in Norm : ClampNorm(n) = n
  BY GestureAssumption DEF ClampNorm, Norm

LEMMA DefaultType == Default \in [Param -> Norm]
  BY GestureAssumption DEF Default, Norm

LEMMA TargetType ==
  ASSUME NEW s \in Norm, NEW a \in Height \cup {0}, NEW y \in Height \cup {0},
         NEW fine \in BOOLEAN, NEW d, d.startNorm = s, d.startY = a, d.fine = fine
  PROVE  DragTarget(d, y) \in Norm
<1>1. Scale(fine) \in Int /\ a \in Int /\ y \in Int /\ s \in Int
  BY GestureAssumption DEF Scale, Norm
<1>2. (a - y) * Scale(fine) \in Int
  BY <1>1
<1> QED
  BY <1>1, <1>2, ClampFacts DEF DragTarget

\* A drag that starts where the pointer is leaves its knob alone.
LEMMA TargetAtStart ==
  ASSUME NEW y \in Height \cup {0}, NEW d, d.startNorm \in Norm, d.startY = y,
         d.fine \in BOOLEAN
  PROVE  DragTarget(d, y) = d.startNorm
<1>1. Scale(d.fine) \in Int /\ y \in Int /\ d.startNorm \in Int
  BY GestureAssumption DEF Scale, Norm
<1>2. (d.startY - y) * Scale(d.fine) = 0
  BY <1>1
<1> QED
  BY <1>1, <1>2, ClampFacts DEF DragTarget

\* An edit of normalised values keeps the copies normalised and in agreement, and sets no
\* knob but its own.
LEMMA EditAgrees ==
  ASSUME TypeOK, Known, CopiesAgree, NEW S \in SUBSET Param, NEW f \in [S -> Norm], Edit(f)
  PROVE  /\ value' \in [Param -> Norm] /\ heard' \in [Param -> Norm]
         /\ mNorm' \in [View -> [Param -> Norm]]
         /\ heard' = value'
         /\ latest # None => mNorm'[latest] = value'
         /\ \A v \in View \ {latest} : mNorm'[v] = mNorm[v]
         /\ \A p \in Param : value'[p] = IF p \in S THEN f[p] ELSE value[p]
<1>1. Clamped(f) = f
  BY ClampFacts DEF Clamped
<1>2. \A g \in [Param -> Norm] :
        /\ Over(f, g) \in [Param -> Norm]
        /\ \A p \in Param : Over(f, g)[p] = IF p \in S THEN f[p] ELSE g[p]
  BY DEF Over
<1>3. value' = Over(f, value) /\ heard' = Over(f, heard)
  BY <1>1 DEF Edit, SetParamNormalized
<1>4. mNorm' = IF latest = None THEN mNorm
               ELSE [mNorm EXCEPT ![latest] = Over(f, mNorm[latest])]
  BY <1>1 DEF Edit, SetParamNormalized, Known
<1>5. latest # None => latest \in View
  BY DEF TypeOK
<1>6. /\ value \in [Param -> Norm] /\ heard \in [Param -> Norm]
      /\ mNorm \in [View -> [Param -> Norm]]
  BY DEF TypeOK
<1>7. /\ value' \in [Param -> Norm] /\ heard' \in [Param -> Norm] /\ heard' = value'
      /\ \A p \in Param : value'[p] = IF p \in S THEN f[p] ELSE value[p]
  BY <1>2, <1>3, <1>6 DEF CopiesAgree
<1>8. /\ mNorm' \in [View -> [Param -> Norm]]
      /\ latest # None => mNorm'[latest] = value'
      /\ \A v \in View \ {latest} : mNorm'[v] = mNorm[v]
  <2>1. CASE latest = None
    BY <1>4, <1>6, <2>1
  <2>2. CASE latest # None
    <3>1. mNorm[latest] \in [Param -> Norm] /\ mNorm[latest] = value
      BY <1>5, <1>6, <2>2 DEF CopiesAgree
    <3>2. mNorm' = [mNorm EXCEPT ![latest] = value']
      BY <1>3, <1>4, <2>2, <3>1
    <3> QED
      BY <1>5, <1>6, <1>7, <2>2, <3>2
  <2> QED
    BY <2>1, <2>2
<1> QED
  BY <1>7, <1>8

\* An edit that no drag of the last editor makes leaves its knob alone, or marks it.
LEMMA EditElsewhere ==
  ASSUME TypeOK, Known, CopiesAgree, NEW S \in SUBSET Param, NEW f \in [S -> Norm],
         Edit(f), Disturb(f), latest # None, Dragging(latest), ~disturbed'
  PROVE  mNorm'[latest][drag[latest].knob] = mNorm[latest][drag[latest].knob] /\ ~disturbed
<1>1. ~disturbed /\ drag[latest].knob \notin S
  BY DEF Disturb, TypeOK
<1>2. drag[latest].knob \in Param
  BY GestureAssumption DEF TypeOK, Dragging
<1>3. /\ mNorm'[latest] = value' /\ mNorm[latest] = value
      /\ \A p \in Param : value'[p] = IF p \in S THEN f[p] ELSE value[p]
  BY EditAgrees DEF CopiesAgree
<1> QED
  BY <1>1, <1>2, <1>3

-----------------------------------------------------------------------------
(* Gestures *)

\* When v's drag becomes r, and the gestures follow, they are still the drags.
LEMMA GesturesFollow ==
  ASSUME TypeOK, GesturesAreDrags, NEW v \in View,
         NEW r \in [knob : Knob \cup {None}, startY : Height \cup {0},
                    startNorm : Norm, fine : BOOLEAN],
         drag' = [drag EXCEPT ![v] = r],
         gestures' \in [Knob -> Int],
         \A k \in Knob : gestures'[k] = (gestures[k] - (IF drag[v].knob = k THEN 1 ELSE 0))
                                        + (IF r.knob = k THEN 1 ELSE 0)
  PROVE  GesturesAreDrags' /\ gestures' \in [Knob -> Nat]
<1>1. SUFFICES ASSUME NEW k \in Knob
               PROVE  gestures'[k] = Cardinality(Draggers(k)') /\ gestures'[k] \in Nat
  BY DEF GesturesAreDrags
<1>2. Draggers(k) \subseteq View /\ Draggers(k)' \subseteq View
  BY DEF Draggers
<1>3. IsFiniteSet(Draggers(k)) /\ IsFiniteSet(Draggers(k)')
  BY <1>2, FS_Subset, GestureAssumption
<1>4. Cardinality(Draggers(k)) \in Nat /\ Cardinality(Draggers(k)') \in Nat
  BY <1>3, FS_CardinalityType
<1>5. gestures[k] = Cardinality(Draggers(k))
  BY DEF GesturesAreDrags
<1>6. /\ v \in Draggers(k) <=> drag[v].knob = k
      /\ v \in Draggers(k)' <=> r.knob = k
      /\ \A u \in View \ {v} : u \in Draggers(k)' <=> u \in Draggers(k)
  BY DEF Draggers, TypeOK
<1>7. CASE drag[v].knob = k /\ r.knob = k
  <2>1. Draggers(k)' = Draggers(k)
    BY <1>2, <1>6, <1>7
  <2> QED
    BY <1>4, <1>5, <1>7, <2>1
<1>8. CASE drag[v].knob = k /\ r.knob # k
  <2>1. Draggers(k)' = Draggers(k) \ {v} /\ v \in Draggers(k)
    BY <1>2, <1>6, <1>8
  <2>2. Cardinality(Draggers(k)') = Cardinality(Draggers(k)) - 1
    BY <1>3, <2>1, FS_RemoveElement
  <2> QED
    BY <1>4, <1>5, <1>8, <2>2
<1>9. CASE drag[v].knob # k /\ r.knob = k
  <2>1. Draggers(k)' = Draggers(k) \cup {v} /\ v \notin Draggers(k)
    BY <1>2, <1>6, <1>9
  <2>2. Cardinality(Draggers(k)') = Cardinality(Draggers(k)) + 1
    BY <1>3, <2>1, FS_AddElement
  <2> QED
    BY <1>4, <1>5, <1>9, <2>2
<1>10. CASE drag[v].knob # k /\ r.knob # k
  <2>1. \A u \in View : u \in Draggers(k)' <=> u \in Draggers(k)
    BY <1>6, <1>10
  <2>2. Draggers(k)' = Draggers(k)
    BY <1>2, <2>1
  <2> QED
    BY <1>4, <1>5, <1>10, <2>2
<1> QED
  BY <1>7, <1>8, <1>9, <1>10

-----------------------------------------------------------------------------
(* The invariant *)

\* Edits that are no drag's, of the host or of an editor.
LEMMA EditKeeps ==
  ASSUME IInv, NEW S \in SUBSET Param, NEW f \in [S -> Norm], Edit(f), Disturb(f),
         UNCHANGED <<mView, attached, drag, gestures, latest, lastY>>
  PROVE  IInv'
<1>1. TypeOK /\ Known /\ CopiesAgree /\ GesturesAreDrags /\ AtTarget
  BY DEF IInv
<1>2. /\ value' \in [Param -> Norm] /\ heard' \in [Param -> Norm]
      /\ mNorm' \in [View -> [Param -> Norm]]
      /\ heard' = value' /\ (latest # None => mNorm'[latest] = value')
      /\ \A p \in Param : value'[p] = IF p \in S THEN f[p] ELSE value[p]
  BY <1>1, EditAgrees
<1>3. TypeOK'
  BY <1>1, <1>2 DEF TypeOK, Disturb, Dragging
<1>4. Known' /\ CopiesAgree'
  BY <1>1, <1>2 DEF Known, CopiesAgree
<1>5. GesturesAreDrags'
  BY <1>1 DEF GesturesAreDrags, Draggers
<1>6. AtTarget'
  <2>1. SUFFICES ASSUME latest # None, Dragging(latest), ~disturbed'
                 PROVE  mNorm'[latest][drag[latest].knob]
                          = mNorm[latest][drag[latest].knob] /\ ~disturbed
    BY <1>1 DEF AtTarget, Dragging, DragTarget
  <2> QED
    BY <1>1, <2>1, EditElsewhere
<1> QED
  BY <1>3, <1>4, <1>5, <1>6 DEF IInv

\* v's drag becomes r, and nothing is edited.
LEMMA DragKeeps ==
  ASSUME IInv, NEW v \in View,
         NEW r \in [knob : Knob \cup {None}, startY : Height \cup {0},
                    startNorm : Norm, fine : BOOLEAN],
         NEW y \in Height \cup {0},
         drag' = [drag EXCEPT ![v] = r],
         gestures' \in [Knob -> Int],
         \A k \in Knob : gestures'[k] = (gestures[k] - (IF drag[v].knob = k THEN 1 ELSE 0))
                                        + (IF r.knob = k THEN 1 ELSE 0),
         Follow(v, y),
         r.knob # None => v \in attached /\ mNorm[v][r.knob] = DragTarget(r, y),
         UNCHANGED <<value, mView, attached, mNorm, heard, latest>>
  PROVE  IInv'
<1>1. TypeOK /\ Known /\ CopiesAgree /\ GesturesAreDrags /\ AtTarget
  BY DEF IInv
<1>2. GesturesAreDrags' /\ gestures' \in [Knob -> Nat]
  BY <1>1, GesturesFollow
<1>3. \A u \in View : drag'[u] = IF u = v THEN r ELSE drag[u]
  BY <1>1 DEF TypeOK
<1>4. lastY' \in Height \cup {0} /\ disturbed' \in BOOLEAN
  BY <1>1 DEF Follow, TypeOK, moves
<1>5. TypeOK'
  BY <1>1, <1>2, <1>3, <1>4 DEF TypeOK, Dragging
<1>6. Known' /\ CopiesAgree'
  BY <1>1 DEF Known, CopiesAgree
<1>7. AtTarget'
  <2>1. CASE latest = v
    BY <1>3, <2>1 DEF AtTarget, Follow, Dragging, DragTarget
  <2>2. CASE latest # v /\ latest # None
    <3>1. latest \in View /\ UNCHANGED <<lastY, disturbed>>
      BY <1>1, <2>2 DEF TypeOK, Follow, moves
    <3>2. drag'[latest] = drag[latest]
      BY <1>3, <2>2, <3>1
    <3> QED
      BY <1>1, <3>1, <3>2 DEF AtTarget, Dragging, DragTarget
  <2>3. CASE latest = None
    BY <2>3 DEF AtTarget
  <2> QED
    BY <2>1, <2>2, <2>3
<1> QED
  BY <1>2, <1>5, <1>6, <1>7 DEF IInv

LEMMA NoDragType ==
  /\ NoDrag \in [knob : Knob \cup {None}, startY : Height \cup {0},
                 startNorm : Norm, fine : BOOLEAN]
  /\ NoDrag.knob = None /\ None \notin Knob
  BY GestureAssumption DEF NoDrag, Norm

\* endEdit closes the gesture of v's drag and no other.
LEMMA EndedCounts ==
  ASSUME TypeOK, NEW v \in View
  PROVE  /\ Ended(v) \in [Knob -> Int]
         /\ \A k \in Knob :
              Ended(v)[k] = gestures[k] - (IF drag[v].knob = k THEN 1 ELSE 0)
<1>1. gestures \in [Knob -> Nat] /\ drag[v].knob \in Knob \cup {None} /\ None \notin Knob
  BY NoDragType DEF TypeOK
<1>2. CASE Dragging(v)
  BY <1>1, <1>2 DEF Ended, Dragging
<1>3. CASE ~Dragging(v)
  BY <1>1, <1>3 DEF Ended, Dragging
<1> QED
  BY <1>2, <1>3

\* The end of v's drag, by a release or otherwise.
LEMMA ReleaseKeeps ==
  ASSUME IInv, NEW v \in View, Release(v)
  PROVE  IInv'
<1>1. TypeOK
  BY DEF IInv
<1>2. /\ gestures' \in [Knob -> Int]
      /\ \A k \in Knob : gestures'[k] = (gestures[k] - (IF drag[v].knob = k THEN 1 ELSE 0))
                                        + (IF NoDrag.knob = k THEN 1 ELSE 0)
  BY <1>1, EndedCounts, NoDragType DEF Release, TypeOK
<1> QED
  BY <1>2, NoDragType, DragKeeps DEF Release

LEMMA PressKnobKeeps ==
  ASSUME IInv, NEW v \in View, NEW k \in Knob, NEW y \in Height, NEW fine \in BOOLEAN,
         PressKnob(v, k, y, fine)
  PROVE  IInv'
<1> DEFINE r == [knob |-> k, startY |-> y, startNorm |-> mNorm[v][k], fine |-> fine]
<1>1. TypeOK /\ k \in Param /\ k # None
  BY GestureAssumption DEF IInv
<1>2. mNorm[v][k] \in Norm
  BY <1>1 DEF TypeOK
<1>3. r \in [knob : Knob \cup {None}, startY : Height \cup {0},
             startNorm : Norm, fine : BOOLEAN]
  BY <1>2
<1>4. mNorm[v][k] = DragTarget(r, y)
  BY <1>2, TargetAtStart
<1>5. /\ gestures' \in [Knob -> Int]
      /\ \A q \in Knob : gestures'[q] = (gestures[q] - (IF drag[v].knob = q THEN 1 ELSE 0))
                                        + (IF r.knob = q THEN 1 ELSE 0)
  BY <1>1, EndedCounts DEF PressKnob, Begun, TypeOK
<1> HIDE DEF r
<1>6. r.knob = k /\ drag' = [drag EXCEPT ![v] = r]
  BY DEF r, PressKnob
<1> QED
  BY <1>3, <1>4, <1>5, <1>6, DragKeeps DEF PressKnob

\* What a motion event does to the drag: its knob stays, it is in range, and the last
\* target of a drag that Shift re-anchors is the knob's own value.
LEMMA MoveFacts ==
  ASSUME TypeOK, NEW v \in View, NEW y \in Height, NEW fine \in BOOLEAN, Dragging(v)
  PROVE  LET d == Reanchored(v, y, fine)
         IN  /\ d \in [knob : Knob, startY : Height \cup {0}, startNorm : Norm, fine : BOOLEAN]
             /\ d.knob = drag[v].knob
             /\ DragTarget(d, y) \in Norm
             /\ fine = drag[v].fine => d = drag[v]
             /\ fine # drag[v].fine => DragTarget(d, y) = mNorm[v][d.knob]
<1> DEFINE d == Reanchored(v, y, fine)
<1>1. /\ drag[v] \in [knob : Knob \cup {None}, startY : Height \cup {0},
                      startNorm : Norm, fine : BOOLEAN]
      /\ drag[v].knob \in Knob
  BY DEF TypeOK, Dragging
<1>2. mNorm[v][drag[v].knob] \in Norm
  BY <1>1, GestureAssumption DEF TypeOK
<1>3. /\ d \in [knob : Knob, startY : Height \cup {0}, startNorm : Norm, fine : BOOLEAN]
      /\ d.knob = drag[v].knob
      /\ fine = drag[v].fine => d = drag[v]
      /\ fine # drag[v].fine => d.startY = y /\ d.startNorm = mNorm[v][d.knob]
  BY <1>1, <1>2 DEF Reanchored
<1> HIDE DEF d
<1>4. DragTarget(d, y) \in Norm
  BY <1>3, TargetType
<1>5. fine # drag[v].fine => DragTarget(d, y) = mNorm[v][d.knob]
  BY <1>3, TargetAtStart
<1> QED
  BY <1>3, <1>4, <1>5 DEF d

LEMMA MoveKeeps ==
  ASSUME IInv, NEW v \in View, NEW y \in Height, NEW fine \in BOOLEAN, Move(v, y, fine)
  PROVE  IInv'
<1> DEFINE d == Reanchored(v, y, fine)
           norm == DragTarget(d, y)
           f == [p \in {d.knob} |-> norm]
<1>1. TypeOK /\ Known /\ CopiesAgree /\ GesturesAreDrags /\ AtTarget /\ Dragging(v)
  BY DEF IInv, Move
<1>2. /\ d \in [knob : Knob, startY : Height \cup {0}, startNorm : Norm, fine : BOOLEAN]
      /\ d.knob = drag[v].knob /\ norm \in Norm /\ d.knob \in Param
  BY <1>1, MoveFacts, GestureAssumption
<1>3. drag' = [drag EXCEPT ![v] = d] /\ UNCHANGED <<mView, attached, gestures, latest>>
  BY DEF Move
<1>4. /\ gestures' \in [Knob -> Int]
      /\ \A k \in Knob : gestures'[k] = (gestures[k] - (IF drag[v].knob = k THEN 1 ELSE 0))
                                        + (IF d.knob = k THEN 1 ELSE 0)
  BY <1>1, <1>2, <1>3 DEF TypeOK
<1>5. /\ norm = mNorm[v][d.knob] =>
           Follow(v, y) /\ UNCHANGED <<value, mNorm, heard>>
      /\ norm # mNorm[v][d.knob] =>
           /\ Edit(f)
           /\ IF v = latest THEN Follow(v, y) ELSE Disturb(f) /\ UNCHANGED lastY
  BY DEF Move
<1>6. v \in attached
  BY <1>1 DEF TypeOK
<1> HIDE DEF d, norm, f
<1>7. CASE norm = mNorm[v][d.knob]
  BY <1>2, <1>3, <1>4, <1>5, <1>6, <1>7, DragKeeps DEF norm
<1>8. CASE norm # mNorm[v][d.knob]
  <2>1. f \in [{d.knob} -> Norm] /\ {d.knob} \in SUBSET Param /\ Edit(f) /\ f[d.knob] = norm
    BY <1>2, <1>5, <1>8 DEF f
  <2>2. /\ value' \in [Param -> Norm] /\ heard' \in [Param -> Norm]
        /\ mNorm' \in [View -> [Param -> Norm]]
        /\ heard' = value' /\ (latest # None => mNorm'[latest] = value')
        /\ \A p \in Param : value'[p] = IF p \in {d.knob} THEN f[p] ELSE value[p]
    BY <1>1, <2>1, EditAgrees
  <2>3. GesturesAreDrags' /\ gestures' \in [Knob -> Nat]
    BY <1>1, <1>2, <1>3, <1>4, GesturesFollow
  <2>4. \A u \in View : drag'[u] = IF u = v THEN d ELSE drag[u]
    BY <1>1, <1>3 DEF TypeOK
  <2>5. lastY' \in Height \cup {0} /\ disturbed' \in BOOLEAN
    BY <1>1, <1>5, <1>8 DEF Follow, Disturb, TypeOK, moves
  <2>6. TypeOK'
    BY <1>1, <1>2, <1>3, <1>6, <2>2, <2>3, <2>4, <2>5 DEF TypeOK, Dragging
  <2>7. Known' /\ CopiesAgree'
    BY <1>1, <1>3, <2>2 DEF Known, CopiesAgree
  <2>8. AtTarget'
    <3>1. CASE latest = v
      <4>1. latest # None
        BY <1>1, <3>1, GestureAssumption
      <4>2. mNorm'[v] = value' /\ value'[d.knob] = norm
        BY <1>2, <2>1, <2>2, <3>1, <4>1
      <4>3. lastY' = y /\ drag'[v] = d
        BY <1>5, <1>8, <2>4, <3>1 DEF Follow
      <4> QED
        BY <1>3, <3>1, <4>2, <4>3 DEF AtTarget, Dragging, DragTarget, norm
    <3>2. CASE latest # v /\ latest # None
      <4>1. latest \in View /\ drag'[latest] = drag[latest] /\ Disturb(f) /\ lastY' = lastY
        BY <1>1, <1>5, <1>8, <2>4, <3>2 DEF TypeOK
      <4>2. SUFFICES ASSUME Dragging(latest), ~disturbed'
                     PROVE  mNorm'[latest][drag[latest].knob]
                              = mNorm[latest][drag[latest].knob] /\ ~disturbed
        BY <1>1, <1>3, <3>2, <4>1 DEF AtTarget, Dragging, DragTarget
      <4> QED
        BY <1>1, <2>1, <3>2, <4>1, <4>2, EditElsewhere
    <3>3. CASE latest = None
      BY <1>3, <3>3 DEF AtTarget
    <3> QED
      BY <3>1, <3>2, <3>3
  <2> QED
    BY <2>3, <2>6, <2>7, <2>8 DEF IInv
<1> QED
  BY <1>7, <1>8

\* The new editor has no drag and is given the controller's values.
LEMMA AttachKeeps ==
  ASSUME IInv, NEW v \in View, Attach(v)
  PROVE  IInv'
<1>1. TypeOK /\ Known /\ CopiesAgree /\ GesturesAreDrags /\ ~Dragging(v)
  BY DEF IInv, TypeOK, Attach
<1>2. /\ mView' = v /\ latest' = v /\ attached' = attached \cup {v}
      /\ mNorm' = [mNorm EXCEPT ![v] = value] /\ lastY' = 0 /\ disturbed' = FALSE
      /\ UNCHANGED <<value, drag, heard, gestures>>
  BY DEF Attach, EditorAttached
<1>3. TypeOK'
  BY <1>1, <1>2 DEF TypeOK, Dragging
<1>4. Known' /\ CopiesAgree'
  BY <1>1, <1>2 DEF Known, CopiesAgree, TypeOK
<1>5. GesturesAreDrags'
  BY <1>1, <1>2 DEF GesturesAreDrags, Draggers
<1>6. AtTarget'
  BY <1>1, <1>2 DEF AtTarget, Dragging
<1> QED
  BY <1>3, <1>4, <1>5, <1>6 DEF IInv

\* An editor that goes takes its drag with it, and the last one stays known if another does.
LEMMA RemoveKeeps ==
  ASSUME IInv, NEW v \in View, Remove(v)
  PROVE  IInv'
<1>1. TypeOK /\ Known /\ CopiesAgree /\ GesturesAreDrags /\ AtTarget
  BY DEF IInv
<1>2. /\ mView' = (IF mView = v THEN None ELSE mView)
      /\ latest' = (IF latest = v THEN None ELSE latest)
      /\ attached' = attached \ {v} /\ v \in attached
      /\ mNorm' = [mNorm EXCEPT ![v] = Default]
      /\ drag' = [drag EXCEPT ![v] = NoDrag] /\ gestures' = Ended(v) /\ Follow(v, 0)
      /\ UNCHANGED <<value, heard>>
  BY DEF Remove, EditorRemoved
<1>3. /\ gestures' \in [Knob -> Int]
      /\ \A k \in Knob : gestures'[k] = (gestures[k] - (IF drag[v].knob = k THEN 1 ELSE 0))
                                        + (IF NoDrag.knob = k THEN 1 ELSE 0)
  BY <1>1, <1>2, EndedCounts, NoDragType DEF TypeOK
<1>4. GesturesAreDrags' /\ gestures' \in [Knob -> Nat]
  BY <1>1, <1>2, <1>3, NoDragType, GesturesFollow
<1>5. /\ \A u \in View : drag'[u] = IF u = v THEN NoDrag ELSE drag[u]
      /\ \A u \in View \ {v} : mNorm'[u] = mNorm[u]
      /\ drag' \in [View -> [knob : Knob \cup {None}, startY : Height \cup {0},
                             startNorm : Norm, fine : BOOLEAN]]
  BY <1>1, <1>2, NoDragType DEF TypeOK
<1>6. mNorm' \in [View -> [Param -> Norm]]
  BY <1>1, <1>2, DefaultType DEF TypeOK
<1>7. lastY' \in Height \cup {0} /\ disturbed' \in BOOLEAN
  BY <1>1, <1>2 DEF Follow, TypeOK, moves
<1>8. TypeOK'
  BY <1>1, <1>2, <1>4, <1>5, <1>6, <1>7, NoDragType DEF TypeOK, Dragging
<1>9. Known' /\ CopiesAgree'
  BY <1>1, <1>2, <1>5 DEF Known, CopiesAgree, TypeOK
<1>10. AtTarget'
  <2>1. CASE latest = v
    BY <1>2, <2>1 DEF AtTarget
  <2>2. CASE latest # v /\ latest # None
    <3>1. latest \in View /\ latest' = latest /\ UNCHANGED <<lastY, disturbed>>
      BY <1>1, <1>2, <2>2 DEF TypeOK, Follow, moves
    <3> QED
      BY <1>1, <1>5, <2>2, <3>1 DEF AtTarget, Dragging, DragTarget
  <2>3. CASE latest = None
    BY <1>2, <2>3 DEF AtTarget
  <2> QED
    BY <2>1, <2>2, <2>3
<1> QED
  BY <1>4, <1>8, <1>9, <1>10 DEF IInv

LEMMA InitInvariant == Init => IInv
<1>1. SUFFICES ASSUME Init PROVE IInv
  OBVIOUS
<1>2. TypeOK
  <2>1. Default \in [Param -> Norm]
    BY DefaultType
  <2>2. \A v \in View : ~Dragging(v)
    BY <1>1, NoDragType DEF Init, Dragging
  <2> QED
    BY <1>1, <2>1, <2>2, NoDragType DEF Init, TypeOK
<1>3. Known /\ CopiesAgree /\ AtTarget
  BY <1>1 DEF Init, Known, CopiesAgree, AtTarget
<1>4. GesturesAreDrags
  <2>1. SUFFICES ASSUME NEW k \in Knob PROVE Draggers(k) = {}
    BY <1>1, FS_EmptySet DEF Init, GesturesAreDrags
  <2> QED
    BY <1>1, NoDragType DEF Init, Draggers
<1> QED
  BY <1>2, <1>3, <1>4 DEF IInv

LEMMA StepInvariant == IInv /\ [Next]_gestureVars => IInv'
<1>1. SUFFICES ASSUME IInv, [Next]_gestureVars PROVE IInv'
  OBVIOUS
<1>2. TypeOK
  BY <1>1 DEF IInv
<1>3. CASE Automate
  <2>1. PICK p \in Param, n \in Norm : HostSets([q \in {p} |-> n])
    BY <1>3 DEF Automate
  <2>2. [q \in {p} |-> n] \in [{p} -> Norm] /\ {p} \in SUBSET Param
    OBVIOUS
  <2> QED
    BY <1>1, <2>1, <2>2, EditKeeps DEF HostSets, Edit
<1>4. CASE SetComponentState
  <2>1. PICK state \in State : HostSets(state)
    BY <1>4 DEF SetComponentState
  <2>2. state \in [Param -> Norm]
    BY GestureAssumption DEF Norm
  <2> QED
    BY <1>1, <2>1, <2>2, EditKeeps DEF HostSets, Edit
<1>5. ASSUME NEW v \in View, PressFootswitch(v) PROVE IInv'
  <2> DEFINE f == [p \in {Switch} |-> IF Engaged(v) THEN 0 ELSE Top]
  <2>1. f \in [{Switch} -> Norm] /\ {Switch} \in SUBSET Param
    BY GestureAssumption DEF Norm
  <2>2. EditParam(f)
    BY <1>5 DEF PressFootswitch
  <2> HIDE DEF f
  <2> QED
    BY <1>1, <2>1, <2>2, EditKeeps DEF EditParam
<1>6. ASSUME NEW v \in View, ApplyPreset(v) PROVE IInv'
  <2>1. PICK norm \in Preset : EditParam(norm)
    BY <1>6 DEF ApplyPreset
  <2>2. norm \in [Knob -> Norm] /\ Knob \in SUBSET Param
    BY GestureAssumption DEF Norm
  <2> QED
    BY <1>1, <2>1, <2>2, EditKeeps DEF EditParam
<1>7. ASSUME NEW v \in View, NEW k \in Knob, Wheel(v, k) PROVE IInv'
  <2>1. PICK delta \in {-1, 1} : EditParam([p \in {k} |-> ClampNorm(mNorm[v][k] + delta)])
    BY <1>7 DEF Wheel
  <2> DEFINE f == [p \in {k} |-> ClampNorm(mNorm[v][k] + delta)]
  <2>2. mNorm[v][k] \in Int
    BY <1>2, GestureAssumption DEF TypeOK, Norm
  <2>3. f \in [{k} -> Norm] /\ {k} \in SUBSET Param
    BY <2>2, ClampFacts, GestureAssumption
  <2>4. EditParam(f)
    BY <2>1
  <2> HIDE DEF f
  <2> QED
    BY <1>1, <2>3, <2>4, EditKeeps DEF EditParam
<1>8. CASE UNCHANGED gestureVars
  BY <1>1, <1>8 DEF gestureVars, moves, IInv, TypeOK, Known, CopiesAgree, GesturesAreDrags,
                    Draggers, AtTarget, Dragging, DragTarget
<1> QED
  BY <1>1, <1>3, <1>4, <1>5, <1>6, <1>7, <1>8, AttachKeeps, RemoveKeeps, ReleaseKeeps,
     PressKnobKeeps, MoveKeeps DEF Next

LEMMA Invariant == Spec => []IInv
  BY InitInvariant, StepInvariant, PTL DEF Spec

\* Whatever is dragged, turned, loaded or automated, every copy of a parameter stays
\* normalised and only attached editors are known or dragged in.
THEOREM TypeCorrect == Spec => []TypeOK
  BY Invariant, PTL DEF IInv

\* The host, the controller and the editor opened last always have the same values.
THEOREM CopiesAlwaysAgree == Spec => []CopiesAgree
  BY Invariant, PTL DEF IInv

\* No gesture is left open or closed twice, for any number of editors and knobs.
THEOREM GesturesAlwaysDrags == Spec => []GesturesAreDrags
  BY Invariant, PTL DEF IInv

-----------------------------------------------------------------------------
(* The drag *)

\* A knob that stands still is within what any movement of the pointer allows.
LEMMA StandingStill ==
  ASSUME NEW went \in Int
  PROVE  IF went >= 0 THEN 0 \in 0..(Factor * went) ELSE 0 \in (Factor * went)..0
<1>1. Factor \in Nat /\ Factor >= 1
  BY GestureAssumption
<1>2. Factor * went \in Int /\ (went >= 0 => Factor * went >= 0)
      /\ (went < 0 => Factor * went <= 0)
  BY <1>1
<1> QED
  BY <1>2

\* The target of a drag follows the pointer, and not further than a coarse drag goes.
LEMMA TargetFollows ==
  ASSUME NEW d \in [knob : Knob, startY : Height \cup {0}, startNorm : Norm, fine : BOOLEAN],
         NEW y \in Height \cup {0}, NEW z \in Height \cup {0}
  PROVE  LET moved == DragTarget(d, z) - DragTarget(d, y)
             went  == y - z
         IN  IF went >= 0 THEN moved \in 0..(Factor * went) ELSE moved \in (Factor * went)..0
<1> DEFINE S == Scale(d.fine)
           a == d.startNorm + (d.startY - y) * S
           b == d.startNorm + (d.startY - z) * S
<1>1. /\ Factor \in Nat /\ Factor >= 1 /\ S \in {1, Factor} /\ S \in Int
      /\ y \in Int /\ z \in Int /\ d.startY \in Int /\ d.startNorm \in Int
  <2>1. Factor \in Nat /\ Factor >= 1 /\ S \in {1, Factor}
    BY GestureAssumption DEF Scale
  <2>2. y \in Int /\ z \in Int /\ d.startY \in Int
    <3>1. Height \cup {0} \subseteq Int /\ d.startY \in Height \cup {0}
      BY GestureAssumption
    <3> QED
      BY <3>1
  <2>3. d.startNorm \in Int
    BY GestureAssumption DEF Norm
  <2> QED
    BY <2>1, <2>2, <2>3
<1> HIDE DEF S
<1>2. a \in Int /\ b \in Int /\ b - a = (y - z) * S
  <2>1. \A m, n, k \in Int : m * k \in Int /\ n * k - m * k = (n - m) * k
    OBVIOUS
  <2>2. d.startY - y \in Int /\ d.startY - z \in Int
        /\ (d.startY - z) - (d.startY - y) = y - z
    BY <1>1
  <2>3. /\ (d.startY - y) * S \in Int /\ (d.startY - z) * S \in Int
        /\ (d.startY - z) * S - (d.startY - y) * S = (y - z) * S
    BY <1>1, <2>1, <2>2
  <2> QED
    BY <1>1, <2>3
<1>3. (y - z) * S \in Int /\ Factor * (y - z) \in Int
  BY <1>1
<1>4. y - z >= 0 => 0 <= (y - z) * S /\ (y - z) * S <= Factor * (y - z)
  BY <1>1
<1>5. y - z < 0 => (y - z) * S <= 0 /\ Factor * (y - z) <= (y - z) * S
  BY <1>1
<1>6. DragTarget(d, y) = ClampNorm(a) /\ DragTarget(d, z) = ClampNorm(b)
  BY DEF DragTarget, S
<1> HIDE DEF a, b
<1>7. /\ a <= b => ClampNorm(b) - ClampNorm(a) \in 0..(b - a)
      /\ b <= a => ClampNorm(b) - ClampNorm(a) \in (b - a)..0
  BY <1>2, GestureAssumption DEF ClampNorm
<1> QED
  BY <1>1, <1>2, <1>3, <1>4, <1>5, <1>6, <1>7, ClampFacts DEF Norm

\* What a step may do to the knob in the last editor's drag.
LEMMA StepMoves ==
  ASSUME IInv, Next, latest # None, latest' = latest, Dragging(latest),
         drag'[latest].knob = drag[latest].knob, ~disturbed, ~disturbed'
  PROVE  \/ mNorm'[latest][drag[latest].knob] = mNorm[latest][drag[latest].knob]
         \/ /\ lastY' \in Height
            /\ mNorm'[latest][drag[latest].knob] = DragTarget(drag[latest], lastY')
<1> DEFINE Same == mNorm'[latest][drag[latest].knob] = mNorm[latest][drag[latest].knob]
<1>1. TypeOK /\ Known /\ CopiesAgree
  BY DEF IInv
<1>2. latest \in View /\ latest \in attached
  BY <1>1 DEF TypeOK
<1>3. ASSUME NEW f, HostSets(f) \/ EditParam(f), NEW S \in SUBSET Param, f \in [S -> Norm]
      PROVE  Same
  BY <1>1, <1>3, EditElsewhere DEF HostSets, EditParam, Edit
<1>4. CASE Automate
  <2>1. PICK p \in Param, n \in Norm : HostSets([q \in {p} |-> n])
    BY <1>4 DEF Automate
  <2>2. [q \in {p} |-> n] \in [{p} -> Norm] /\ {p} \in SUBSET Param
    OBVIOUS
  <2> QED
    BY <1>3, <2>1, <2>2
<1>5. CASE SetComponentState
  BY <1>3, <1>5, GestureAssumption DEF SetComponentState, Norm
<1>6. ASSUME NEW v \in View, PressFootswitch(v) PROVE Same
  <2> DEFINE f == [p \in {Switch} |-> IF Engaged(v) THEN 0 ELSE Top]
  <2>1. f \in [{Switch} -> Norm] /\ {Switch} \in SUBSET Param /\ EditParam(f)
    BY <1>6, GestureAssumption DEF Norm, PressFootswitch
  <2> HIDE DEF f
  <2> QED
    BY <1>3, <2>1
<1>7. ASSUME NEW v \in View, ApplyPreset(v) PROVE Same
  BY <1>3, <1>7, GestureAssumption DEF ApplyPreset, Norm
<1>8. ASSUME NEW v \in View, NEW k \in Knob, Wheel(v, k) PROVE Same
  <2>1. PICK delta \in {-1, 1} : EditParam([p \in {k} |-> ClampNorm(mNorm[v][k] + delta)])
    BY <1>8 DEF Wheel
  <2> DEFINE f == [p \in {k} |-> ClampNorm(mNorm[v][k] + delta)]
  <2>2. mNorm[v][k] \in Int
    BY <1>1, GestureAssumption DEF TypeOK, Norm
  <2>3. f \in [{k} -> Norm] /\ {k} \in SUBSET Param /\ EditParam(f)
    BY <2>1, <2>2, ClampFacts, GestureAssumption
  <2> HIDE DEF f
  <2> QED
    BY <1>3, <2>3
<1>9. ASSUME NEW v \in View, Attach(v) \/ Remove(v) PROVE Same
  BY <1>1, <1>2, <1>9 DEF Attach, Remove, TypeOK
<1>10. ASSUME NEW v \in View, NEW k \in Knob, NEW y \in Height, NEW fine \in BOOLEAN,
              Release(v) \/ PressKnob(v, k, y, fine)
       PROVE  Same
  BY <1>10 DEF Release, PressKnob
<1>11. ASSUME NEW v \in View, Release(v) PROVE Same
  BY <1>11 DEF Release
<1>12. ASSUME NEW v \in View, NEW y \in Height, NEW fine \in BOOLEAN, Move(v, y, fine)
       PROVE  Same \/ /\ lastY' \in Height
                      /\ mNorm'[latest][drag[latest].knob] = DragTarget(drag[latest], lastY')
  <2> DEFINE d == Reanchored(v, y, fine)
             norm == DragTarget(d, y)
             f == [p \in {d.knob} |-> norm]
  <2>1. Dragging(v)
    BY <1>12 DEF Move
  <2>2. /\ d.knob \in Knob /\ d.knob = drag[v].knob /\ norm \in Norm
        /\ fine = drag[v].fine => d = drag[v]
        /\ fine # drag[v].fine => norm = mNorm[v][d.knob]
    BY <1>1, <2>1, MoveFacts
  <2>3. /\ norm = mNorm[v][d.knob] => Follow(v, y) /\ UNCHANGED <<value, mNorm, heard>>
        /\ norm # mNorm[v][d.knob] =>
             /\ Edit(f)
             /\ IF v = latest THEN Follow(v, y) ELSE Disturb(f) /\ UNCHANGED lastY
    BY <1>12 DEF Move
  <2> HIDE DEF d
  <2>4. f \in [{d.knob} -> Norm] /\ {d.knob} \in SUBSET Param /\ f[d.knob] = norm
    BY <2>2, GestureAssumption
  <2> HIDE DEF norm, f
  <2>5. CASE norm = mNorm[v][d.knob]
    BY <2>3, <2>5
  <2>6. CASE norm # mNorm[v][d.knob] /\ v # latest
    BY <1>1, <2>3, <2>4, <2>6, EditElsewhere
  <2>7. CASE norm # mNorm[v][d.knob] /\ v = latest
    <3>1. mNorm'[latest] = value' /\ value'[d.knob] = norm
      <4>1. Edit(f) /\ d.knob \in Param
        BY <2>2, <2>3, <2>7, GestureAssumption
      <4> QED
        BY <1>1, <2>4, <4>1, EditAgrees
    <3>2. d = drag[latest] /\ lastY' = y
      BY <2>2, <2>3, <2>7 DEF Follow
    <3> QED
      BY <3>1, <3>2 DEF norm
  <2> QED
    BY <2>5, <2>6, <2>7
<1> QED
  BY <1>4, <1>5, <1>6, <1>7, <1>8, <1>9, <1>10, <1>11, <1>12 DEF Next

\* However the pointer goes and Shift is pressed, a knob moves as far as the pointer at most
\* and in its direction, for every resolution and drag speed.
THEOREM KnobsNeverJump == Spec => KnobNeverJumps
<1> DEFINE v == latest
           k == drag[v].knob
           moved == mNorm'[v][k] - mNorm[v][k]
           went  == lastY - lastY'
           Goal == v # None /\ latest' = v /\ Dragging(v) /\ drag'[v].knob = k
                   /\ ~disturbed /\ ~disturbed' =>
                     IF went >= 0 THEN moved \in 0..(Factor * went)
                     ELSE moved \in (Factor * went)..0
<1>1. IInv /\ IInv' /\ [Next]_gestureVars => [Goal]_gestureVars
  <2>1. SUFFICES ASSUME IInv, IInv', Next, v # None, latest' = v, Dragging(v),
                        drag'[v].knob = k, ~disturbed, ~disturbed'
                 PROVE  IF went >= 0 THEN moved \in 0..(Factor * went)
                        ELSE moved \in (Factor * went)..0
    OBVIOUS
  <2>2. /\ lastY \in Height \cup {0} /\ lastY' \in Height \cup {0} /\ went \in Int
        /\ drag[v] \in [knob : Knob, startY : Height \cup {0},
                        startNorm : Norm, fine : BOOLEAN]
        /\ mNorm[v][k] \in Int
    BY <2>1, GestureAssumption DEF IInv, TypeOK, Dragging, Norm
  <2>3. mNorm[v][k] = DragTarget(drag[v], lastY)
    BY <2>1 DEF IInv, AtTarget
  <2>4. mNorm'[v][k] = mNorm[v][k] \/ mNorm'[v][k] = DragTarget(drag[v], lastY')
    BY <2>1, StepMoves
  <2>5. CASE mNorm'[v][k] = mNorm[v][k]
    <3>1. moved = 0
      BY <2>2, <2>5
    <3> QED
      BY <2>2, <3>1, StandingStill
  <2>6. CASE mNorm'[v][k] = DragTarget(drag[v], lastY')
    BY <2>2, <2>3, <2>6, TargetFollows
  <2> QED
    BY <2>4, <2>5, <2>6
<1> QED
  BY <1>1, Invariant, PTL DEF Spec, KnobNeverJumps
=============================================================================
