---------------------------- MODULE EditGestures ----------------------------
(***************************************************************************)
(* The knobs and the footswitch of the editor (src/src/ui/bbmview.cpp) and *)
(* the edit controller behind them (src/src/plugin/controller.cpp): who    *)
(* holds which copy of a parameter, and which edit gestures are open with  *)
(* the host. Everything runs on the host's user interface thread, one call *)
(* at a time, but events may be lost: a press may come without the release *)
(* of the last one. A host may open a second editor before it closes the   *)
(* first. Values are in steps of a fine drag; the pointer's height is      *)
(* counted from the top of the window, as in X.                            *)
(***************************************************************************)
EXTENDS Integers, FiniteSets

CONSTANTS
  View,      \* places for an editor; a new BbmView is made for every opening
  Param,     \* the parameters, of which
  Knob,      \* those with a knob (layout::kKnobs; presets::kKeys are the same), and
  Switch,    \* the footswitch's
  Top,       \* the largest normalised value
  Factor,    \* a drag without Shift moves a knob this many steps per unit of height
  Height,    \* heights of the pointer
  Preset,    \* the values that presets have for the knobs,
  State,     \* and those that a project has for every parameter
  None       \* nullptr and -1

ASSUME GestureAssumption ==
  /\ IsFiniteSet(View) /\ None \notin View
  /\ Knob \subseteq Param /\ Switch \in Param \ Knob /\ None \notin Param
  /\ Top \in Nat \ {0} /\ Factor \in Nat \ {0} /\ Height \subseteq Int
  /\ Preset \subseteq [Knob -> 0..Top] /\ State \subseteq [Param -> 0..Top]

VARIABLES
  value,       \* the controller's parameters,
  mView,       \* and the editor it forwards them to
  attached,    \* the editors that have a window
  mNorm,       \* each editor's copy of the parameters
  drag,        \* each editor's mDragKnob, mDragStartY, mDragStartNorm and mDragFine
  heard,       \* the host: each parameter as it set it or was last told,
  gestures,    \* and the calls of beginEdit without their endEdit
  latest,      \* the editor that was opened last, while it is open
  lastY,       \* the height that the last pointer event of that editor's drag came with
  disturbed    \* the knob in that drag was set by something else since then

moves == <<lastY, disturbed>>

\* A pointer event at y begins or moves, and another handler ends, v's drag.
Follow(v, y) ==
  IF v = latest THEN lastY' = y /\ disturbed' = FALSE ELSE UNCHANGED moves

gestureVars == <<value, mView, attached, mNorm, drag, heard, gestures, latest,
                 moves>>

Norm == 0..Top
ClampNorm(n) == IF n < 0 THEN 0 ELSE IF n > Top THEN Top ELSE n

\* "The footswitch defaults ON"; the defaults of the knobs stand as 0.
Default == [p \in Param |-> IF p = Switch THEN Top ELSE 0]

\* mDragKnob < 0; the other members are written before they are read again.
NoDrag == [knob |-> None, startY |-> 0, startNorm |-> 0, fine |-> FALSE]
Dragging(v) == drag[v].knob # None

-----------------------------------------------------------------------------
(* The controller *)

\* f over g, where f says something.
Over(f, g) == [p \in DOMAIN g |-> IF p \in DOMAIN f THEN f[p] ELSE g[p]]
Clamped(f) == [p \in DOMAIN f |-> ClampNorm(f[p])]

\* setParamNormalized for every parameter of f, each clamped by the SDK and forwarded to
\* the open editor's paramChanged.
SetParamNormalized(f) ==
  /\ value' = Over(Clamped(f), value)
  /\ mNorm' = IF mView = None THEN mNorm
              ELSE [mNorm EXCEPT ![mView] = Over(Clamped(f), mNorm[mView])]

\* Setting the parameters of f may move the knob of the drag behind its back.
Disturb(f) ==
  disturbed' = (disturbed \/ (latest # None /\ drag[latest].knob \in DOMAIN f))

\* editorAttached: the new editor is given every value before it is drawn.
EditorAttached(v) ==
  /\ mView' = v
  /\ mNorm' = [mNorm EXCEPT ![v] = value]

\* Mutant: whichever editor goes, the controller forgets the one it has.
EditorRemovedAny(v) == mView' = None

EditorRemoved(v) == mView' = IF mView = v THEN None ELSE mView

-----------------------------------------------------------------------------
(* Gestures *)

\* setParamNormalized and performEdit, the two calls an edit consists of.
Edit(f) ==
  /\ SetParamNormalized(f)
  /\ heard' = Over(f, heard)

\* editParam for every parameter of f: each is a gesture of its own, begun and ended.
EditParam(f) ==
  /\ Edit(f)
  /\ Disturb(f)
  /\ UNCHANGED <<mView, attached, drag, gestures, latest, lastY>>

\* beginEdit and endEdit of the parameter of a drag.
Begun(k, g) == [g EXCEPT ![k] = @ + 1]
Ended(v) == IF Dragging(v) THEN [gestures EXCEPT ![drag[v].knob] = @ - 1] ELSE gestures

-----------------------------------------------------------------------------
(* The editor's handlers *)

\* createView, attached: which values the new editor has before is not seen.
Attach(v) ==
  /\ v \notin attached
  /\ attached' = attached \cup {v}
  /\ EditorAttached(v)
  /\ latest' = v /\ lastY' = 0 /\ disturbed' = FALSE
  /\ UNCHANGED <<value, drag, heard, gestures>>

\* removedFromParent: the controller forgets the editor, then onRemoved ends its drag; the
\* next editor in its place is a new one.
Remove(v) ==
  /\ v \in attached
  /\ EditorRemoved(v)
  /\ attached' = attached \ {v}
  /\ latest' = IF latest = v THEN None ELSE latest
  /\ mNorm' = [mNorm EXCEPT ![v] = Default]
  /\ gestures' = Ended(v)
  /\ drag' = [drag EXCEPT ![v] = NoDrag]
  /\ Follow(v, 0)
  /\ UNCHANGED <<value, heard>>

\* Mutant: a press without the release of the last one leaves that gesture open.
PressKnobOnly(v, k, y, fine) ==
  /\ v \in attached
  /\ gestures' = Begun(k, gestures)
  /\ drag' = [drag EXCEPT ![v] = [knob |-> k, startY |-> y, startNorm |-> mNorm[v][k],
                                  fine |-> fine]]
  /\ Follow(v, y)
  /\ UNCHANGED <<value, mView, attached, mNorm, heard, latest>>

\* onMouseDown on a knob: "a second button-1 press without a release: close the first
\* gesture".
PressKnob(v, k, y, fine) ==
  /\ v \in attached
  /\ gestures' = Begun(k, Ended(v))
  /\ drag' = [drag EXCEPT ![v] = [knob |-> k, startY |-> y, startNorm |-> mNorm[v][k],
                                  fine |-> fine]]
  /\ Follow(v, y)
  /\ UNCHANGED <<value, mView, attached, mNorm, heard, latest>>

Engaged(v) == 2 * mNorm[v][Switch] >= Top

\* onMouseDown on the footswitch; a drag whose release was lost goes on.
PressFootswitch(v) ==
  /\ v \in attached
  /\ EditParam([p \in {Switch} |-> IF Engaged(v) THEN 0 ELSE Top])

\* onMouseDown on the preset bar, when it loads a preset (applyPreset); so too in a drag.
ApplyPreset(v) ==
  /\ v \in attached
  /\ \E norm \in Preset : EditParam(norm)

\* The steps of a drag per unit of height.
Scale(fine) == IF fine THEN 1 ELSE Factor

\* Where a drag d puts its knob with the pointer at y.
DragTarget(d, y) == ClampNorm(d.startNorm + (d.startY - y) * Scale(d.fine))

\* Mutant: a change of Shift changes the scale of the whole drag.
ReanchoredNever(v, y, fine) == [drag[v] EXCEPT !.fine = fine]

\* "Pressing or releasing Shift mid-drag re-anchors, so the knob never jumps."
Reanchored(v, y, fine) ==
  IF fine = drag[v].fine THEN drag[v]
  ELSE [drag[v] EXCEPT !.fine = fine, !.startY = y, !.startNorm = mNorm[v][drag[v].knob]]

\* onMouseMove in a drag, and dragTo, which leaves an unmoved knob alone.
Move(v, y, fine) ==
  LET d    == Reanchored(v, y, fine)
      norm == DragTarget(d, y)
      f    == [p \in {d.knob} |-> norm]
  IN  /\ Dragging(v)
      /\ drag' = [drag EXCEPT ![v] = d]
      /\ IF norm = mNorm[v][d.knob]
         THEN Follow(v, y) /\ UNCHANGED <<value, mNorm, heard>>
         ELSE /\ Edit(f)
              /\ IF v = latest THEN Follow(v, y) ELSE Disturb(f) /\ UNCHANGED lastY
      /\ UNCHANGED <<mView, attached, gestures, latest>>

\* onMouseUp.
Release(v) ==
  /\ Dragging(v)
  /\ gestures' = Ended(v)
  /\ drag' = [drag EXCEPT ![v] = NoDrag]
  /\ Follow(v, 0)
  /\ UNCHANGED <<value, mView, attached, mNorm, heard, latest>>

\* onMouseWheel on a knob, one notch of which is a step here.
Wheel(v, k) ==
  /\ v \in attached /\ ~Dragging(v)
  /\ \E delta \in {-1, 1} : EditParam([p \in {k} |-> ClampNorm(mNorm[v][k] + delta)])

\* The host's own edit of f, which the open editor hears of.
HostSets(f) ==
  /\ SetParamNormalized(f)
  /\ heard' = Over(f, heard)
  /\ Disturb(f)
  /\ UNCHANGED <<mView, attached, drag, gestures, latest, lastY>>

\* Automation, or the host's generic editor.
Automate == \E p \in Param, n \in Norm : HostSets([q \in {p} |-> n])

SetComponentState == \E state \in State : HostSets(state)

-----------------------------------------------------------------------------
\* initialize registers every parameter with its default.
Init ==
  /\ value = Default /\ heard = value
  /\ mView = None /\ attached = {} /\ latest = None
  /\ mNorm = [v \in View |-> Default]
  /\ drag = [v \in View |-> NoDrag]
  /\ gestures = [k \in Knob |-> 0]
  /\ lastY = 0 /\ disturbed = FALSE

Next ==
  \/ Automate \/ SetComponentState
  \/ \E v \in View :
       \/ Attach(v) \/ Remove(v) \/ PressFootswitch(v) \/ ApplyPreset(v) \/ Release(v)
       \/ \E y \in Height, fine \in BOOLEAN :
            Move(v, y, fine) \/ \E k \in Knob : PressKnob(v, k, y, fine)
       \/ \E k \in Knob : Wheel(v, k)

Spec == Init /\ [][Next]_gestureVars

-----------------------------------------------------------------------------
\* Every copy of a parameter is normalised, whatever is dragged and turned; the
\* controller knows only editors that are attached, and only those are dragged in.
TypeOK ==
  /\ value \in [Param -> Norm] /\ heard \in [Param -> Norm]
  /\ attached \subseteq View
  /\ mView \in attached \cup {None} /\ latest \in attached \cup {None}
  /\ mNorm \in [View -> [Param -> Norm]]
  /\ drag \in [View -> [knob : Knob \cup {None}, startY : Height \cup {0},
                        startNorm : Norm, fine : BOOLEAN]]
  /\ gestures \in [Knob -> Nat]
  /\ lastY \in Height \cup {0} /\ disturbed \in BOOLEAN
  /\ \A v \in View : Dragging(v) => v \in attached

\* The host was told of every edit, and the editor opened last shows what the controller
\* has, through every order of edits, automation, openings and closings: "every route
\* into a parameter passes through the controller's setParamNormalized", and "performEdit
\* tells the host".
CopiesAgree ==
  /\ heard = value
  /\ latest # None => mNorm[latest] = value

\* The editors that drag knob k.
Draggers(k) == {v \in View : drag[v].knob = k}

\* Each gesture that is open with the host is a drag that is going on: lost releases,
\* presses elsewhere and editors removed in the middle leave none behind.
GesturesAreDrags == \A k \in Knob : gestures[k] = Cardinality(Draggers(k))

\* "Relative, never absolute: a click never throws the knob": an event of a drag moves the
\* knob the way the pointer went and no further than it went, also when Shift is pressed
\* or released, when the knob has been at its end, and after a lost release; unless
\* something else has set the knob since the event before.
KnobNeverJumps ==
  [][LET v == latest
         k == drag[v].knob
         moved == mNorm'[v][k] - mNorm[v][k]
         went  == lastY - lastY'
     IN  v # None /\ latest' = v /\ Dragging(v) /\ drag'[v].knob = k
         /\ ~disturbed /\ ~disturbed' =>
           IF went >= 0 THEN moved \in 0..(Factor * went) ELSE moved \in (Factor * went)..0
    ]_gestureVars
=============================================================================
