------------------------------ MODULE BbmView ------------------------------
(***************************************************************************)
(* The editor (src/src/ui/bbmview.cpp): an X11 window with the preset bar  *)
(* in it. A click waits in the window's queue until the host calls the     *)
(* event handler; what the bar asks for then becomes X requests. Every     *)
(* step is a step of the bar, or leaves it alone.                          *)
(***************************************************************************)
EXTENDS PresetBar, PlugView

viewVars == <<vars, window>>

ViewInit == Init /\ WindowInit

\* keyboardFocus, which only beginEdit and endEdit call, in the step that opens or closes
\* the name field: an open field that has lost the keyboard does not ask for it again.
Follow(rest) ==
  IF focus' = focus
  THEN queue' = rest /\ UNCHANGED <<xfocus, keys>>
  ELSE SetKeyboardFocus(focus', rest)

Attach == OpenWindow /\ UNCHANGED vars

\* removedFromParent: the bar abandons an open list or name field first (onRemoved).
Remove ==
  /\ open
  /\ KeyEscape \/ (~mEditing /\ ~mListOpen /\ UNCHANGED vars)
  /\ CloseWindow

\* A press inside the drawn area with the first button is the bar's; a repaint is not
\* due when the bar has left the click to the face.
OnPress ==
  /\ Arrives("press")
  /\ MouseDown \/ UNCHANGED vars
  /\ Follow(Tail(queue))
  /\ mDirty' \in {mDirty, TRUE}
  /\ UNCHANGED <<loop, mapped, painted, mMapped, mTicksUnmapped, gone>>

\* A KeyPress, or the host's own onKeyDown.
OnKey ==
  /\ open
  /\ KeyReturn \/ KeyEscape \/ KeyText
  /\ Follow(queue)
  /\ mDirty' = TRUE
  /\ UNCHANGED <<loop, mapped, painted, mMapped, mTicksUnmapped, gone>>

OnWindowEvent ==
  /\ \/ Arrives("focusOut") /\ FocusOut
     \/ Arrives("map") /\ MapNotify
     \/ Arrives("unmap") /\ UnmapNotify
     \/ (Arrives("own") \/ Arrives("xembed")) /\ PropertyNotify
  /\ UNCHANGED vars

\* onTick is the bar's tick, which wants a repaint when the arm runs out.
Timer ==
  /\ Tick \/ (~Armed /\ UNCHANGED vars)
  /\ OnTimer(mArmTicks = 1)

Outside ==
  \/ World /\ UNCHANGED window
  \/ Environment /\ UNCHANGED vars

ViewNext == Attach \/ Remove \/ OnPress \/ OnKey \/ OnWindowEvent \/ Timer \/ Outside

ViewSpec == ViewInit /\ [][ViewNext]_viewVars

-----------------------------------------------------------------------------
\* The members of the bar and of its window keep their types; a closed window has no
\* events and no callback registered, so none runs on the closed connection.
ViewTypeOK ==
  /\ TypeOK
  /\ open \in BOOLEAN /\ handlers \subseteq {"event", "timer"}
  /\ queue \in Seq(Event)
  /\ mapped \in BOOLEAN /\ painted \in BOOLEAN /\ mMapped \in BOOLEAN /\ mDirty \in BOOLEAN
  /\ mTicksUnmapped \in 0..MapFallbackTicks
  /\ xfocus \in Holder \cup {Ours, Root} /\ gone \subseteq Mortal
  /\ mKeyFocus \in BOOLEAN /\ mPrevFocus \in Holder \cup {Ours, Root, NoOne}
  /\ ~open => handlers = {} /\ queue = <<>> /\ ~mapped

\* What mKeyFocus says is so, or the word that it is not is on its way.
KeyboardIsOurs == mKeyFocus => mEditing /\ (xfocus = Ours \/ Pending("focusOut"))

\* A step takes the keyboard, or begins to believe so.
KeyboardIsTaken == (xfocus # Ours /\ xfocus' = Ours) \/ (~mKeyFocus /\ mKeyFocus')

\* The view believes that it holds the keyboard only while it does, or while the event
\* that says otherwise is still queued, and only for an open name field: what it gives
\* back is never taken from someone else but in that gap. And only the click that opens
\* the field takes the keyboard. A field that has lost it stays open without it: no later
\* key, click, give-back or removal takes it from whoever has it now.
FocusIsFollowed ==
  /\ []KeyboardIsOurs
  /\ [][KeyboardIsTaken => ~mEditing /\ mEditing']_viewVars

\* With no event of it left in the queue, mMapped is what the window is: the fallback
\* neither maps a window twice nor leaves one hidden, whoever maps and unmaps it.
MappedIsKnown ==
  ~Pending("map") /\ ~Pending("unmap") => mMapped = mapped

\* A window that is mapped but shows nothing yet is about to be painted.
NeverStaysBlank == mapped /\ ~painted => mDirty \/ Pending("map")

\* "Take the X input focus, or hand it straight back to whoever had it. Called by the
\* editor around a text field, and never held for longer than one."
HeldOnlyForTheField == xfocus = Ours => mEditing
=============================================================================
