------------------------------ MODULE PresetBar ------------------------------
(***************************************************************************)
(* The preset strip (src/src/ui/presetbar.cpp): the list that opens over   *)
(* the faceplate, the name field that takes the keyboard, and the Delete   *)
(* button that wants a second click. Everything runs on the UI thread, so  *)
(* an operation is one step; between two of them the knobs may move and    *)
(* another process may change what is on disk. Scrolling, the caret and    *)
(* the wording of the status line are left out.                            *)
(***************************************************************************)
EXTENDS Naturals

CONSTANTS
  Name,       \* names nameIsSafe accepts
  Sound,      \* positions of the knobs
  Nothing,    \* the empty name; no preset on disk
  Unsafe,     \* a text in the field that trims to no safe name
  ArmTicks    \* kArmTicks

ASSUME BarAssumption ==
  /\ Name \cap {Nothing, Unsafe} = {} /\ Nothing # Unsafe
  /\ Nothing \notin Sound
  /\ ArmTicks \in Nat \ {0}

VARIABLES
  mCurrent,            \* the name shown in the box
  mListOpen, mNames,   \* the list, and the names it was opened with
  mEditing, mEdit,     \* the name field, and what is typed in it
  mArmTicks,           \* > 0 while Delete is armed
  focus,               \* what keyboardFocus was last asked for
  knobs,               \* what the `current' callback returns
  store,               \* the presets on disk
  armedFor             \* history: the name shown when Delete was armed

list  == <<mListOpen, mNames>>
field == <<mEditing, mEdit, focus>>
arm   == <<mArmTicks, armedFor>>
world == <<knobs, store>>
vars  == <<mCurrent, list, field, arm, world>>

Init ==
  /\ mCurrent = Nothing
  /\ mListOpen = FALSE /\ mNames = {}
  /\ mEditing = FALSE /\ mEdit = Nothing
  /\ mArmTicks = 0 /\ armedFor = Nothing
  /\ focus = FALSE
  /\ knobs \in Sound
  /\ store \in [Name -> Sound \cup {Nothing}]

Armed == mArmTicks > 0

OnDisk == {n \in Name : store[n] # Nothing}

-----------------------------------------------------------------------------
(* What the handlers call. *)

OpenList  == mListOpen' = TRUE /\ mNames' = OnDisk
\* The names stay in the vector, where nothing reads them until it is filled again.
CloseList == mListOpen' = FALSE /\ mNames' = {}

\* Mutant: the box takes the name before the file is read.
PickNameFirst(n) ==
  /\ mCurrent' = n
  /\ \/ store[n] # Nothing /\ knobs' = store[n]
     \/ UNCHANGED knobs
  /\ UNCHANGED store

\* pick: load the row's preset, which may have gone or be unreadable by now; only a
\* loaded one reaches the knobs and the box.
Pick(n) ==
  /\ \/ store[n] # Nothing /\ knobs' = store[n] /\ mCurrent' = n
     \/ UNCHANGED <<knobs, mCurrent>>
  /\ UNCHANGED store

\* beginEdit; its caller has closed the list.
BeginEdit == mEditing' = TRUE /\ mEdit' = mCurrent /\ focus' = TRUE

\* Mutant: an abandoned field keeps the keyboard.
EndEditKeepingFocus(commit) ==
  /\ mEditing' = FALSE /\ mEdit' = Nothing
  /\ focus' = (focus /\ ~commit)
  /\ \/ /\ mEditing /\ commit /\ mEdit \in Name
        /\ store' = [store EXCEPT ![mEdit] = knobs] /\ mCurrent' = mEdit
     \/ UNCHANGED <<store, mCurrent>>
  /\ UNCHANGED knobs

\* endEdit: the keyboard goes back first; a committed safe name is saved under, which
\* may fail. Nothing happens with no field open.
EndEdit(commit) ==
  /\ mEditing' = FALSE /\ mEdit' = Nothing
  /\ focus' = (focus /\ ~mEditing)
  /\ \/ /\ mEditing /\ commit /\ mEdit \in Name
        /\ store' = [store EXCEPT ![mEdit] = knobs] /\ mCurrent' = mEdit
     \/ UNCHANGED <<store, mCurrent>>
  /\ UNCHANGED knobs

\* Mutant: only Delete itself looks at the arm.
DisarmNever == UNCHANGED arm

\* "Any click disarms Delete, except the one that confirms it."
Disarm == mArmTicks' = 0 /\ armedFor' = Nothing

\* deleteClicked: arm, or with the arm still up remove the preset in the box, which
\* fails if the file is gone.
DeleteClicked ==
  IF mCurrent = Nothing
  THEN Disarm /\ UNCHANGED <<mCurrent, store>>
  ELSE IF ~Armed
  THEN mArmTicks' = ArmTicks /\ armedFor' = mCurrent /\ UNCHANGED <<mCurrent, store>>
  ELSE /\ Disarm
       /\ \/ /\ store[mCurrent] # Nothing
             /\ store' = [store EXCEPT ![mCurrent] = Nothing] /\ mCurrent' = Nothing
          \/ UNCHANGED <<mCurrent, store>>

-----------------------------------------------------------------------------
(* mouseDown, by what is under the pointer. *)

\* A row of the open list.
ClickRow ==
  /\ mListOpen
  /\ \E n \in mNames : Pick(n)
  /\ Disarm /\ CloseList
  /\ UNCHANGED field

\* Anywhere outside the bar. An open list is closed and the click goes no further;
\* otherwise the name field is abandoned and the click is the faceplate's.
ClickFace ==
  /\ Disarm /\ CloseList
  /\ IF mListOpen THEN UNCHANGED <<field, mCurrent, world>> ELSE EndEdit(FALSE)

\* The buttons act whether or not the click also closed the list.
ClickSave ==
  /\ Disarm /\ CloseList
  /\ IF mEditing THEN EndEdit(TRUE) ELSE BeginEdit /\ UNCHANGED <<mCurrent, world>>

ClickDelete ==
  /\ CloseList
  /\ mEditing' = FALSE /\ mEdit' = Nothing /\ focus' = (focus /\ ~mEditing)   \* endEdit(false)
  /\ DeleteClicked
  /\ UNCHANGED knobs

\* The name box toggles the list, and does nothing while it is the name field.
ClickBox ==
  /\ Disarm
  /\ IF mListOpen \/ mEditing THEN CloseList ELSE OpenList
  /\ UNCHANGED <<field, mCurrent, world>>

ClickBar == Disarm /\ CloseList /\ UNCHANGED <<field, mCurrent, world>>

MouseDown == ClickRow \/ ClickFace \/ ClickSave \/ ClickDelete \/ ClickBox \/ ClickBar

-----------------------------------------------------------------------------
(* key, tick, and the rest of the world *)

KeyReturn == mEditing /\ EndEdit(TRUE) /\ UNCHANGED <<list, arm>>

\* Also what the view sends when it is removed from its parent.
KeyEscape ==
  \/ mEditing /\ EndEdit(FALSE) /\ UNCHANGED <<list, arm>>
  \/ ~mEditing /\ mListOpen /\ CloseList /\ UNCHANGED <<field, arm, mCurrent, world>>

\* Any other key while editing is the field's.
KeyText ==
  /\ mEditing
  /\ mEdit' \in Name \cup {Nothing, Unsafe}
  /\ UNCHANGED <<mEditing, focus, list, arm, mCurrent, world>>

\* tick: the frame timer counts an armed Delete down.
Tick ==
  /\ Armed
  /\ mArmTicks' = mArmTicks - 1
  /\ armedFor' = IF mArmTicks = 1 THEN Nothing ELSE armedFor
  /\ UNCHANGED <<mCurrent, list, field, world>>

\* The user or the host turns a knob; another process saves or removes a preset.
World ==
  /\ \/ knobs' \in Sound /\ UNCHANGED store
     \/ UNCHANGED knobs /\ \E n \in Name, s \in Sound \cup {Nothing} :
                             store' = [store EXCEPT ![n] = s]
  /\ UNCHANGED <<mCurrent, list, field, arm>>

Next == MouseDown \/ KeyReturn \/ KeyEscape \/ KeyText \/ Tick \/ World

Spec == Init /\ [][Next]_vars

-----------------------------------------------------------------------------
\* The members of PresetBar keep their types; the arm never runs below zero.
TypeOK ==
  /\ mCurrent \in Name \cup {Nothing}
  /\ mListOpen \in BOOLEAN /\ mNames \subseteq Name
  /\ mEditing \in BOOLEAN /\ mEdit \in Name \cup {Nothing, Unsafe}
  /\ mArmTicks \in 0..ArmTicks /\ armedFor \in Name \cup {Nothing}
  /\ focus \in BOOLEAN
  /\ knobs \in Sound /\ store \in [Name -> Sound \cup {Nothing}]

\* The list, the name field and an armed Delete exclude one another, so a key or a click
\* always means one thing; and the keyboard is asked for in just the one mode that has a
\* use for it, whichever of the six ways the name field was closed.
OneModeAtATime ==
  /\ ~(mListOpen /\ mEditing)
  /\ Armed => ~mListOpen /\ ~mEditing
  /\ focus = mEditing

\* The second click on Delete removes the preset that was in the box at the first one,
\* and only while the arm has not run out; nothing else empties the box.
DeletesWhatWasArmed ==
  [][mCurrent # Nothing /\ mCurrent' = Nothing => Armed /\ armedFor = mCurrent]_vars

\* When the box takes a new name, the preset of that name on disk is what the knobs
\* show: after a save, after a load, and never after either has failed.
NameMatchesKnobs ==
  [][mCurrent' # mCurrent /\ mCurrent' # Nothing => store'[mCurrent'] = knobs']_vars
=============================================================================
