--------------------------- MODULE BbmViewProofs ---------------------------
(***************************************************************************)
(* Theorems about PresetBar, for any set of names and sounds and any       *)
(* arming time, and about BbmView, for any host windows and numbers of     *)
(* ticks and any length of the event queue. Every step of the view is a    *)
(* step of the preset bar, so the bar's theorems hold of it too.           *)
(***************************************************************************)
EXTENDS BbmView, SequenceTheorems, TLAPS

-----------------------------------------------------------------------------
(* The preset bar *)

\* The four modes have their types,
ModeTypes ==
  /\ mListOpen \in BOOLEAN /\ mEditing \in BOOLEAN /\ focus \in BOOLEAN
  /\ mArmTicks \in 0..ArmTicks

\* and so do the names, the knobs and the disk.
DataTypes ==
  /\ mCurrent \in Name \cup {Nothing} /\ armedFor \in Name \cup {Nothing}
  /\ mNames \subseteq Name /\ mEdit \in Name \cup {Nothing, Unsafe}
  /\ knobs \in Sound /\ store \in [Name -> Sound \cup {Nothing}]

\* While Delete is armed the box still shows the name it was armed for.
ArmedForTheBox == Armed => armedFor = mCurrent

Modes == ModeTypes /\ OneModeAtATime
IInv == Modes /\ DataTypes /\ ArmedForTheBox

\* What a step may do to the arm: leave it, take it down, raise it or count it down.
LEMMA ArmSteps ==
  ASSUME mArmTicks \in 0..ArmTicks
  PROVE  /\ UNCHANGED mArmTicks => mArmTicks' \in 0..ArmTicks /\ Armed' = Armed
         /\ mArmTicks' = 0 => mArmTicks' \in 0..ArmTicks /\ ~Armed'
         /\ mArmTicks' = ArmTicks => mArmTicks' \in 0..ArmTicks
         /\ Tick => mArmTicks' \in 0..ArmTicks
  BY BarAssumption DEF Armed, Tick

\* The modes exclude one another after every step, whatever the names are.
LEMMA ModesInvariant ==
  ASSUME Modes, [Next]_vars
  PROVE  Modes'
<1> USE DEF Modes, ModeTypes, OneModeAtATime
<1>1. CASE ClickRow \/ ClickBar
  <2>1. mArmTicks' = 0 /\ mListOpen' = FALSE /\ UNCHANGED <<mEditing, focus>>
    BY <1>1 DEF ClickRow, ClickBar, Disarm, CloseList, field
  <2> QED
    BY <2>1, ArmSteps
<1>2. CASE ClickFace
  <2>1. mArmTicks' = 0 /\ mListOpen' = FALSE
    BY <1>2 DEF ClickFace, Disarm, CloseList
  <2>2. mEditing' \in BOOLEAN /\ focus' = mEditing'
    BY <1>2 DEF ClickFace, EndEdit, field
  <2> QED
    BY <2>1, <2>2, ArmSteps
<1>3. CASE ClickSave
  <2>1. mArmTicks' = 0 /\ mListOpen' = FALSE
    BY <1>3 DEF ClickSave, Disarm, CloseList
  <2>2. mEditing' \in BOOLEAN /\ focus' = mEditing'
    BY <1>3 DEF ClickSave, EndEdit, BeginEdit
  <2> QED
    BY <2>1, <2>2, ArmSteps
<1>4. CASE ClickDelete
  <2>1. mArmTicks' \in 0..ArmTicks
    BY <1>4, ArmSteps DEF ClickDelete, DeleteClicked, Disarm
  <2>2. mListOpen' = FALSE /\ mEditing' = FALSE /\ focus' = FALSE
    BY <1>4 DEF ClickDelete, CloseList
  <2> QED
    BY <2>1, <2>2
<1>5. CASE ClickBox
  <2>1. mArmTicks' = 0 /\ UNCHANGED <<mEditing, focus>>
    BY <1>5 DEF ClickBox, Disarm, field
  <2>2. mListOpen' \in BOOLEAN /\ (mListOpen' => ~mEditing)
    BY <1>5 DEF ClickBox, CloseList, OpenList
  <2> QED
    BY <2>1, <2>2, ArmSteps
<1>6. CASE KeyReturn
  <2>1. UNCHANGED <<mArmTicks, mListOpen>> /\ mEditing
    BY <1>6 DEF KeyReturn, arm, list
  <2>2. mEditing' = FALSE /\ focus' = FALSE
    BY <2>1, <1>6 DEF KeyReturn, EndEdit
  <2> QED
    BY <2>1, <2>2, ArmSteps
<1>7. CASE KeyEscape
  <2>1. UNCHANGED mArmTicks
    BY <1>7 DEF KeyEscape, arm
  <2>2. CASE mEditing
    <3>1. mListOpen' = FALSE
      BY <1>7, <2>2 DEF KeyEscape, CloseList, list
    <3>2. mEditing' = FALSE /\ focus' = FALSE
      BY <1>7, <2>2 DEF KeyEscape, EndEdit
    <3> QED
      BY <2>1, <3>1, <3>2, ArmSteps
  <2>3. CASE ~mEditing
    <3>1. mListOpen' = FALSE /\ UNCHANGED <<mEditing, focus>>
      BY <1>7, <2>3 DEF KeyEscape, CloseList, field
    <3> QED
      BY <2>1, <2>3, <3>1, ArmSteps
  <2> QED
    BY <2>2, <2>3
<1>8. CASE KeyText \/ World \/ UNCHANGED vars
  <2>1. UNCHANGED <<mArmTicks, mListOpen, mEditing, focus>>
    BY <1>8 DEF KeyText, World, vars, list, field, arm
  <2> QED
    BY <2>1, ArmSteps
<1>9. CASE Tick
  <2>1. Armed /\ UNCHANGED <<mListOpen, mEditing, focus>>
    BY <1>9 DEF Tick, list, field
  <2> QED
    BY <2>1, <1>9, ArmSteps
<1> QED
  BY <1>1, <1>2, <1>3, <1>4, <1>5, <1>6, <1>7, <1>8, <1>9 DEF Next, MouseDown

\* A pick and the end of an edit leave a known name, disk and knobs behind.
LEMMA PickTypes ==
  ASSUME DataTypes, NEW n \in Name, Pick(n)
  PROVE  mCurrent' \in Name \cup {Nothing} /\ knobs' \in Sound
         /\ store' \in [Name -> Sound \cup {Nothing}]
  BY DEF Pick, DataTypes

LEMMA EndEditTypes ==
  ASSUME DataTypes, NEW commit \in BOOLEAN, EndEdit(commit)
  PROVE  /\ mCurrent' \in Name \cup {Nothing} /\ knobs' \in Sound
         /\ store' \in [Name -> Sound \cup {Nothing}]
         /\ mEdit' = Nothing
  BY DEF EndEdit, DataTypes

\* The names, the knobs and the disk keep their types in every step, and the arm stays
\* with the name it was raised for.
LEMMA DataInvariant ==
  ASSUME IInv, [Next]_vars
  PROVE  DataTypes' /\ ArmedForTheBox'
<1> USE ArmSteps DEF IInv, Modes, ModeTypes, ArmedForTheBox
<1>1. CASE ClickRow
  <2>1. PICK n \in mNames : Pick(n)
    BY <1>1 DEF ClickRow
  <2>2. n \in Name
    BY <2>1 DEF DataTypes
  <2> QED
    BY <2>1, <2>2, <1>1, PickTypes DEF ClickRow, Disarm, CloseList, field, DataTypes
<1>2. CASE ClickFace
  BY <1>2, EndEditTypes
  DEF ClickFace, Disarm, CloseList, field, world, DataTypes
<1>3. CASE ClickSave
  BY <1>3, EndEditTypes
  DEF ClickSave, Disarm, CloseList, BeginEdit, world, DataTypes
<1>4. CASE ClickDelete
  <2>1. /\ mCurrent' \in Name \cup {Nothing} /\ armedFor' \in Name \cup {Nothing}
        /\ store' \in [Name -> Sound \cup {Nothing}]
    BY <1>4 DEF ClickDelete, DeleteClicked, Disarm, DataTypes
  <2>2. ArmedForTheBox'
    BY <1>4 DEF ClickDelete, DeleteClicked, Disarm
  <2> QED
    BY <2>1, <2>2, <1>4 DEF ClickDelete, CloseList, DataTypes
<1>5. CASE ClickBox
  BY <1>5 DEF ClickBox, Disarm, CloseList, OpenList, OnDisk, field, world, DataTypes
<1>6. CASE ClickBar
  BY <1>6 DEF ClickBar, Disarm, CloseList, field, world, DataTypes
<1>7. ASSUME NEW commit \in BOOLEAN, mEditing, EndEdit(commit), UNCHANGED <<list, arm>>
      PROVE  DataTypes' /\ ArmedForTheBox'
  <2>1. ~Armed'
    BY <1>7 DEF arm, OneModeAtATime, Armed
  <2>2. UNCHANGED <<mNames, armedFor>>
    BY <1>7 DEF list, arm
  <2> HIDE DEF Armed
  <2> QED
    BY <2>1, <2>2, <1>7, EndEditTypes DEF DataTypes
<1>8. CASE KeyReturn \/ KeyEscape
  <2>1. CASE mEditing
    BY <2>1, <1>7, <1>8 DEF KeyReturn, KeyEscape
  <2>2. CASE ~mEditing
    <3>1. /\ mNames' = {} /\ Armed' = Armed
          /\ UNCHANGED <<armedFor, mCurrent, mEdit, knobs, store>>
      BY <2>2, <1>8 DEF KeyReturn, KeyEscape, CloseList, field, arm, world, Armed
    <3> QED
      BY <3>1 DEF DataTypes
  <2> QED
    BY <2>1, <2>2
<1>9. CASE KeyText
  BY <1>9 DEF KeyText, list, arm, world, DataTypes
<1>10. CASE Tick
  BY <1>10 DEF Tick, list, field, world, DataTypes
<1>11. CASE World
  BY <1>11 DEF World, list, field, arm, DataTypes
<1>12. CASE UNCHANGED vars
  BY <1>12 DEF vars, list, field, arm, world, DataTypes
<1> QED
  BY <1>1, <1>2, <1>3, <1>4, <1>5, <1>6, <1>8, <1>9, <1>10, <1>11, <1>12
  DEF Next, MouseDown

\* The inductive invariant holds of every reachable state.
LEMMA Inductive == Spec => []IInv
<1>1. Init => IInv
  <2>1. Init => Modes
    <3>1. Init => mArmTicks \in 0..ArmTicks /\ ~Armed
      BY BarAssumption DEF Init, Armed
    <3> QED
      BY <3>1 DEF Init, Modes, ModeTypes, OneModeAtATime
  <2>2. Init => DataTypes /\ ArmedForTheBox
    BY DEF Init, DataTypes, ArmedForTheBox, Armed
  <2> QED
    BY <2>1, <2>2 DEF IInv
<1>2. IInv /\ [Next]_vars => IInv'
  BY ModesInvariant, DataInvariant DEF IInv
<1> QED
  BY <1>1, <1>2, PTL DEF Spec

\* Every variable keeps its type.
THEOREM TypeCorrect == Spec => []TypeOK
<1>1. IInv => TypeOK
  BY DEF IInv, Modes, ModeTypes, DataTypes, TypeOK
<1> QED
  BY <1>1, Inductive, PTL

\* The list, the name field and an armed Delete exclude one another, and the keyboard is
\* asked for exactly while the field is open.
THEOREM ModesExclude == Spec => []OneModeAtATime
  BY Inductive, PTL DEF IInv, Modes

\* Only the preset the box showed at the first click on Delete is ever removed by the
\* second.
THEOREM DeleteIsConfirmed == Spec => DeletesWhatWasArmed
<1>1. ASSUME IInv, [Next]_vars, mCurrent # Nothing, mCurrent' = Nothing
      PROVE  Armed /\ armedFor = mCurrent
  <2> USE <1>1 DEF IInv, DataTypes
  <2>1. ~ClickRow
    <3>1. ASSUME NEW n \in mNames, Pick(n)
          PROVE  FALSE
      BY <3>1, BarAssumption DEF Pick
    <3> QED
      BY <3>1 DEF ClickRow
  <2>2. ASSUME NEW commit \in BOOLEAN, EndEdit(commit)
        PROVE  FALSE
    BY <2>2, BarAssumption DEF EndEdit
  <2>3. CASE ClickDelete
    <3>1. Armed
      BY <2>3 DEF ClickDelete, DeleteClicked
    <3> QED
      BY <3>1 DEF ArmedForTheBox
  <2>4. CASE ~ClickDelete
    BY <2>1, <2>2, <2>4
    DEF Next, MouseDown, ClickFace, ClickSave, ClickBox, ClickBar, KeyReturn, KeyEscape,
        KeyText, Tick, World, vars
  <2> QED
    BY <2>3, <2>4
<1> QED
  BY <1>1, Inductive, PTL DEF Spec, DeletesWhatWasArmed

\* A new name in the box is always the name, on disk, of what the knobs show.
THEOREM NameIsTrue == Spec => NameMatchesKnobs
<1>1. ASSUME IInv, [Next]_vars, mCurrent' # mCurrent, mCurrent' # Nothing
      PROVE  store'[mCurrent'] = knobs'
  <2> USE <1>1 DEF IInv, DataTypes
  <2>1. ASSUME NEW n \in Name, Pick(n)
        PROVE  store'[mCurrent'] = knobs'
    BY <2>1 DEF Pick
  <2>2. ASSUME NEW commit \in BOOLEAN, EndEdit(commit)
        PROVE  store'[mCurrent'] = knobs'
    BY <2>2 DEF EndEdit
  <2>3. CASE ClickRow
    BY <2>1, <2>3 DEF ClickRow
  <2>4. CASE ClickFace \/ ClickSave \/ KeyReturn \/ KeyEscape
    BY <2>2, <2>4 DEF ClickFace, ClickSave, KeyReturn, KeyEscape
  <2>5. ~ClickDelete
    BY DEF ClickDelete, DeleteClicked
  <2> QED
    BY <2>3, <2>4, <2>5 DEF Next, MouseDown, ClickBox, ClickBar, KeyText, Tick, World, vars
<1> QED
  BY <1>1, Inductive, PTL DEF Spec, NameMatchesKnobs

-----------------------------------------------------------------------------
(* Events in a queue *)

Holds(q, e) == \E i \in DOMAIN q : q[i] = e

\* The last event of q about the mapping says b.
Says(q, b) ==
  \E i \in DOMAIN q :
    /\ q[i] = IF b THEN "map" ELSE "unmap"
    /\ \A j \in DOMAIN q : j > i => q[j] \notin {"map", "unmap"}

Silent(q) == ~Holds(q, "map") /\ ~Holds(q, "unmap")

LEMMA AppendEvent ==
  ASSUME NEW q \in Seq(Event), NEW e \in Event
  PROVE  /\ Append(q, e) \in Seq(Event)
         /\ \A x : Holds(Append(q, e), x) <=> Holds(q, x) \/ x = e
         /\ \A b \in BOOLEAN : e = (IF b THEN "map" ELSE "unmap") => Says(Append(q, e), b)
         /\ \A b \in BOOLEAN :
              e \notin {"map", "unmap"} /\ Says(q, b) => Says(Append(q, e), b)
<1>1. /\ Append(q, e) \in Seq(Event) /\ Len(q) \in Nat
      /\ DOMAIN q = 1..Len(q) /\ DOMAIN Append(q, e) = 1..Len(q) + 1
      /\ \A i \in 1..Len(q) : Append(q, e)[i] = q[i]
      /\ Append(q, e)[Len(q) + 1] = e
  BY LenProperties
<1>2. ASSUME NEW x
      PROVE  Holds(Append(q, e), x) <=> Holds(q, x) \/ x = e
  BY <1>1 DEF Holds
<1>3. ASSUME NEW b \in BOOLEAN, e = IF b THEN "map" ELSE "unmap"
      PROVE  Says(Append(q, e), b)
  BY <1>1, <1>3 DEF Says
<1>4. ASSUME NEW b \in BOOLEAN, e \notin {"map", "unmap"}, Says(q, b)
      PROVE  Says(Append(q, e), b)
  <2>1. PICK i \in 1..Len(q) :
          /\ q[i] = IF b THEN "map" ELSE "unmap"
          /\ \A j \in 1..Len(q) : j > i => q[j] \notin {"map", "unmap"}
    BY <1>1, <1>4 DEF Says
  <2>2. \A j \in 1..Len(q) + 1 : j > i => Append(q, e)[j] \notin {"map", "unmap"}
    BY <1>1, <1>4, <2>1
  <2> QED
    BY <1>1, <2>1, <2>2 DEF Says
<1> QED
  BY <1>1, <1>2, <1>3, <1>4

LEMMA TailEvent ==
  ASSUME NEW q \in Seq(Event), q # <<>>
  PROVE  /\ Tail(q) \in Seq(Event)
         /\ \A x : Holds(q, x) <=> Holds(Tail(q), x) \/ Head(q) = x
         /\ \A b \in BOOLEAN :
              Says(q, b) => \/ Says(Tail(q), b)
                            \/ Silent(Tail(q)) /\ Head(q) = (IF b THEN "map" ELSE "unmap")
<1>1. /\ Tail(q) \in Seq(Event) /\ Len(q) \in Nat \ {0}
      /\ DOMAIN q = 1..Len(q) /\ DOMAIN Tail(q) = 1..Len(q) - 1
      /\ \A i \in 1..Len(q) - 1 : Tail(q)[i] = q[i + 1]
      /\ Head(q) = q[1]
  BY LenProperties, HeadTailProperties, EmptySeq
<1>2. ASSUME NEW x
      PROVE  Holds(q, x) <=> Holds(Tail(q), x) \/ Head(q) = x
  <2>1. \A i \in 1..Len(q) : i = 1 \/ i - 1 \in 1..Len(q) - 1
    BY <1>1
  <2>2. \A i \in 1..Len(q) : i = 1 \/ Tail(q)[i - 1] = q[i]
    BY <1>1, <2>1
  <2>3. ASSUME NEW i \in 1..Len(q), q[i] = x
        PROVE  Holds(Tail(q), x) \/ Head(q) = x
    BY <1>1, <2>1, <2>2, <2>3 DEF Holds
  <2>4. ASSUME NEW i \in 1..Len(q) - 1, Tail(q)[i] = x
        PROVE  Holds(q, x)
    <3>1. i + 1 \in 1..Len(q) /\ q[i + 1] = x
      BY <1>1, <2>4
    <3> QED
      BY <1>1, <3>1 DEF Holds
  <2>5. Head(q) = x => Holds(q, x)
    BY <1>1 DEF Holds
  <2> QED
    BY <1>1, <2>3, <2>4, <2>5 DEF Holds
<1>3. ASSUME NEW b \in BOOLEAN, Says(q, b)
      PROVE  \/ Says(Tail(q), b)
             \/ Silent(Tail(q)) /\ Head(q) = (IF b THEN "map" ELSE "unmap")
  <2>1. PICK i \in 1..Len(q) :
          /\ q[i] = IF b THEN "map" ELSE "unmap"
          /\ \A j \in 1..Len(q) : j > i => q[j] \notin {"map", "unmap"}
    BY <1>1, <1>3 DEF Says
  <2>2. CASE i = 1
    <3>1. \A j \in 1..Len(q) - 1 : Tail(q)[j] \notin {"map", "unmap"}
      BY <1>1, <2>1, <2>2
    <3> QED
      BY <1>1, <2>1, <2>2, <3>1 DEF Silent, Holds
  <2>3. CASE i # 1
    <3>1. i - 1 \in 1..Len(q) - 1 /\ Tail(q)[i - 1] = IF b THEN "map" ELSE "unmap"
      BY <1>1, <2>1, <2>3
    <3>2. \A j \in 1..Len(q) - 1 : j > i - 1 => Tail(q)[j] \notin {"map", "unmap"}
      BY <1>1, <2>1
    <3> QED
      BY <1>1, <3>1, <3>2 DEF Says
  <2> QED
    BY <2>2, <2>3
<1> QED
  BY <1>1, <1>2, <1>3

\* The events of a window that is hidden, one after the other.
LEMMA ConcatEvents ==
  ASSUME NEW q \in Seq(Event)
  PROVE  /\ q \o <<"unmap">> = Append(q, "unmap")
         /\ q \o <<"unmap", "focusOut">> = Append(Append(q, "unmap"), "focusOut")
  BY DEF Event

-----------------------------------------------------------------------------
(* The view implements the bar *)

\* A step of the view is a step of the preset bar, or leaves the bar alone.
LEMMA BarSteps == [ViewNext]_viewVars => [Next]_vars
<1>1. CASE Attach \/ OnWindowEvent
  BY <1>1 DEF Attach, OnWindowEvent
<1>2. CASE Remove \/ OnPress \/ OnKey \/ Timer
  BY <1>2 DEF Remove, OnPress, OnKey, Timer, Next
<1>3. CASE Outside
  BY <1>3 DEF Outside, Next
<1>4. CASE UNCHANGED viewVars
  BY <1>4 DEF viewVars
<1> QED
  BY <1>1, <1>2, <1>3, <1>4 DEF ViewNext

\* Queued clicks, X events and timers add no behaviour to the bar: whatever is proved of
\* it by itself holds of it in its window.
THEOREM ViewImplementsBar == ViewSpec => Spec
  BY BarSteps, PTL DEF ViewSpec, Spec, ViewInit

-----------------------------------------------------------------------------
(* The inductive invariant of the window *)

WindowTypes ==
  /\ open \in BOOLEAN /\ handlers \subseteq {"event", "timer"}
  /\ queue \in Seq(Event)
  /\ mapped \in BOOLEAN /\ painted \in BOOLEAN /\ mMapped \in BOOLEAN /\ mDirty \in BOOLEAN
  /\ mTicksUnmapped \in 0..MapFallbackTicks
  /\ xfocus \in Holder \cup {Ours, Root} /\ gone \subseteq Mortal
  /\ mKeyFocus \in BOOLEAN /\ mPrevFocus \in Holder \cup {Ours, Root, NoOne}
  /\ ~open => handlers = {} /\ queue = <<>> /\ ~mapped

\* The last word on the mapping is still queued and true, or mMapped is.
MapFollowed == Says(queue, mapped) \/ (Silent(queue) /\ mMapped = mapped)

WInv == WindowTypes /\ MapFollowed /\ KeyboardIsOurs /\ NeverStaysBlank

\* Pending, as said of any queue.
LEMMA PendingHolds == \A e : Pending(e) <=> Holds(queue, e)
  BY DEF Pending, Holds

\* What setKeyboardFocus leaves behind; only when it is wanted does the focus come to us.
LEMMA FocusSteps ==
  ASSUME WindowTypes, NEW wanted \in BOOLEAN, NEW rest \in Seq(Event),
         SetKeyboardFocus(wanted, rest)
  PROVE  /\ queue' = rest \/ queue' = Append(rest, "focusOut")
         /\ xfocus' \in Holder \cup {Ours, Root} /\ mKeyFocus' \in BOOLEAN
         /\ mPrevFocus' \in Holder \cup {Ours, Root, NoOne}
         /\ mKeyFocus' => wanted /\ (xfocus' = Ours \/ (mKeyFocus /\ xfocus' = xfocus))
         /\ xfocus' = Ours => wanted \/ xfocus = Ours
<1> USE DEF WindowTypes
<1>1. CASE wanted = mKeyFocus \/ (wanted /\ ~mapped)
  <2>1. queue' = rest /\ UNCHANGED <<xfocus, keys>>
    BY <1>1 DEF SetKeyboardFocus
  <2> QED
    BY <1>1, <2>1 DEF keys
<1>2. CASE wanted /\ ~mKeyFocus /\ mapped
  <2>1. /\ mPrevFocus' = xfocus /\ mKeyFocus' = TRUE /\ xfocus' = Ours
        /\ queue' = IF xfocus = Root THEN Append(rest, "focusOut") ELSE rest
    BY <1>2 DEF SetKeyboardFocus
  <2> QED
    BY <1>2, <2>1
<1>3. CASE ~wanted /\ mKeyFocus
  <2>1. /\ mPrevFocus' = NoOne /\ mKeyFocus' = FALSE
        /\ xfocus' = IF TakesFocus(mPrevFocus) THEN mPrevFocus ELSE xfocus
        /\ queue' = IF xfocus = Ours /\ xfocus' # Ours
                    THEN Append(rest, "focusOut") ELSE rest
    BY <1>3 DEF SetKeyboardFocus
  <2> QED
    BY <2>1, <1>3, WindowAssumption DEF TakesFocus
<1> QED
  BY <1>1, <1>2, <1>3

\* A click or a key that neither opens nor closes the name field leaves the focus alone;
\* one that does leaves what setKeyboardFocus leaves.
LEMMA FollowSteps ==
  ASSUME WindowTypes, mKeyFocus => focus, focus \in BOOLEAN, focus' \in BOOLEAN,
         NEW rest \in Seq(Event), Follow(rest)
  PROVE  /\ queue' = rest \/ queue' = Append(rest, "focusOut")
         /\ xfocus' \in Holder \cup {Ours, Root} /\ mKeyFocus' \in BOOLEAN
         /\ mPrevFocus' \in Holder \cup {Ours, Root, NoOne}
         /\ mKeyFocus' => focus' /\ (xfocus' = Ours \/ (mKeyFocus /\ xfocus' = xfocus))
         /\ KeyboardIsTaken => ~focus /\ focus'
<1> USE DEF KeyboardIsTaken
<1>1. CASE focus' = focus
  <2>1. queue' = rest /\ UNCHANGED <<xfocus, mKeyFocus, mPrevFocus>>
    BY <1>1 DEF Follow, keys
  <2> QED
    BY <1>1, <2>1 DEF WindowTypes
<1>2. CASE focus' # focus
  <2>1. SetKeyboardFocus(focus', rest)
    BY <1>2 DEF Follow
  <2> QED
    BY <1>2, <2>1, FocusSteps
<1> QED
  BY <1>1, <1>2

\* Taking a press from the queue, or an event the mapping is not told by, and adding a
\* FocusOut leave what the queue says of the mapping and of the focus.
LEMMA QueueKept ==
  ASSUME NEW q \in Seq(Event), NEW r \in Seq(Event),
         r = q \/ r = Append(q, "focusOut")
  PROVE  /\ \A b \in BOOLEAN : Says(q, b) => Says(r, b)
         /\ Silent(q) => Silent(r)
         /\ \A e : Holds(q, e) => Holds(r, e)
<1>1. "focusOut" \in Event
  BY DEF Event
<1>2. CASE r = q
  BY <1>2
<1>3. CASE r = Append(q, "focusOut")
  <2>1. \A e : Holds(r, e) <=> Holds(q, e) \/ e = "focusOut"
    BY <1>1, <1>3, AppendEvent
  <2>2. \A b \in BOOLEAN : Says(q, b) => Says(r, b)
    BY <1>1, <1>3, AppendEvent
  <2> QED
    BY <2>1, <2>2 DEF Silent
<1> QED
  BY <1>2, <1>3

LEMMA PressTaken ==
  ASSUME NEW q \in Seq(Event), q # <<>>, Head(q) \notin {"map", "unmap"}
  PROVE  /\ Tail(q) \in Seq(Event)
         /\ \A b \in BOOLEAN : Says(q, b) => Says(Tail(q), b)
         /\ Silent(q) => Silent(Tail(q))
         /\ \A e : e # Head(q) /\ Holds(q, e) => Holds(Tail(q), e)
  BY TailEvent DEF Silent

-----------------------------------------------------------------------------
(* The steps *)

\* A click or a key: the bar has taken its step, the window follows its wish.
LEMMA InputStep ==
  ASSUME WInv, open, focus \in BOOLEAN, mEditing = focus,
         focus' \in BOOLEAN, mEditing' = focus',
         NEW rest \in Seq(Event),
         \A b \in BOOLEAN : Says(queue, b) => Says(rest, b),
         Silent(queue) => Silent(rest),
         \A e : e # "press" /\ Holds(queue, e) => Holds(rest, e),
         Follow(rest), mDirty' \in {mDirty, TRUE},
         UNCHANGED <<loop, mapped, painted, mMapped, mTicksUnmapped, gone>>
  PROVE  WInv'
<1> USE DEF WInv
<1>1. /\ queue' = rest \/ queue' = Append(rest, "focusOut")
      /\ xfocus' \in Holder \cup {Ours, Root} /\ mKeyFocus' \in BOOLEAN
      /\ mPrevFocus' \in Holder \cup {Ours, Root, NoOne}
      /\ mKeyFocus' => focus' /\ (xfocus' = Ours \/ (mKeyFocus /\ xfocus' = xfocus))
  BY FollowSteps DEF KeyboardIsOurs
<1>2. queue' \in Seq(Event)
  BY <1>1, AppendEvent DEF Event
<1>3. /\ \A b \in BOOLEAN : Says(queue, b) => Says(queue', b)
      /\ Silent(queue) => Silent(queue')
      /\ \A e : e # "press" /\ Holds(queue, e) => Holds(queue', e)
  BY <1>1, <1>2, QueueKept
<1>4. WindowTypes'
  BY <1>1, <1>2 DEF WindowTypes, loop
<1>5. MapFollowed'
  BY <1>3 DEF MapFollowed, WindowTypes
<1>6. KeyboardIsOurs'
  BY <1>1, <1>3, PendingHolds DEF KeyboardIsOurs, Pending, Holds
<1>7. NeverStaysBlank'
  BY <1>3 DEF NeverStaysBlank, Pending, Holds
<1> QED
  BY <1>4, <1>5, <1>6, <1>7

\* The events that the window handles by itself.
LEMMA EventStep ==
  ASSUME WInv, OnWindowEvent
  PROVE  WInv'
<1> USE DEF WInv
<1>1. /\ open /\ queue # <<>> /\ queue \in Seq(Event) /\ UNCHANGED mEditing
      /\ Tail(queue) \in Seq(Event)
  BY TailEvent DEF OnWindowEvent, Arrives, WindowTypes, vars, field
<1>2. /\ \A x : Holds(queue, x) <=> Holds(Tail(queue), x) \/ Head(queue) = x
      /\ \A b \in BOOLEAN :
           Says(queue, b) =>
             \/ Says(Tail(queue), b)
             \/ Silent(Tail(queue)) /\ Head(queue) = (IF b THEN "map" ELSE "unmap")
  BY <1>1, TailEvent
<1>3. CASE Arrives("focusOut") /\ FocusOut
  <2>1. /\ queue' = Tail(queue) /\ Head(queue) = "focusOut" /\ mKeyFocus' = FALSE
        /\ mPrevFocus' = NoOne
        /\ UNCHANGED <<open, handlers, mapped, painted, mMapped, mDirty,
                      mTicksUnmapped, xfocus, gone>>
    BY <1>3 DEF Arrives, FocusOut, loop, shown
  <2>2. WindowTypes' /\ KeyboardIsOurs'
    BY <1>1, <2>1 DEF WindowTypes, KeyboardIsOurs
  <2>3. MapFollowed'
    BY <1>2, <2>1 DEF MapFollowed, WindowTypes, Silent
  <2>4. NeverStaysBlank'
    BY <1>2, <2>1 DEF NeverStaysBlank, Pending, Holds
  <2> QED
    BY <2>2, <2>3, <2>4
<1>4. CASE Arrives("map") /\ MapNotify
  <2>1. /\ queue' = Tail(queue) /\ Head(queue) = "map"
        /\ mMapped' = TRUE /\ mDirty' = TRUE
        /\ UNCHANGED <<open, handlers, mapped, painted, mTicksUnmapped, xfocus, gone,
                      mKeyFocus, mPrevFocus>>
    BY <1>4 DEF Arrives, MapNotify, loop, keys
  <2>2. WindowTypes' /\ NeverStaysBlank'
    BY <1>1, <2>1 DEF WindowTypes, NeverStaysBlank
  <2>3. MapFollowed'
    BY <1>2, <2>1 DEF MapFollowed, WindowTypes, Silent
  <2>4. KeyboardIsOurs'
    BY <1>1, <1>2, <2>1 DEF KeyboardIsOurs, Pending, Holds
  <2> QED
    BY <2>2, <2>3, <2>4
<1>5. CASE Arrives("unmap") /\ UnmapNotify
  <2>1. /\ queue' = Tail(queue) /\ Head(queue) = "unmap" /\ mMapped' = FALSE
        /\ UNCHANGED <<open, handlers, mapped, painted, mDirty, mTicksUnmapped, xfocus,
                      gone, mKeyFocus, mPrevFocus>>
    BY <1>5 DEF Arrives, UnmapNotify, loop, keys
  <2>2. WindowTypes'
    BY <1>1, <2>1 DEF WindowTypes
  <2>3. MapFollowed'
    BY <1>2, <2>1 DEF MapFollowed, WindowTypes, Silent
  <2>4. KeyboardIsOurs' /\ NeverStaysBlank'
    BY <1>1, <1>2, <2>1 DEF KeyboardIsOurs, NeverStaysBlank, Pending, Holds
  <2> QED
    BY <2>2, <2>3, <2>4
<1>6. CASE (Arrives("own") \/ Arrives("xembed")) /\ PropertyNotify
  <2>1. /\ Head(queue) \in {"own", "xembed"}
        /\ UNCHANGED <<open, handlers, painted, mTicksUnmapped, xfocus, gone, mKeyFocus,
                      mPrevFocus>>
    BY <1>6 DEF Arrives, PropertyNotify, loop, keys, shown
  <2>2. CASE mMapped
    <3>1. queue' = Tail(queue) /\ UNCHANGED <<mapped, mMapped, mDirty>>
      BY <1>6, <2>2 DEF PropertyNotify, shown
    <3>2. WindowTypes'
      BY <1>1, <2>1, <3>1 DEF WindowTypes
    <3>3. MapFollowed'
      BY <1>2, <2>1, <3>1 DEF MapFollowed, WindowTypes, Silent
    <3>4. KeyboardIsOurs' /\ NeverStaysBlank'
      BY <1>1, <1>2, <2>1, <3>1 DEF KeyboardIsOurs, NeverStaysBlank, Pending, Holds
    <3> QED
      BY <3>2, <3>3, <3>4
  <2>3. CASE ~mMapped
    <3>1. /\ mapped' = TRUE /\ mMapped' = TRUE /\ mDirty' = TRUE
          /\ queue' = IF mapped THEN Tail(queue) ELSE Append(Tail(queue), "map")
      BY <1>6, <2>3 DEF PropertyNotify, MapRequest
    <3>2. /\ queue' \in Seq(Event)
          /\ Holds(queue, "focusOut") => Holds(queue', "focusOut")
          /\ IF mapped THEN queue' = Tail(queue) ELSE Says(queue', TRUE)
      BY <1>1, <1>2, <2>1, <3>1, AppendEvent DEF Event
    <3>3. WindowTypes' /\ NeverStaysBlank'
      BY <1>1, <2>1, <3>1, <3>2 DEF WindowTypes, NeverStaysBlank
    <3>4. MapFollowed'
      BY <1>2, <2>1, <3>1, <3>2 DEF MapFollowed, WindowTypes, Silent
    <3>5. KeyboardIsOurs'
      BY <1>1, <2>1, <3>2 DEF KeyboardIsOurs, Pending, Holds
    <3> QED
      BY <3>3, <3>4, <3>5
  <2> QED
    BY <2>2, <2>3 DEF WindowTypes
<1> QED
  BY <1>3, <1>4, <1>5, <1>6 DEF OnWindowEvent

\* The window opens, closes, and the timer runs.
LEMMA LifeStep ==
  ASSUME WInv, Attach \/ Remove \/ Timer
  PROVE  WInv'
<1> USE DEF WInv
<1>1. CASE Attach
  <2>1. /\ ~open /\ open' = TRUE /\ handlers' \subseteq {"event", "timer"}
        /\ queue' = <<"own">> /\ mDirty' = FALSE
        /\ UNCHANGED <<mapped, painted, mMapped, mTicksUnmapped, xfocus, gone,
                      mKeyFocus, mPrevFocus, mEditing>>
    BY <1>1 DEF Attach, OpenWindow, keys, vars, field
  <2>2. queue = <<>> /\ ~mapped
    BY <2>1 DEF WindowTypes
  <2>3. /\ queue' \in Seq(Event) /\ Silent(queue')
        /\ \A b \in BOOLEAN : ~Says(queue, b)
        /\ \A e : ~Holds(queue, e)
    BY <2>1, <2>2 DEF Event, Silent, Holds, Says
  <2>4. WindowTypes'
    BY <2>1, <2>3 DEF WindowTypes
  <2>5. MapFollowed' /\ KeyboardIsOurs' /\ NeverStaysBlank'
    BY <2>1, <2>2, <2>3, PendingHolds
    DEF WindowTypes, MapFollowed, KeyboardIsOurs, NeverStaysBlank
  <2> QED
    BY <2>4, <2>5
<1>2. CASE Remove
  <2>1. /\ open' = FALSE /\ handlers' = {} /\ queue' = <<>>
        /\ mapped' = FALSE /\ painted' = FALSE /\ mMapped' = FALSE
        /\ mTicksUnmapped' = 0 /\ mKeyFocus' = FALSE /\ mPrevFocus' = NoOne
        /\ xfocus' = IF mKeyFocus /\ TakesFocus(mPrevFocus) THEN mPrevFocus
                     ELSE IF xfocus = Ours THEN Container ELSE xfocus
        /\ UNCHANGED <<mDirty, gone>>
    BY <1>2 DEF Remove, CloseWindow
  <2>2. xfocus' \in Holder \cup {Ours, Root}
    BY <2>1, WindowAssumption DEF WindowTypes, TakesFocus
  <2>3. Silent(queue') /\ queue' \in Seq(Event)
    BY <2>1 DEF Silent, Holds
  <2>4. 0 \in 0..MapFallbackTicks
    BY WindowAssumption
  <2>5. gone' \subseteq Mortal /\ mDirty' \in BOOLEAN
    BY <2>1 DEF WindowTypes
  <2>6. WindowTypes'
    <3> HIDE DEF WInv
    <3> QED
      BY <2>1, <2>2, <2>3, <2>4, <2>5 DEF WindowTypes
  <2> QED
    BY <2>1, <2>3, <2>6 DEF MapFollowed, KeyboardIsOurs, NeverStaysBlank
<1>3. CASE Timer
  <2> DEFINE repaint  == mArmTicks = 1
             fallback == ~mMapped /\ Counted = MapFallbackTicks
  <2>1. /\ open /\ UNCHANGED <<open, handlers, xfocus, gone, mKeyFocus, mPrevFocus>>
        /\ mTicksUnmapped' = IF mMapped THEN mTicksUnmapped ELSE Counted
        /\ mMapped' = (mMapped \/ fallback)
        /\ painted' = IF mDirty \/ repaint \/ fallback THEN mapped' ELSE painted
        /\ mDirty' = FALSE
    BY <1>3 DEF Timer, OnTimer, loop, keys
  <2>2. UNCHANGED mEditing
    BY <1>3 DEF Timer, Tick, vars, field
  <2>3. Counted \in 0..MapFallbackTicks
    BY WindowAssumption DEF WindowTypes, Counted
  <2>4. CASE fallback /\ ~mapped
    <3>1. mapped' = TRUE /\ queue' = Append(queue, "map")
      BY <1>3, <2>4 DEF Timer, OnTimer, MapRequest
    <3>2. /\ queue' \in Seq(Event) /\ Says(queue', TRUE)
          /\ Holds(queue, "focusOut") => Holds(queue', "focusOut")
      BY <3>1, AppendEvent DEF WindowTypes, Event
    <3>3. WindowTypes'
      BY <2>1, <2>3, <2>4, <3>1, <3>2 DEF WindowTypes
    <3>4. KeyboardIsOurs'
      BY <2>1, <2>2, <3>2 DEF KeyboardIsOurs, Pending, Holds
    <3> QED
      BY <2>1, <2>4, <3>1, <3>2, <3>3, <3>4 DEF MapFollowed, NeverStaysBlank
  <2>5. CASE ~(fallback /\ ~mapped)
    <3>1. UNCHANGED queue /\ mapped' = mapped
      BY <1>3, <2>5 DEF Timer, OnTimer, MapRequest, WindowTypes
    <3>2. WindowTypes'
      BY <2>1, <2>3, <3>1 DEF WindowTypes
    <3>3. MapFollowed'
      BY <2>1, <2>5, <3>1 DEF MapFollowed, WindowTypes
    <3>4. KeyboardIsOurs' /\ NeverStaysBlank'
      BY <2>1, <2>2, <3>1 DEF KeyboardIsOurs, NeverStaysBlank, Pending
    <3> QED
      BY <3>2, <3>3, <3>4
  <2> QED
    BY <2>4, <2>5
<1> QED
  BY <1>1, <1>2, <1>3

\* An event that says nothing of the mapping joins the queue of an open window, and the
\* focus moves from us only with a FocusOut.
LEMMA OthersStep ==
  ASSUME WInv, queue' \in Seq(Event), open,
         \A b \in BOOLEAN : Says(queue, b) => Says(queue', b),
         Silent(queue) => Silent(queue'),
         \A e : Holds(queue, e) => Holds(queue', e),
         xfocus' \in Holder \cup {Ours, Root},
         xfocus = Ours /\ xfocus' # Ours => Holds(queue', "focusOut"),
         UNCHANGED <<open, handlers, mapped, painted, mMapped, mDirty, mTicksUnmapped,
                     gone, mKeyFocus, mPrevFocus, mEditing>>
  PROVE  WInv'
<1> USE DEF WInv
<1>1. WindowTypes'
  BY DEF WindowTypes
<1>2. MapFollowed'
  BY DEF MapFollowed, WindowTypes
<1>3. KeyboardIsOurs' /\ NeverStaysBlank'
  BY DEF KeyboardIsOurs, NeverStaysBlank, Pending, Holds
<1> QED
  BY <1>1, <1>2, <1>3

\* The user's clicks, the embedder, the host and the window manager.
LEMMA EnvironmentStep ==
  ASSUME WInv, Environment, UNCHANGED mEditing
  PROVE  WInv'
<1> USE DEF WInv
<1>1. queue \in Seq(Event)
  BY DEF WindowTypes
<1>2. ASSUME NEW e \in {"press", "xembed", "focusOut"}, queue' = Append(queue, e)
      PROVE  /\ queue' \in Seq(Event) /\ Holds(queue', e)
             /\ \A b \in BOOLEAN : Says(queue, b) => Says(queue', b)
             /\ Silent(queue) => Silent(queue')
             /\ \A x : Holds(queue, x) => Holds(queue', x)
  <2>1. e \in Event /\ e \notin {"map", "unmap"}
    BY DEF Event
  <2>2. \A x : Holds(queue', x) <=> Holds(queue, x) \/ x = e
    BY <1>1, <1>2, <2>1, AppendEvent
  <2>3. queue' \in Seq(Event) /\ \A b \in BOOLEAN : Says(queue, b) => Says(queue', b)
    BY <1>1, <1>2, <2>1, AppendEvent
  <2> QED
    BY <2>1, <2>2, <2>3 DEF Silent
<1>3. CASE Click \/ EmbedderSignals \/ Grab
  <2>1. /\ open /\ \E e \in {"press", "xembed", "focusOut"} : queue' = Append(queue, e)
        /\ UNCHANGED <<open, handlers, mapped, painted, mMapped, mDirty, mTicksUnmapped,
                      xfocus, gone, mKeyFocus, mPrevFocus>>
    BY <1>3 DEF Click, EmbedderSignals, Grab, Room, loop, shown, keys
  <2>2. xfocus' \in Holder \cup {Ours, Root}
    BY <2>1 DEF WindowTypes
  <2> HIDE DEF WInv
  <2> QED
    BY <1>2, <2>1, <2>2, OthersStep
<1>4. CASE OtherTakesFocus
  <2>1. /\ xfocus' \in Holder \cup {Root}
        /\ UNCHANGED <<open, handlers, mapped, painted, mMapped, mDirty, mTicksUnmapped,
                      gone, mKeyFocus, mPrevFocus>>
    BY <1>4 DEF OtherTakesFocus, loop, shown, keys
  <2>2. CASE xfocus # Ours /\ UNCHANGED queue
    <3>1. WindowTypes'
      BY <2>1, <2>2 DEF WindowTypes
    <3> QED
      BY <2>1, <2>2, <3>1 DEF MapFollowed, KeyboardIsOurs, NeverStaysBlank, Pending
  <2>3. CASE Room /\ queue' = Append(queue, "focusOut")
    <3>1. open
      BY <2>3 DEF Room
    <3> HIDE DEF WInv
    <3> QED
      BY <1>2, <2>1, <2>3, <3>1, OthersStep
  <2> QED
    BY <1>4, <2>2, <2>3 DEF OtherTakesFocus
<1>5. CASE Vanish
  <2>1. PICK w \in Mortal \ gone :
          gone' = gone \cup {w} /\ xfocus' = IF xfocus = w THEN Root ELSE xfocus
    BY <1>5 DEF Vanish
  <2>2. UNCHANGED <<open, handlers, queue, mapped, painted, mMapped, mDirty,
                    mTicksUnmapped, mKeyFocus, mPrevFocus>>
    BY <1>5 DEF Vanish, loop, shown, keys
  <2>3. w # Ours
    BY WindowAssumption
  <2>4. WindowTypes'
    BY <2>1, <2>2 DEF WindowTypes
  <2> QED
    BY <2>1, <2>2, <2>3, <2>4 DEF MapFollowed, KeyboardIsOurs, NeverStaysBlank, Pending
<1>6. CASE EmbedderMaps
  <2>1. /\ open /\ ~mapped /\ mapped' = TRUE /\ queue' = Append(queue, "map")
        /\ UNCHANGED <<open, handlers, painted, mMapped, mDirty, mTicksUnmapped, xfocus,
                      gone, mKeyFocus, mPrevFocus>>
    BY <1>6 DEF EmbedderMaps, Room, MapRequest, loop, keys
  <2>2. /\ queue' \in Seq(Event) /\ Says(queue', TRUE) /\ Holds(queue', "map")
        /\ Holds(queue, "focusOut") => Holds(queue', "focusOut")
    BY <1>1, <2>1, AppendEvent DEF Event
  <2>3. WindowTypes'
    BY <2>1, <2>2 DEF WindowTypes
  <2>4. KeyboardIsOurs' /\ NeverStaysBlank'
    BY <2>1, <2>2 DEF KeyboardIsOurs, NeverStaysBlank, Pending, Holds
  <2> QED
    BY <2>1, <2>2, <2>3, <2>4 DEF MapFollowed
<1>7. CASE EmbedderUnmaps
  <2>1. /\ open /\ mapped' = FALSE /\ painted' = FALSE
        /\ xfocus' = IF xfocus = Ours THEN Container ELSE xfocus
        /\ UNCHANGED <<open, handlers, mMapped, mDirty, mTicksUnmapped, gone, mKeyFocus,
                      mPrevFocus>>
    BY <1>7 DEF EmbedderUnmaps, Room, loop, keys
  <2> DEFINE once == Append(queue, "unmap")
  <2>2. queue' = IF xfocus = Ours THEN Append(once, "focusOut") ELSE once
    BY <1>1, <1>7, ConcatEvents DEF EmbedderUnmaps
  <2>3. /\ once \in Seq(Event) /\ Says(once, FALSE)
        /\ Holds(queue, "focusOut") => Holds(once, "focusOut")
    BY <1>1, AppendEvent DEF Event
  <2>4. /\ Append(once, "focusOut") \in Seq(Event)
        /\ Says(Append(once, "focusOut"), FALSE)
        /\ Holds(Append(once, "focusOut"), "focusOut")
    <3>1. "focusOut" \in Event /\ "focusOut" \notin {"map", "unmap"}
      BY DEF Event
    <3> HIDE DEF once
    <3> QED
      BY <2>3, <3>1, AppendEvent
  <2> HIDE DEF once
  <2>5. WindowTypes'
    <3>1. xfocus' \in Holder \cup {Ours, Root}
      BY <2>1, WindowAssumption DEF WindowTypes
    <3> QED
      BY <2>1, <2>2, <2>3, <2>4, <3>1 DEF WindowTypes
  <2>6. KeyboardIsOurs'
    BY <2>1, <2>2, <2>3, <2>4 DEF KeyboardIsOurs, Pending, Holds
  <2> QED
    BY <2>1, <2>2, <2>3, <2>4, <2>5, <2>6 DEF MapFollowed, NeverStaysBlank
<1> QED
  BY <1>3, <1>4, <1>5, <1>6, <1>7 DEF Environment

\* Every step of the view keeps the invariant, as long as the bar keeps its own.
LEMMA ViewStep ==
  ASSUME WInv, Modes, Modes', [ViewNext]_viewVars
  PROVE  WInv'
<1>1. /\ focus \in BOOLEAN /\ mEditing = focus
      /\ focus' \in BOOLEAN /\ mEditing' = focus'
  BY DEF Modes, ModeTypes, OneModeAtATime
<1>2. CASE Attach \/ Remove \/ Timer
  BY <1>2, LifeStep
<1>3. CASE OnPress
  <2>1. /\ open /\ queue # <<>> /\ queue \in Seq(Event) /\ Head(queue) = "press"
        /\ Follow(Tail(queue)) /\ mDirty' \in {mDirty, TRUE}
        /\ UNCHANGED <<loop, mapped, painted, mMapped, mTicksUnmapped, gone>>
    BY <1>3 DEF OnPress, Arrives, WInv, WindowTypes
  <2> QED
    BY <1>1, <2>1, PressTaken, InputStep
<1>4. CASE OnKey
  <2>1. /\ open /\ queue \in Seq(Event) /\ Follow(queue) /\ mDirty' = TRUE
        /\ UNCHANGED <<loop, mapped, painted, mMapped, mTicksUnmapped, gone>>
    BY <1>4 DEF OnKey, WInv, WindowTypes
  <2> QED
    BY <1>1, <2>1, InputStep
<1>5. CASE OnWindowEvent
  BY <1>5, EventStep
<1>6. CASE (World /\ UNCHANGED window) \/ UNCHANGED viewVars
  <2>1. UNCHANGED window /\ UNCHANGED mEditing
    BY <1>6 DEF World, viewVars, vars, field
  <2> QED
    BY <2>1
    DEF WInv, WindowTypes, MapFollowed, KeyboardIsOurs, NeverStaysBlank, Pending,
        window, loop, shown, keys
<1>7. CASE Environment /\ UNCHANGED vars
  <2>1. UNCHANGED mEditing
    BY <1>7 DEF vars, field
  <2> QED
    BY <1>7, <2>1, EnvironmentStep
<1> QED
  BY <1>2, <1>3, <1>4, <1>5, <1>6, <1>7 DEF ViewNext, Outside

LEMMA ViewInductive == ViewSpec => []WInv
<1>1. ViewInit => WInv
  <2>1. ViewInit => WindowTypes
    <3>1. 0 \in 0..MapFallbackTicks /\ <<>> \in Seq(Event)
      BY WindowAssumption
    <3>2. Container \in Holder
      BY WindowAssumption
    <3> QED
      BY <3>1, <3>2 DEF ViewInit, WindowInit, WindowTypes
  <2>2. Silent(<<>>)
    BY DEF Silent, Holds
  <2>3. ViewInit => MapFollowed /\ KeyboardIsOurs /\ NeverStaysBlank
    BY <2>2 DEF ViewInit, WindowInit, MapFollowed, KeyboardIsOurs, NeverStaysBlank
  <2> QED
    BY <2>1, <2>3 DEF WInv
<1>2. WInv /\ IInv /\ IInv' /\ [ViewNext]_viewVars => WInv'
  BY ViewStep DEF IInv
<1>3. ViewSpec => []IInv
  BY ViewImplementsBar, Inductive, PTL
<1> QED
  BY <1>1, <1>2, <1>3, PTL DEF ViewSpec

\* The members of the bar and the window keep their types, and a closed window has no
\* event and no callback left.
THEOREM ViewTypeCorrect == ViewSpec => []ViewTypeOK
<1>1. WInv /\ TypeOK => ViewTypeOK
  BY DEF WInv, WindowTypes, ViewTypeOK
<1> QED
  BY <1>1, ViewInductive, ViewImplementsBar, TypeCorrect, PTL

\* A step in which the keyboard comes to us, or is believed to, opens the name field.
LEMMA TakeStep ==
  ASSUME WInv, Modes, Modes', [ViewNext]_viewVars, KeyboardIsTaken
  PROVE  ~mEditing /\ mEditing'
<1>1. /\ focus \in BOOLEAN /\ mEditing = focus
      /\ focus' \in BOOLEAN /\ mEditing' = focus'
  BY DEF Modes, ModeTypes, OneModeAtATime
<1>2. WindowTypes /\ (mKeyFocus => focus)
  BY <1>1 DEF WInv, KeyboardIsOurs
<1>3. ASSUME NEW rest \in Seq(Event), Follow(rest)
      PROVE  ~focus /\ focus'
  BY <1>1, <1>2, <1>3, FollowSteps
<1>4. CASE OnPress
  <2>1. Tail(queue) \in Seq(Event) /\ Follow(Tail(queue))
    BY <1>2, <1>4, TailEvent DEF OnPress, Arrives, WindowTypes
  <2> QED
    BY <1>1, <1>3, <2>1
<1>5. CASE OnKey
  <2>1. queue \in Seq(Event) /\ Follow(queue)
    BY <1>2, <1>5 DEF OnKey, WindowTypes
  <2> QED
    BY <1>1, <1>3, <2>1
<1>6. CASE Remove
  BY <1>6, WindowAssumption DEF KeyboardIsTaken, Remove, CloseWindow, TakesFocus
<1>7. CASE Environment
  BY <1>7, WindowAssumption
  DEF KeyboardIsTaken, Environment, Click, EmbedderMaps, EmbedderUnmaps,
      EmbedderSignals, OtherTakesFocus, Grab, Vanish, keys
<1>8. CASE Attach \/ OnWindowEvent \/ Timer
  BY <1>8
  DEF KeyboardIsTaken, Attach, OpenWindow, OnWindowEvent, FocusOut, MapNotify,
      UnmapNotify, PropertyNotify, Timer, OnTimer, keys
<1>9. CASE UNCHANGED window
  BY <1>9 DEF KeyboardIsTaken, window, keys
<1> QED
  BY <1>4, <1>5, <1>6, <1>7, <1>8, <1>9 DEF ViewNext, Outside, viewVars

\* The view never believes for longer than a queued FocusOut that it has a keyboard that
\* it has lost, and only for an open name field; and only the click that opens the field
\* takes the keyboard, so that one lost by an open field stays with whoever has it.
THEOREM FocusFollowed == ViewSpec => FocusIsFollowed
<1>1. WInv => KeyboardIsOurs
  BY DEF WInv
<1>2. WInv /\ IInv /\ IInv' /\ [ViewNext]_viewVars
        => [KeyboardIsTaken => ~mEditing /\ mEditing']_viewVars
  BY TakeStep DEF IInv
<1>3. ViewSpec => []IInv
  BY ViewImplementsBar, Inductive, PTL
<1> QED
  BY <1>1, <1>2, <1>3, ViewInductive, PTL DEF ViewSpec, FocusIsFollowed

\* Whoever maps and unmaps the window, mMapped is right once the queue is read.
THEOREM MappingKnown == ViewSpec => []MappedIsKnown
<1>1. WInv => MappedIsKnown
  BY PendingHolds DEF WInv, MapFollowed, MappedIsKnown, Says, Holds, WindowTypes
<1> QED
  BY <1>1, ViewInductive, PTL

\* A mapped window that shows nothing is about to be painted.
THEOREM NeverBlank == ViewSpec => []NeverStaysBlank
<1>1. WInv => NeverStaysBlank
  BY DEF WInv
<1> QED
  BY <1>1, ViewInductive, PTL
=============================================================================
