------------------------------- MODULE Lv2Ui --------------------------------
(***************************************************************************)
(* The editor and its host: the LV2 user interface                         *)
(* (src/src/lv2/bbm_lv2_ui.cpp), which puts its own run loop over the      *)
(* host's idle() and carries edits and port events between the panel and   *)
(* the host's ports, and the window and frame of module ViewSize under it. *)
(* Under a VST3 host the same view is resized through onSize and its run   *)
(* loop is the host's. Which host it is, is chosen in the initial state.   *)
(*                                                                         *)
(* The host applies the UI's port writes in their order and, as the file's *)
(* header says of it, reports every port change, a write of the UI's       *)
(* included, in its order. Both queues may be behind. Time is counted in   *)
(* units of which mInterval is Interval.                                   *)
(***************************************************************************)
EXTENDS ViewSize, StateBlob

CONSTANTS
  Switch,        \* kSwitchId
  Plain,         \* what automation may put on a port
  Sizes,         \* sizes a host may give the window
  Interval,      \* mInterval
  MaxLate,       \* how far behind a deadline time is followed (a bound)
  MaxInFlight    \* events and messages under way (a bound)

ASSUME UiAssumption ==
  /\ Switch \in 0..NParams - 1
  /\ Plain \subseteq Int \cup {NaN}
  /\ Sizes \subseteq Nat \X Nat
  /\ 2 * Height <= 100000    \* applySizeHints asks with that much
  /\ Interval \in Nat \ {0} /\ MaxLate \in Nat /\ MaxInFlight \in Nat \ {0}

VARIABLES
  host,      \* "vst3" or "lv2"
  pumping,   \* the LV2 host is inside idle()
  due,       \* mNextTick - now
  since,     \* history: time since the last tick; TooSoon if it came early
  panel,     \* the controller's values, which the editor shows
  ports,     \* the host's control ports
  toHost,    \* port writes the host has not applied
  toUi       \* port events the UI has not been given

clock  == <<pumping, due, since>>
values == <<panel, ports, toHost, toUi>>
vars   == <<host, sizes, clock, values>>

TooSoon == -1

\* What portEvent makes of the value of a port.
Shown(p, v) == IF p = HostBypass THEN BypassFromEnabled(v) ELSE ToNorm(p, v)

\* What writeParameter makes of a panel's value. The editor sets its one switch to 0 or
\* Top only, which toPlain keeps, and never the host bypass.
ToPlain(n) == ClampNorm(n)

Engaged(v) == 2 * v[Switch] >= Top

\* "Lit when the pedal is actually in circuit: footswitch on and not host-bypassed."
Lit(v) == Engaged(v) /\ 2 * v[HostBypass] < Top

\* onDraw: the knobs, the footswitch and the lamp of a panel.
Drawn(v) ==
  [knobs |-> [p \in 0..NParams - 1 |-> IF p = Switch THEN 0 ELSE v[p]],
   down |-> Engaged(v), lit |-> Lit(v)]

\* applySizeHints: what checkSizeConstraint makes of one pixel and of far too many.
SizeHints == [min |-> CheckSizeConstraint(<<1, 1>>), max |-> CheckSizeConstraint(<<100000, 100000>>)]

InFlight == Len(configures) + Len(toHost) + Len(toUi)

Init ==
  /\ SizeInit
  /\ host \in {"vst3", "lv2"}
  /\ pumping = FALSE /\ due = 0 /\ since = Interval
  /\ panel = DefaultState
  /\ ports = [p \in Params |-> IF p = HostBypass THEN Top ELSE Def[p]]
  /\ toHost = <<>> /\ toUi = <<>>

-----------------------------------------------------------------------------
(* The UI's life *)

\* registerTimer: due at once.
RegisterTimer == due' = 0 /\ since' = Interval

\* Ui::open: a new controller and a new view, opened at its default size.
UiOpens ==
  /\ panel' = DefaultState
  /\ OpenAt(<<Width, Height>>, Drawn(DefaultState))
  /\ RegisterTimer

\* uiInstantiate. If any of it fails the host gets NULL and everything is closed again.
\* The host then reports the value of every port.
Instantiate ==
  /\ host = "lv2" /\ ~open
  /\ UiOpens
  /\ toUi' = [i \in 1..NParams + 1 |-> <<i - 1, ports[i - 1]>>]
  /\ UNCHANGED <<host, pumping, ports, toHost>>

\* uiCleanup: Ui::close. The next UI is a new view of the default size.
Cleanup ==
  /\ host = "lv2" /\ open /\ ~pumping
  /\ Close
  /\ toUi' = <<>>
  /\ UNCHANGED <<host, clock, panel, ports, toHost>>

\* idle(): pump first drains the connection ...
Idle ==
  /\ host = "lv2" /\ open /\ ~pumping
  /\ pumping' = TRUE
  /\ UNCHANGED <<host, sizes, due, since, values>>

DrainConfigure ==
  /\ pumping /\ configures # <<>>
  /\ ConfigureNotify
  /\ UNCHANGED <<host, clock, values>>

\* ... which is where the user's gestures come from: editParam tells the controller and,
\* through performEdit and writeParameter, the host.
UserEdits(p, n) ==
  /\ pumping /\ InFlight < MaxInFlight
  /\ panel' = [panel EXCEPT ![p] = n]
  /\ toHost' = Append(toHost, <<p, ToPlain(n)>>)
  /\ mDirty' = TRUE
  /\ UNCHANGED <<host, open, surfaces, server, cached, frame, clock, ports, toUi>>

\* Mutant: the next tick is counted from the last deadline.
TickFromDeadline ==
  /\ due <= 0
  /\ due' = due + Interval
  /\ since' = IF since < Interval THEN TooSoon ELSE 0
  /\ IF mDirty THEN Redraw(Drawn(panel)) ELSE UNCHANGED <<mDirty, cached, frame>>

\* "From NOW, not from the last deadline: a host that stalled for a second must not be
\* owed thirty ticks."
Tick ==
  /\ due <= 0
  /\ due' = Interval
  /\ since' = IF since < Interval THEN TooSoon ELSE 0
  /\ IF mDirty THEN Redraw(Drawn(panel)) ELSE UNCHANGED <<mDirty, cached, frame>>

\* Mutant: the deadline moves with every call of idle().
NotDuePostponed == due > 0 /\ due' = Interval /\ UNCHANGED <<since, mDirty, cached, frame>>

NotDue == due > 0 /\ UNCHANGED <<due, since, mDirty, cached, frame>>

\* ... and then ticks, if it is time.
PumpEnds ==
  /\ pumping /\ configures = <<>>
  /\ Tick \/ NotDue
  /\ pumping' = FALSE
  /\ UNCHANGED <<host, open, surfaces, server, values>>

-----------------------------------------------------------------------------
(* Port events and the host *)

\* Mutant: a port event is dropped while a write of the UI's is under way.
PortEventUnlessWriting ==
  LET p == Head(toUi)[1]
  IN  /\ open /\ ~pumping /\ toUi # <<>>
      /\ panel' = IF toHost # <<>> THEN panel
                  ELSE [panel EXCEPT ![p] = Shown(p, Head(toUi)[2])]
      /\ toUi' = Tail(toUi)
      /\ mDirty' = TRUE
      /\ UNCHANGED <<host, open, surfaces, server, cached, frame, clock, ports, toHost>>

\* uiPortEvent: into the controller and, through paramChanged, the editor.
PortEvent ==
  LET p == Head(toUi)[1]
  IN  /\ open /\ ~pumping /\ toUi # <<>>
      /\ panel' = [panel EXCEPT ![p] = Shown(p, Head(toUi)[2])]
      /\ toUi' = Tail(toUi)
      /\ mDirty' = TRUE
      /\ UNCHANGED <<host, open, surfaces, server, cached, frame, clock, ports, toHost>>

\* A port changes and an open UI will be told.
Reported(p, v) ==
  /\ ports' = [ports EXCEPT ![p] = v]
  /\ toUi' = IF open THEN Append(toUi, <<p, v>>) ELSE toUi

AppliesWrite ==
  /\ toHost # <<>> /\ ~pumping
  /\ Reported(Head(toHost)[1], Head(toHost)[2])
  /\ toHost' = Tail(toHost)
  /\ UNCHANGED <<host, sizes, clock, panel>>

Automates(p, v) ==
  /\ host = "lv2" /\ ~pumping
  /\ InFlight < MaxInFlight
  /\ Reported(p, v)
  /\ UNCHANGED <<host, sizes, clock, panel, toHost>>

Waits ==
  /\ host = "lv2" /\ open
  /\ due > -MaxLate
  /\ due' = due - 1
  /\ since' = IF since \in 0..Interval - 1 THEN since + 1 ELSE since
  /\ UNCHANGED <<host, sizes, pumping, values>>

HostResizes(s) ==
  /\ open /\ ~pumping
  /\ InFlight < MaxInFlight
  /\ HostConfigures(s)
  /\ UNCHANGED <<host, clock, values>>

-----------------------------------------------------------------------------
(* The view under a VST3 host *)

Attached ==
  /\ host = "vst3" /\ ~open
  /\ OpenAt(rect, Drawn(panel))
  /\ UNCHANGED <<host, clock, values>>

Removed ==
  /\ host = "vst3" /\ open
  /\ Close
  /\ UNCHANGED <<host, clock, values>>

HostSays(s) ==
  /\ host = "vst3" /\ InFlight < MaxInFlight
  /\ OnSize(s, Drawn(panel))
  /\ UNCHANGED <<host, clock, values>>

\* onFDIsSet comes to a ConfigureNotify; more may come before it is read.
OnFDIsSet ==
  /\ host = "vst3" /\ open /\ configures # <<>>
  /\ ConfigureNotify
  /\ UNCHANGED <<host, clock, values>>

OnTimer ==
  /\ host = "vst3" /\ open /\ mDirty
  /\ Redraw(Drawn(panel))
  /\ UNCHANGED <<host, open, surfaces, server, clock, values>>

-----------------------------------------------------------------------------
Next ==
  \/ Instantiate \/ Cleanup \/ Idle \/ DrainConfigure \/ PumpEnds
  \/ \E p \in 0..NParams - 1, n \in Norm : UserEdits(p, n)
  \/ PortEvent \/ AppliesWrite \/ Waits
  \/ \E p \in Params, v \in Plain : Automates(p, v)
  \/ \E s \in Sizes : HostResizes(s)
  \/ Attached \/ Removed \/ OnFDIsSet \/ OnTimer
  \/ \E s \in Sizes : HostSays(s)

\* "LV2 supplies that clock as ui:idleInterface, which the host calls at least 30 times a
\* second": idle() is called, returns, and time passes. A VST3 host runs the timer that
\* it registered.
Fairness ==
  /\ WF_vars(Idle) /\ WF_vars(DrainConfigure) /\ WF_vars(PumpEnds) /\ WF_vars(Waits)
  /\ WF_vars(OnTimer)

Spec == Init /\ [][Next]_vars /\ Fairness

-----------------------------------------------------------------------------
(* Properties *)

\* Once the view has read every ConfigureNotify, its rectangle, its target, its layout
\* and, unless memory ran out, its buffer have the window's size, no matter how onSize
\* and resizes behind its back crossed; when nothing is left to repaint the window shows
\* the panel as it is, drawn for that size; and no picture scaled for another size is kept
\* (x11plugview.cpp 483-504 and 588-605, bbmview.cpp 76-86).
FrameFits ==
  /\ cached \subseteq (IF open THEN {laid} ELSE {})
  /\ open /\ configures = <<>> =>
       /\ rect = xsize /\ target = xsize /\ laid = xsize
       /\ starved \/ buffer = xsize
       /\ mDirty \/ frame = [size |-> buffer, laid |-> xsize, picture |-> Drawn(panel)]

Near(a, b) == a - b \in -1..1

\* The sizes that decide: Fit looks at one of the two ratios only.
Offers == { <<w, 3 * Height>> : w \in 1..2 * Width + 1 }
            \cup { <<3 * Width, h>> : h \in 1..2 * Height + 1 }

Settles(o) ==
  LET f == CheckSizeConstraint(o)  g == Fit(f)
  IN  /\ Near(Rounded(f[2] * Width, Height), f[1])
      /\ \A i \in 1..2 :
           /\ f[i] \in SizeHints.min[i]..SizeHints.max[i]
           /\ f[i] <= o[i] \/ o[1] < SizeHints.min[1] \/ o[2] < SizeHints.min[2]
           /\ Near(f[i], g[i])
      /\ Fit(g) = g

AllSettle == \A o \in Offers : Settles(o)

\* What constrain makes of any size a host offers, and of the size the window has, keeps
\* the aspect to within a pixel and the two limits exactly, fits into the offer unless
\* that is below the smaller limit, and made again of its own answer, as onSize does
\* after checkSizeConstraint, moves by at most a pixel and then stays (bbmview.cpp 54-62).
SizesSettle == AllSettle /\ Settles(rect)

\* When no write and no port event is under way, the panel shows the host's ports,
\* whatever automation, a value out of range or one that is not a number, or an echo of
\* an older edit came between (bbm_lv2_ui.cpp 319-347).
PanelShowsPorts ==
  host = "lv2" /\ open /\ toHost = <<>> /\ toUi = <<>> =>
    \A p \in Params : panel[p] = Shown(p, ports[p])

\* Two ticks are never closer than the interval, however long the host stalled before
\* (bbm_lv2_ui.cpp 134-146).
TicksAreSpaced == since # TooSoon

\* What was invalidated is painted, unless the editor closes (x11plugview.cpp 632-637
\* under pump, bbm_lv2_ui.cpp 134-146).
Repaints == (open /\ mDirty) ~> (~open \/ ~mDirty)
=============================================================================
