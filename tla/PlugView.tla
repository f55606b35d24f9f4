------------------------------ MODULE PlugView ------------------------------
(***************************************************************************)
(* The X11 window of an editor (src/src/platform/x11plugview.cpp): opening *)
(* and closing it, who maps it, what the window shows, and the keyboard    *)
(* focus it takes around a text field. The plug-in's own connection queues *)
(* the X events until the host calls it back, so what an event says may be *)
(* out of date when it is handled; requests act on the server at once.     *)
(* The pieces here are put together in module BbmView. Sizes, the pointer  *)
(* and the colormap are left out, and Expose events, which only ask for    *)
(* one more repaint: NeverStaysBlank must hold without them.               *)
(***************************************************************************)
EXTENDS Naturals, Sequences

CONSTANTS
  Holder,            \* windows of the host that may have the keyboard focus
  Container,         \* the one our window is embedded in
  Mortal,            \* those that may be destroyed or hidden
  Ours,              \* our window, as a holder of the focus
  Root,              \* PointerRoot and None, the focus that no window has
  NoOne,             \* mPrevFocus when nothing was saved
  MapFallbackTicks,  \* kMapFallbackTicks
  MaxQueue           \* events queued before the host calls back (a bound)

ASSUME WindowAssumption ==
  /\ Container \in Holder /\ Mortal \subseteq Holder \ {Container}
  /\ Holder \cap {Ours, Root, NoOne} = {}
  /\ Ours # Root /\ Ours # NoOne /\ Root # NoOne
  /\ MapFallbackTicks \in Nat \ {0} /\ MaxQueue \in Nat \ {0}

VARIABLES
  open,                    \* mDisplay and mWindow are set
  handlers,                \* what is registered with the host's run loop
  queue,                   \* events the connection holds for us
  mapped, painted,         \* the server's: our window is mapped, and shows a picture
  mMapped, mTicksUnmapped,
  mDirty,
  xfocus,                  \* the server's: who has the keyboard
  gone,                    \* windows of the host that cannot take the focus any more
  mKeyFocus, mPrevFocus

loop   == <<open, handlers>>
shown  == <<mapped, painted, mMapped, mDirty>>
keys   == <<mKeyFocus, mPrevFocus>>
window == <<loop, queue, shown, mTicksUnmapped, xfocus, gone, keys>>

\* X events of our window. "own" is the PropertyNotify of the _XEMBED_INFO that we set
\* ourselves, "xembed" that of one the embedder has set; the code cannot tell them apart.
Event == {"press", "focusOut", "map", "unmap", "own", "xembed"}

Pending(e) == \E i \in DOMAIN queue : queue[i] = e

WindowInit ==
  /\ open = FALSE /\ handlers = {} /\ queue = <<>>
  /\ mapped = FALSE /\ painted = FALSE
  /\ mMapped = FALSE /\ mTicksUnmapped = 0 /\ mDirty = TRUE
  /\ xfocus = Container /\ gone = {}
  /\ mKeyFocus = FALSE /\ mPrevFocus = NoOne

-----------------------------------------------------------------------------
(* Keyboard focus *)

\* Mutant: a saved focus that is our own window is given back like any other.
TakesFocusOwn(w) == w \in (Holder \cup {Ours, Root}) \ gone

\* Our own window, as saved by an opening that found it with the focus, is not asked for;
\* a request that gives the focus to another w fails if w is hidden or destroyed by now.
TakesFocus(w) == w \in (Holder \cup {Root}) \ gone

\* setKeyboardFocus(wanted), with the events of rest still queued. The server tells us
\* when we lose the focus, and when the pointer is in our window and Root loses it.
SetKeyboardFocus(wanted, rest) ==
  CASE wanted = mKeyFocus \/ (wanted /\ ~mapped) ->
         queue' = rest /\ UNCHANGED <<xfocus, keys>>
    [] wanted /\ ~mKeyFocus /\ mapped ->
         /\ mPrevFocus' = xfocus /\ mKeyFocus' = TRUE
         /\ xfocus' = Ours
         /\ queue' = IF xfocus = Root THEN Append(rest, "focusOut") ELSE rest
    [] ~wanted /\ mKeyFocus ->
         /\ mPrevFocus' = NoOne /\ mKeyFocus' = FALSE
         /\ xfocus' = IF TakesFocus(mPrevFocus) THEN mPrevFocus ELSE xfocus
         /\ queue' = IF xfocus = Ours /\ xfocus' # Ours
                     THEN Append(rest, "focusOut") ELSE rest

\* Mutant: the loss of the focus is not followed.
FocusOutIgnored ==
  /\ queue' = Tail(queue)
  /\ UNCHANGED <<loop, shown, mTicksUnmapped, xfocus, gone, keys>>

\* "Follow reality, or a later release would steal it from whoever has it now."
FocusOut ==
  /\ mKeyFocus' = FALSE /\ mPrevFocus' = NoOne
  /\ queue' = Tail(queue)
  /\ UNCHANGED <<loop, shown, mTicksUnmapped, xfocus, gone>>

-----------------------------------------------------------------------------
(* The window *)

\* attachedToParent, when openWindow succeeds: the host may refuse to register either
\* handler. If it fails, everything is closed again and nothing has changed.
OpenWindow ==
  /\ ~open
  /\ open' = TRUE
  /\ handlers' \in SUBSET {"event", "timer"}
  /\ queue' = <<"own">>              \* the window selects property changes from birth
  /\ mDirty' = FALSE                 \* painted at once, into a window not yet mapped
  /\ UNCHANGED <<mapped, painted, mMapped, mTicksUnmapped, xfocus, gone, keys>>

\* Mutant: the ticks and the map state outlive the window.
CloseWindowKeepingMapped ==
  /\ open' = FALSE /\ handlers' = {} /\ queue' = <<>>
  /\ mapped' = FALSE /\ painted' = FALSE
  /\ mKeyFocus' = FALSE /\ mPrevFocus' = NoOne
  /\ xfocus' = IF mKeyFocus /\ TakesFocus(mPrevFocus) THEN mPrevFocus
               ELSE IF xfocus = Ours THEN Container ELSE xfocus
  /\ UNCHANGED <<mMapped, mTicksUnmapped, mDirty, gone>>

\* The end of removedFromParent: the handlers were unregistered, the focus is given back
\* if we hold it; a window destroyed with the focus leaves it to its parent.
CloseWindow ==
  /\ open' = FALSE /\ handlers' = {} /\ queue' = <<>>
  /\ mapped' = FALSE /\ painted' = FALSE
  /\ mMapped' = FALSE /\ mTicksUnmapped' = 0
  /\ mKeyFocus' = FALSE /\ mPrevFocus' = NoOne
  /\ xfocus' = IF mKeyFocus /\ TakesFocus(mPrevFocus) THEN mPrevFocus
               ELSE IF xfocus = Ours THEN Container ELSE xfocus
  /\ UNCHANGED <<mDirty, gone>>

\* Mutant: a mapped window is not painted again.
MapNotifyNotDirty ==
  /\ mMapped' = TRUE /\ queue' = Tail(queue)
  /\ UNCHANGED <<loop, mapped, painted, mDirty, mTicksUnmapped, xfocus, gone, keys>>

MapNotify ==
  /\ mMapped' = TRUE /\ mDirty' = TRUE
  /\ queue' = Tail(queue)
  /\ UNCHANGED <<loop, mapped, painted, mTicksUnmapped, xfocus, gone, keys>>

UnmapNotify ==
  /\ mMapped' = FALSE
  /\ queue' = Tail(queue)
  /\ UNCHANGED <<loop, mapped, painted, mDirty, mTicksUnmapped, xfocus, gone, keys>>

\* XMapWindow, and the MapNotify it causes unless the window is mapped already.
MapRequest(rest) ==
  /\ mapped' = TRUE
  /\ queue' = IF mapped THEN rest ELSE Append(rest, "map")

\* "Reaper sets _XEMBED_INFO on the plug-in's window rather than mapping it and expects
\* the plug-in to map itself": mapWindow.
PropertyNotify ==
  /\ IF mMapped
     THEN queue' = Tail(queue) /\ UNCHANGED shown
     ELSE /\ MapRequest(Tail(queue))
          /\ mMapped' = TRUE /\ mDirty' = TRUE /\ UNCHANGED painted
  /\ UNCHANGED <<loop, mTicksUnmapped, xfocus, gone, keys>>

\* The count is compared with the limit only, so it stops there.
Counted == IF mTicksUnmapped < MapFallbackTicks THEN mTicksUnmapped + 1 ELSE mTicksUnmapped

\* onTimer: ensureMapped, the subclass's tick (which may ask for a repaint), redraw. What
\* is drawn into an unmapped window is lost.
OnTimer(repaint) ==
  LET fallback == ~mMapped /\ Counted = MapFallbackTicks
  IN  /\ open /\ "timer" \in handlers
      /\ mTicksUnmapped' = IF mMapped THEN mTicksUnmapped ELSE Counted
      /\ mMapped' = (mMapped \/ fallback)
      /\ IF fallback THEN MapRequest(queue) ELSE UNCHANGED <<mapped, queue>>
      /\ painted' = IF mDirty \/ repaint \/ fallback THEN mapped' ELSE painted
      /\ mDirty' = FALSE
      /\ UNCHANGED <<loop, xfocus, gone, keys>>

\* drainEvents comes to an event of kind e.
Arrives(e) == open /\ "event" \in handlers /\ queue # <<>> /\ Head(queue) = e

-----------------------------------------------------------------------------
(* The embedder, the host's other windows and the window manager *)

Room == open /\ Len(queue) < MaxQueue

Click ==
  /\ Room /\ mapped
  /\ queue' = Append(queue, "press")
  /\ UNCHANGED <<loop, shown, mTicksUnmapped, xfocus, gone, keys>>

EmbedderMaps ==
  /\ Room /\ ~mapped
  /\ MapRequest(queue)
  /\ UNCHANGED <<loop, painted, mMapped, mDirty, mTicksUnmapped, xfocus, gone, keys>>

\* A window that disappears leaves the focus to its parent.
EmbedderUnmaps ==
  /\ Room /\ mapped
  /\ mapped' = FALSE /\ painted' = FALSE
  /\ xfocus' = IF xfocus = Ours THEN Container ELSE xfocus
  /\ queue' = queue \o (IF xfocus = Ours THEN <<"unmap", "focusOut">> ELSE <<"unmap">>)
  /\ UNCHANGED <<loop, mMapped, mDirty, mTicksUnmapped, gone, keys>>

EmbedderSignals ==
  /\ Room
  /\ queue' = Append(queue, "xembed")
  /\ UNCHANGED <<loop, shown, mTicksUnmapped, xfocus, gone, keys>>

\* Another window of the host, or the root, gets the focus. We are told when we lose it,
\* and, with the pointer in our window, when one around us does.
OtherTakesFocus ==
  /\ \E w \in (Holder \cup {Root}) \ (gone \cup {xfocus}) : xfocus' = w
  /\ \/ xfocus # Ours /\ UNCHANGED queue
     \/ /\ Room /\ xfocus \in {Ours, Container, Root}
        /\ queue' = Append(queue, "focusOut")
  /\ UNCHANGED <<loop, shown, mTicksUnmapped, gone, keys>>

\* A key grab, a window manager's hot key say: the window that has the focus is told that
\* it lost it and that it has it again (a FocusIn, which the code leaves alone).
Grab ==
  /\ xfocus = Ours /\ Room
  /\ queue' = Append(queue, "focusOut")
  /\ UNCHANGED <<loop, shown, mTicksUnmapped, xfocus, gone, keys>>

Vanish ==
  /\ \E w \in Mortal \ gone :
        gone' = gone \cup {w} /\ xfocus' = IF xfocus = w THEN Root ELSE xfocus
  /\ UNCHANGED <<loop, queue, shown, mTicksUnmapped, keys>>

Environment ==
  \/ Click \/ EmbedderMaps \/ EmbedderUnmaps \/ EmbedderSignals
  \/ OtherTakesFocus \/ Grab \/ Vanish
=============================================================================
