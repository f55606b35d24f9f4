------------------------------ MODULE ViewSize ------------------------------
(***************************************************************************)
(* The size of an editor's window and everything that must follow it       *)
(* (src/src/platform/x11plugview.cpp, src/src/ui/bbmview.cpp,              *)
(* src/src/gfx/image.cpp): the view's own rectangle, the cairo target, the *)
(* offscreen buffer, the layout and the pictures scaled for it. A host     *)
(* says the size through onSize, or resizes the window behind the view's   *)
(* back, which the view learns from a ConfigureNotify that may be old when *)
(* it is read. The pieces are put together, under both kinds of host, in   *)
(* module Lv2Ui. The window counts as mapped here, and Expose events,      *)
(* which only ask for one more repaint, are left out: FrameFits must hold  *)
(* without them.                                                           *)
(***************************************************************************)
EXTENDS Integers, Sequences

CONSTANTS
  Width, Height    \* kWidth and kHeight: the layout at scale 1

ASSUME SizeAssumption == Width \in Nat \ {0} /\ Height \in Nat \ {0}

\* kWidth is 500 and kHeight 790: at half the scale there is nothing to round.
ASSUME AspectAssumption ==
  /\ Width % 2 = 0 /\ Height % 2 = 0
  /\ Width < Height /\ Height <= 2 * Width

VARIABLES
  open,         \* mDisplay and mWindow are set
  rect,         \* the view's size
  xsize,        \* the server's: the window's size
  configures,   \* the sizes of the ConfigureNotify events not yet read
  target,       \* the size mTarget was told
  buffer,       \* the size of mBuffer
  starved,      \* history: the last offscreen buffer could not be allocated
  laid,         \* the size the layout (mScale, mOffX, mOffY) was fitted to
  cached,       \* the layouts the scaled pictures in the cache were made for
  mDirty,
  frame         \* what the window shows: a picture of some size and layout, or Blank

surfaces == <<rect, target, buffer, starved, laid>>
server   == <<xsize, configures>>
sizes    == <<open, surfaces, server, cached, mDirty, frame>>

Blank == [size |-> <<0, 0>>, laid |-> <<0, 0>>, picture |-> {}]

-----------------------------------------------------------------------------
(* Sizes, in pixels *)

Within(v, lo, hi) == IF v < lo THEN lo ELSE IF v > hi THEN hi ELSE v

\* lround(a / b). Of the widths that give a tie, one (575) is rounded down by the
\* code's doubles.
Rounded(a, b) == (2 * a + b) \div (2 * b)

\* Mutant: the larger ratio wins.
FitOutside(s) ==
  IF s[1] * Height >= s[2] * Width
  THEN LET w == Within(s[1], Width \div 2, 2 * Width)
       IN  <<w, Rounded(w * Height, Width)>>
  ELSE LET h == Within(s[2], Height \div 2, 2 * Height)
       IN  <<Rounded(h * Width, Height), h>>

\* BbmView::constrain, between kMinScale 0.5 and kMaxScale 2. "The smaller of the two
\* ratios wins".
Fit(s) ==
  IF s[1] * Height <= s[2] * Width
  THEN LET w == Within(s[1], Width \div 2, 2 * Width)
       IN  <<w, Rounded(w * Height, Width)>>
  ELSE LET h == Within(s[2], Height \div 2, 2 * Height)
       IN  <<Rounded(h * Width, Height), h>>

\* "Called for both the host's 'may I?' and its 'I did'".
CheckSizeConstraint(s) == Fit(s)

-----------------------------------------------------------------------------
(* The view *)

SizeInit ==
  /\ open = FALSE
  /\ rect = <<Width, Height>> /\ xsize = rect /\ configures = <<>>
  /\ target = rect /\ buffer = rect /\ starved = FALSE
  /\ laid = rect /\ cached = {}
  /\ mDirty = TRUE /\ frame = Blank

\* A buffer of size s; "keep the old buffer: wrong size beats not painting at all".
NewBuffer(s) ==
  \/ buffer' = s /\ starved' = FALSE
  \/ buffer' = buffer /\ starved' = TRUE

\* getScaled: a picture is scaled for a layout once, and one that could not be made is
\* kept as missing.
Scaled(pictures, layout) == pictures \cup {layout}

\* redraw, with what onDraw makes of the panel.
Redraw(picture) ==
  /\ mDirty' = FALSE
  /\ cached' = Scaled(cached, laid)
  /\ frame' = [size |-> buffer, laid |-> laid, picture |-> picture]

\* attachedToParent, when openWindow succeeds; when it fails everything is closed again.
\* The window and its surfaces get the view's size; onResized comes before the first
\* paint.
OpenAt(s, picture) ==
  /\ open' = TRUE
  /\ rect' = s /\ xsize' = s /\ target' = s /\ buffer' = s /\ laid' = s
  /\ configures' = <<>> /\ starved' = FALSE
  /\ mDirty' = FALSE
  /\ cached' = Scaled({}, s)
  /\ frame' = [size |-> s, laid |-> s, picture |-> picture]

\* removedFromParent: onRemoved purges the scaled pictures, closeWindow drops the
\* surfaces and what the connection still held.
Close ==
  /\ open' = FALSE
  /\ configures' = <<>> /\ cached' = {} /\ frame' = Blank
  /\ UNCHANGED <<surfaces, xsize, mDirty>>

\* BbmView::onResized: "Cached bitmaps are keyed on their pixel size, and every one just
\* changed", with what cached becomes when it is painted at once or later.
OnResized(s, repainted) ==
  /\ laid' = s
  /\ cached' = IF repainted THEN Scaled({}, s) ELSE {}
  /\ mDirty' = ~repainted

\* resizeSurfaces. The server sends a ConfigureNotify only if the window changes.
ResizeSurfaces(s) ==
  /\ xsize' = s
  /\ configures' = IF s = xsize THEN configures ELSE Append(configures, s)
  /\ target' = s
  /\ NewBuffer(s)

\* Mutant: the new size is compared with the window's, which its host may have changed
\* meanwhile.
OnSizeUnlessShown(s, picture) ==
  LET fit == Fit(s)
  IN  /\ rect' = fit
      /\ IF ~open \/ fit = xsize
         THEN UNCHANGED <<target, buffer, starved, laid, server, cached, mDirty, frame>>
         ELSE /\ ResizeSurfaces(fit) /\ OnResized(fit, TRUE)
              /\ frame' = [size |-> buffer', laid |-> fit, picture |-> picture]
      /\ UNCHANGED open

\* onSize(s): everything takes the size that fits, and is repainted at once.
OnSize(s, picture) ==
  LET fit == Fit(s)
  IN  /\ rect' = fit
      /\ IF ~open \/ fit = rect
         THEN UNCHANGED <<target, buffer, starved, laid, server, cached, mDirty, frame>>
         ELSE /\ ResizeSurfaces(fit) /\ OnResized(fit, TRUE)
              /\ frame' = [size |-> buffer', laid |-> fit, picture |-> picture]
      /\ UNCHANGED open

\* drainEvents: "follow it so the surfaces never disagree with the window".
ConfigureNotify ==
  LET s == Head(configures)
  IN  /\ configures' = Tail(configures)
      /\ IF s = rect
         THEN UNCHANGED <<surfaces, cached, mDirty>>
         ELSE rect' = s /\ target' = s /\ NewBuffer(s) /\ OnResized(s, FALSE)
      /\ UNCHANGED <<open, xsize, frame>>

-----------------------------------------------------------------------------
(* The host and the window manager *)

\* The window is resized or moved without a word to the view. A new size loses what it
\* showed; every configuration is reported.
HostConfigures(s) ==
  /\ xsize' = s
  /\ configures' = Append(configures, s)
  /\ frame' = IF s = xsize THEN frame ELSE Blank
  /\ UNCHANGED <<open, surfaces, cached, mDirty>>
=============================================================================
