---------------------------- MODULE WindowProofs ----------------------------
(***************************************************************************)
(* Theorems about Lv2Ui, and ViewSize under it, for any parameters, sizes, *)
(* automation, interval and number of events under way; and about          *)
(* XErrorHandler, under the windows of any number of bundles.              *)
(***************************************************************************)
EXTENDS Lv2Ui, XErrorHandler, SequenceTheorems, FiniteSetTheorems,
        WellFoundedInduction, TLAPS

\* Sizes are pairs of integers, whatever a host offers.
Pixels == Int \X Int

\* What is known of the window's size and of the events about it, whose queue goes with the
\* window.
SizeTypes ==
  /\ open \in BOOLEAN /\ mDirty \in BOOLEAN /\ starved \in BOOLEAN
  /\ rect \in Pixels /\ xsize \in Pixels
  /\ configures \in Seq(Pixels) /\ (~open => configures = <<>>)

\* What the panel, the ports and the queues between them hold; a host is inside idle()
\* only while the UI exists, no port event is kept for a UI that is gone, and under VST3
\* there are no such queues.
ValueTypes ==
  /\ host \in {"vst3", "lv2"}
  /\ pumping \in BOOLEAN /\ (pumping => open /\ host = "lv2")
  /\ panel \in [Params -> Norm] /\ ports \in [Params -> Plain \cup Norm]
  /\ toHost \in Seq((0..NParams - 1) \X Norm)
  /\ toUi \in Seq(Params \X (Plain \cup Norm)) /\ (~open => toUi = <<>>)
  /\ host = "vst3" => toHost = <<>> /\ toUi = <<>>

-----------------------------------------------------------------------------
(* Queues *)

\* An element joins a queue at its end,
LEMMA Appended ==
  ASSUME NEW S, NEW q \in Seq(S), NEW e \in S
  PROVE  /\ Append(q, e) \in Seq(S) /\ Append(q, e) # <<>>
         /\ Len(Append(q, e)) = Len(q) + 1 /\ Append(q, e)[Len(q) + 1] = e
         /\ \A i \in 1..Len(q) : Append(q, e)[i] = q[i]
<1>1. Len(q) \in Nat
  BY LenProperties
<1>. QED
  BY <1>1, AppendProperties

\* and is taken from its front.
LEMMA Taken ==
  ASSUME NEW S, NEW q \in Seq(S), q # <<>>
  PROVE  /\ Len(q) \in Nat \ {0}
         /\ Head(q) \in S /\ Head(q) = q[1]
         /\ Tail(q) \in Seq(S) /\ Len(Tail(q)) = Len(q) - 1
         /\ \A i \in 1..Len(q) - 1 : Tail(q)[i] = q[i + 1]
         /\ Tail(q) = <<>> <=> Len(q) = 1
<1>1. Len(q) \in Nat /\ Len(q) # 0
  BY LenProperties, EmptySeq
<1>2. /\ Head(q) \in S /\ Head(q) = q[1]
      /\ Tail(q) \in Seq(S) /\ Len(Tail(q)) = Len(q) - 1
      /\ \A i \in 1..Len(Tail(q)) : Tail(q)[i] = q[i + 1]
  BY HeadTailProperties
<1>3. Tail(q) = <<>> <=> Len(Tail(q)) = 0
  BY <1>2, EmptySeq
<1>. QED
  BY <1>1, <1>2, <1>3

-----------------------------------------------------------------------------
(* Types *)

\* constrain answers with a size.
LEMMA FitType == \A s \in Pixels : Fit(s) \in Pixels
<1>1. \A v, lo, hi \in Int : Within(v, lo, hi) \in Int
  BY DEF Within
<1>2. \A a \in Int, b \in Nat \ {0} : Rounded(a, b) \in Int
  BY DEF Rounded
<1>3. /\ Width \div 2 \in Int /\ 2 * Width \in Int
      /\ Height \div 2 \in Int /\ 2 * Height \in Int
  BY SizeAssumption
<1>4. SUFFICES ASSUME NEW s \in Pixels PROVE Fit(s) \in Pixels
  OBVIOUS
<1>5. s[1] \in Int /\ s[2] \in Int
  BY DEF Pixels
<1> DEFINE w == Within(s[1], Width \div 2, 2 * Width)
           h == Within(s[2], Height \div 2, 2 * Height)
<1>6. w \in Int /\ h \in Int
  BY <1>1, <1>3, <1>5
<1> HIDE DEF w, h
<1>7. w * Height \in Int /\ h * Width \in Int
  BY <1>6, SizeAssumption
<1>8. Rounded(w * Height, Width) \in Int /\ Rounded(h * Width, Height) \in Int
  BY <1>2, <1>7, SizeAssumption
<1>9. Fit(s) \in {<<w, Rounded(w * Height, Width)>>, <<Rounded(h * Width, Height), h>>}
  BY DEF Fit, w, h
<1>. QED
  BY <1>6, <1>8, <1>9 DEF Pixels

\* The panel holds normalised values whatever automation says (ids.h).
LEMMA ClampType == \A v \in Int \cup {NaN} : ClampNorm(v) \in Norm
  BY BlobAssumption DEF ClampNorm, Norm

LEMMA DefaultType == DefaultState \in [Params -> Norm]
  BY BlobAssumption DEF DefaultState, Params, HostBypass, Norm

LEMMA ShownType == \A p \in Params, v \in Plain \cup Norm : Shown(p, v) \in Norm
<1> SUFFICES ASSUME NEW p \in Params, NEW v \in Plain \cup Norm PROVE Shown(p, v) \in Norm
  OBVIOUS
<1>1. v \in Int \cup {NaN}
  BY UiAssumption DEF Norm
<1>2. BypassFromEnabled(v) \in Norm
  BY BlobAssumption DEF BypassFromEnabled, Norm
<1>3. p # HostBypass => Def[p] \in Norm
  BY BlobAssumption DEF Params, HostBypass, Norm
<1>. QED
  BY <1>1, <1>2, <1>3, ClampType DEF Shown, ToNorm

-----------------------------------------------------------------------------
(* The size *)

\* All that the view sized it sized alike.
OneSize == open => target = rect /\ laid = rect /\ (starved \/ buffer = rect)

\* The newest size the view has been told of is the window's.
KnowsNewest ==
  open => IF configures = <<>> THEN rect = xsize ELSE configures[Len(configures)] = xsize

\* The window shows the panel, unless a repaint is due or an event under way will make
\* it due.
ShowsPanel ==
  open => \/ mDirty
          \/ frame = [size |-> buffer, laid |-> laid, picture |-> Drawn(panel)]
          \/ \E i \in 1..Len(configures) : configures[i] # rect

CacheFits == cached \subseteq (IF open THEN {laid} ELSE {})

SizeInv == SizeTypes /\ OneSize /\ KnowsNewest /\ ShowsPanel /\ CacheFits

\* Opening makes everything at one size, and shows the panel,
LEMMA OpenFits ==
  ASSUME NEW s \in Pixels, OpenAt(s, Drawn(panel)')
  PROVE  SizeInv'
<1>1. /\ open' = TRUE /\ mDirty' = FALSE /\ starved' = FALSE /\ configures' = <<>>
      /\ rect' = s /\ xsize' = s /\ target' = s /\ buffer' = s /\ laid' = s
      /\ cached' = {s} /\ frame' = [size |-> s, laid |-> s, picture |-> Drawn(panel)']
  BY DEF OpenAt, Scaled
<1>. QED
  BY <1>1, EmptySeq DEF SizeInv, SizeTypes, OneSize, KnowsNewest, ShowsPanel, CacheFits

\* and closing leaves nothing to fit.
LEMMA CloseFits ==
  ASSUME SizeInv, Close
  PROVE  SizeInv'
  BY EmptySeq DEF Close, surfaces, SizeInv, SizeTypes, OneSize, KnowsNewest, ShowsPanel, CacheFits

\* onSize and the events that its own resize causes.
LEMMA OnSizeFits ==
  ASSUME SizeInv, NEW s \in Pixels, OnSize(s, Drawn(panel)), UNCHANGED panel
  PROVE  SizeInv'
<1> DEFINE fit == Fit(s)
<1>1. fit \in Pixels
  BY FitType
<1>2. rect' = fit /\ open' = open
  BY DEF OnSize
<1>3. CASE ~open \/ fit = rect
  <2>1. UNCHANGED <<target, buffer, starved, laid, server, cached, mDirty, frame>>
    BY <1>3 DEF OnSize
  <2>. QED
    BY <1>1, <1>2, <1>3, <2>1
       DEF server, SizeInv, SizeTypes, OneSize, KnowsNewest, ShowsPanel, CacheFits
<1>4. CASE open /\ fit # rect
  <2>1. /\ xsize' = fit /\ target' = fit /\ laid' = fit /\ cached' = {fit} /\ mDirty' = FALSE
        /\ configures' = IF fit = xsize THEN configures ELSE Append(configures, fit)
        /\ (buffer' = fit /\ starved' = FALSE) \/ starved' = TRUE
        /\ frame' = [size |-> buffer', laid |-> fit, picture |-> Drawn(panel)]
    BY <1>4 DEF OnSize, ResizeSurfaces, OnResized, NewBuffer, Scaled
  <2>2. configures' \in Seq(Pixels) /\ KnowsNewest'
    <3>1. CASE fit = xsize
      BY <1>2, <1>4, <2>1, <3>1 DEF SizeInv, SizeTypes, KnowsNewest
    <3>2. CASE fit # xsize
      BY <1>1, <1>2, <2>1, <3>2, Appended DEF SizeInv, SizeTypes, KnowsNewest
    <3>. QED
      BY <3>1, <3>2
  <2>3. Drawn(panel)' = Drawn(panel)
    BY DEF Drawn, Engaged, Lit
  <2> HIDE DEF fit
  <2>. QED
    BY <1>1, <1>2, <1>4, <2>1, <2>2, <2>3 DEF SizeInv, SizeTypes, OneSize, ShowsPanel, CacheFits
<1>. QED
  BY <1>3, <1>4

\* A ConfigureNotify, as old as it may be.
LEMMA ConfigureNotifyFits ==
  ASSUME SizeInv, open, configures # <<>>, ConfigureNotify, UNCHANGED panel
  PROVE  SizeInv'
<1> DEFINE s == Head(configures)
<1>1. /\ s \in Pixels /\ s = configures[1] /\ configures' = Tail(configures)
      /\ Tail(configures) \in Seq(Pixels) /\ Len(Tail(configures)) = Len(configures) - 1
      /\ Len(configures) \in Nat \ {0}
      /\ \A i \in 1..Len(configures) - 1 : Tail(configures)[i] = configures[i + 1]
      /\ Tail(configures) = <<>> <=> Len(configures) = 1
  BY Taken DEF SizeInv, SizeTypes, ConfigureNotify
<1>2. UNCHANGED <<open, xsize, frame>>
  BY DEF ConfigureNotify
<1>3. Drawn(panel)' = Drawn(panel)
  BY DEF Drawn, Engaged, Lit
<1>4. rect' = s
  BY DEF ConfigureNotify, surfaces
<1> HIDE DEF s
<1>5. KnowsNewest'
  <2>1. configures[Len(configures)] = xsize
    BY DEF SizeInv, KnowsNewest
  <2>2. CASE Len(configures) = 1
    BY <1>1, <1>2, <1>4, <2>1, <2>2 DEF KnowsNewest
  <2>3. CASE Len(configures) # 1
    BY <1>1, <1>2, <2>1, <2>3 DEF KnowsNewest
  <2>. QED
    BY <2>2, <2>3
<1>6. CASE s = rect
  <2>1. UNCHANGED <<surfaces, cached, mDirty>>
    BY <1>6 DEF ConfigureNotify, s
  <2>2. (\E i \in 1..Len(configures) : configures[i] # rect)
          => \E i \in 1..Len(configures') : configures'[i] # rect'
    <3> SUFFICES ASSUME NEW i \in 1..Len(configures), configures[i] # rect
                 PROVE  \E j \in 1..Len(configures') : configures'[j] # rect'
      OBVIOUS
    <3>1. i # 1
      BY <1>1, <1>6
    <3>2. i - 1 \in 1..Len(configures') /\ configures'[i - 1] = configures[i]
      BY <1>1, <3>1
    <3>. QED
      BY <1>4, <1>6, <3>2
  <2>. QED
    BY <1>1, <1>2, <1>3, <1>5, <2>1, <2>2
       DEF surfaces, SizeInv, SizeTypes, OneSize, ShowsPanel, CacheFits
<1>7. CASE s # rect
  <2>1. /\ rect' = s /\ target' = s /\ laid' = s /\ cached' = {} /\ mDirty' = TRUE
        /\ (buffer' = s /\ starved' = FALSE) \/ starved' = TRUE
    BY <1>7 DEF ConfigureNotify, s, NewBuffer, OnResized
  <2>. QED
    BY <1>1, <1>2, <1>5, <2>1 DEF SizeInv, SizeTypes, OneSize, ShowsPanel, CacheFits
<1>. QED
  BY <1>6, <1>7

\* A size given behind the view's back is known to an event under way, and what it blanks
\* will be repainted: one of the last two sizes is not the view's.
LEMMA HostConfiguresFits ==
  ASSUME SizeInv, open, NEW s \in Pixels, HostConfigures(s), UNCHANGED panel
  PROVE  SizeInv'
<1>1. /\ configures' \in Seq(Pixels) /\ configures' # <<>>
      /\ Len(configures') = Len(configures) + 1 /\ configures'[Len(configures) + 1] = s
      /\ \A i \in 1..Len(configures) : configures'[i] = configures[i]
  BY Appended DEF HostConfigures, SizeInv, SizeTypes
<1>2. xsize' = s /\ UNCHANGED <<open, surfaces, cached, mDirty>>
  BY DEF HostConfigures
<1>3. Len(configures) \in Nat /\ (configures # <<>> => Len(configures) # 0)
  BY LenProperties, EmptySeq DEF SizeInv, SizeTypes
<1>4. Drawn(panel)' = Drawn(panel)
  BY DEF Drawn, Engaged, Lit
<1>5. CASE s = xsize
  <2>1. frame' = frame
    BY <1>5 DEF HostConfigures
  <2>. QED
    BY <1>1, <1>2, <1>3, <1>4, <2>1
       DEF surfaces, SizeInv, SizeTypes, OneSize, KnowsNewest, ShowsPanel, CacheFits
<1>6. CASE s # xsize
  <2>1. \E i \in 1..Len(configures') : configures'[i] # rect
    <3>1. CASE configures = <<>>
      <4>1. rect = xsize
        BY <3>1 DEF SizeInv, KnowsNewest
      <4>2. Len(configures) + 1 \in 1..Len(configures')
        BY <1>1, <1>3
      <4>. QED
        BY <1>1, <1>6, <4>1, <4>2
    <3>2. CASE configures # <<>>
      <4>1. configures[Len(configures)] = xsize
        BY <3>2 DEF SizeInv, KnowsNewest
      <4>2. Len(configures) \in 1..Len(configures) /\ Len(configures) \in 1..Len(configures')
            /\ Len(configures) + 1 \in 1..Len(configures')
        BY <1>1, <1>3, <3>2
      <4>3. configures'[Len(configures)] = xsize /\ configures'[Len(configures) + 1] = s
        BY <1>1, <4>1, <4>2
      <4>. QED
        BY <1>6, <4>2, <4>3
    <3>. QED
      BY <3>1, <3>2
  <2>. QED
    BY <1>1, <1>2, <1>3, <2>1
       DEF surfaces, SizeInv, SizeTypes, OneSize, KnowsNewest, ShowsPanel, CacheFits
<1>. QED
  BY <1>5, <1>6

\* A repaint shows the panel; a new value asks for one; nothing else touches the picture.
LEMMA RedrawFits ==
  ASSUME SizeInv, open, Redraw(Drawn(panel)), UNCHANGED <<open, surfaces, server, panel>>
  PROVE  SizeInv'
<1>1. Drawn(panel)' = Drawn(panel)
  BY DEF Drawn, Engaged, Lit
<1>. QED
  BY <1>1 DEF Redraw, Scaled, surfaces, server, SizeInv, SizeTypes, OneSize, KnowsNewest,
     ShowsPanel, CacheFits

LEMMA DirtyFits ==
  ASSUME SizeInv, mDirty' = TRUE, UNCHANGED <<open, surfaces, server, cached>>
  PROVE  SizeInv'
  BY DEF surfaces, server, SizeInv, SizeTypes, OneSize, KnowsNewest, ShowsPanel, CacheFits

LEMMA UntouchedFits ==
  ASSUME SizeInv, UNCHANGED <<sizes, panel>>
  PROVE  SizeInv'
<1>1. Drawn(panel)' = Drawn(panel)
  BY DEF Drawn, Engaged, Lit
<1>. QED
  BY <1>1 DEF sizes, surfaces, server, SizeInv, SizeTypes, OneSize, KnowsNewest, ShowsPanel,
     CacheFits

-----------------------------------------------------------------------------
(* The values *)

\* The newest event about a port carries the port's value.
NewestIsTrue ==
  \A i \in 1..Len(toUi) :
    (\A j \in i + 1 .. Len(toUi) : toUi[j][1] # toUi[i][1]) => toUi[i][2] = ports[toUi[i][1]]

Mentions(q, p) == \E i \in 1..Len(q) : q[i][1] = p

\* Nothing is under way about p.
Settled(p) == ~Mentions(toUi, p) /\ ~Mentions(toHost, p)

ValueInv ==
  host = "lv2" /\ open =>
    NewestIsTrue /\ \A p \in Params : Settled(p) => panel[p] = Shown(p, ports[p])

\* A tick that is not due is that far away.
ClockInv ==
  /\ due \in Int /\ since \in 0..Interval
  /\ since < Interval => due + since = Interval

IInv == SizeInv /\ ValueTypes /\ ValueInv /\ ClockInv

\* What is mentioned in a queue after an element has joined it or left it.
LEMMA MentionedAfterAppend ==
  ASSUME NEW S, NEW q \in Seq(S), NEW e \in S, NEW p
  PROVE  Mentions(Append(q, e), p) <=> Mentions(q, p) \/ e[1] = p
<1>1. Len(q) \in Nat
  BY LenProperties
<1>2. Mentions(q, p) => Mentions(Append(q, e), p)
  <2> SUFFICES ASSUME NEW i \in 1..Len(q), q[i][1] = p PROVE Mentions(Append(q, e), p)
    BY DEF Mentions
  <2>1. i \in 1..Len(Append(q, e)) /\ Append(q, e)[i] = q[i]
    BY <1>1, Appended
  <2>. QED
    BY <2>1 DEF Mentions
<1>3. e[1] = p => Mentions(Append(q, e), p)
  <2>1. Len(q) + 1 \in 1..Len(Append(q, e)) /\ Append(q, e)[Len(q) + 1] = e
    BY <1>1, Appended
  <2>. QED
    BY <2>1 DEF Mentions
<1>4. ASSUME NEW i \in 1..Len(Append(q, e)), Append(q, e)[i][1] = p
      PROVE  Mentions(q, p) \/ e[1] = p
  <2>1. i = Len(q) + 1 \/ i \in 1..Len(q)
    BY <1>1, Appended
  <2>. QED
    BY <1>4, <2>1, Appended DEF Mentions
<1>. QED
  BY <1>2, <1>3, <1>4 DEF Mentions

LEMMA MentionedAfterTail ==
  ASSUME NEW S, NEW q \in Seq(S), q # <<>>, NEW p
  PROVE  Mentions(q, p) <=> Mentions(Tail(q), p) \/ q[1][1] = p
<1>1. /\ Len(q) \in Nat \ {0} /\ Len(Tail(q)) = Len(q) - 1
      /\ \A i \in 1..Len(q) - 1 : Tail(q)[i] = q[i + 1]
  BY Taken
<1>2. ASSUME NEW i \in 1..Len(q), q[i][1] = p, i # 1 PROVE Mentions(Tail(q), p)
  <2>1. i - 1 \in 1..Len(Tail(q)) /\ Tail(q)[i - 1] = q[i]
    BY <1>1, <1>2
  <2>. QED
    BY <1>2, <2>1 DEF Mentions
<1>3. ASSUME NEW i \in 1..Len(Tail(q)), Tail(q)[i][1] = p PROVE Mentions(q, p)
  <2>1. i + 1 \in 1..Len(q) /\ q[i + 1] = Tail(q)[i]
    BY <1>1
  <2>. QED
    BY <1>3, <2>1 DEF Mentions
<1>4. 1 \in 1..Len(q)
  BY <1>1
<1>. QED
  BY <1>2, <1>3, <1>4 DEF Mentions

\* A port that changes is reported: the newest event about it is true again, and what is
\* settled was settled before.
LEMMA ReportedIsTrue ==
  ASSUME ValueTypes, ValueInv, NEW p \in Params, NEW v \in Plain \cup Norm, Reported(p, v),
         host = "lv2", UNCHANGED <<host, open, panel>>,
         \A q \in Params \ {p} : Mentions(toHost, q) => Mentions(toHost', q)
  PROVE  /\ ports' \in [Params -> Plain \cup Norm]
         /\ toUi' \in Seq(Params \X (Plain \cup Norm)) /\ (~open' => toUi' = <<>>)
         /\ ValueInv'
<1>1. ports' = [ports EXCEPT ![p] = v] /\ ports' \in [Params -> Plain \cup Norm]
  BY DEF Reported, ValueTypes
<1>2. <<p, v>> \in Params \X (Plain \cup Norm) /\ toUi \in Seq(Params \X (Plain \cup Norm))
  BY DEF ValueTypes
<1>3. CASE open
  <2>1. toUi' = Append(toUi, <<p, v>>)
    BY <1>3 DEF Reported
  <2>2. /\ toUi' \in Seq(Params \X (Plain \cup Norm))
        /\ Len(toUi') = Len(toUi) + 1 /\ toUi'[Len(toUi) + 1] = <<p, v>>
        /\ \A i \in 1..Len(toUi) : toUi'[i] = toUi[i] /\ toUi[i][1] \in Params
        /\ Len(toUi) \in Nat
    BY <1>2, <2>1, Appended, LenProperties, ElementOfSeq
  <2>3. ASSUME NewestIsTrue PROVE NewestIsTrue'
    <3> SUFFICES ASSUME NEW i \in 1..Len(toUi'),
                        \A j \in i + 1 .. Len(toUi') : toUi'[j][1] # toUi'[i][1]
                 PROVE  toUi'[i][2] = ports'[toUi'[i][1]]
      BY DEF NewestIsTrue
    <3>1. CASE i = Len(toUi) + 1
      BY <1>1, <2>2, <3>1 DEF ValueTypes
    <3>2. CASE i # Len(toUi) + 1
      <4>1. i \in 1..Len(toUi) /\ Len(toUi) + 1 \in i + 1 .. Len(toUi')
        BY <2>2, <3>2
      <4>2. toUi'[i] = toUi[i] /\ toUi[i][1] # p /\ toUi[i][1] \in Params
        BY <2>2, <4>1
      <4>3. \A j \in i + 1 .. Len(toUi) : j \in i + 1 .. Len(toUi') /\ toUi'[j] = toUi[j]
        BY <2>2, <4>1
      <4>4. toUi[i][2] = ports[toUi[i][1]]
        BY <2>3, <4>1, <4>2, <4>3 DEF NewestIsTrue
      <4>. QED
        BY <1>1, <4>2, <4>4 DEF ValueTypes
    <3>. QED
      BY <3>1, <3>2
  <2>4. ASSUME NEW q \in Params, Settled(q)' PROVE q # p /\ Settled(q) /\ ports'[q] = ports[q]
    <3>1. ~Mentions(toUi', q) /\ ~Mentions(toHost', q)
      BY <2>4 DEF Settled
    <3>2. q # p /\ ~Mentions(toUi, q)
      BY <1>2, <2>1, <3>1, MentionedAfterAppend
    <3>. QED
      BY <1>1, <3>1, <3>2 DEF Settled, ValueTypes
  <2>5. ValueInv'
    BY <1>3, <2>3, <2>4 DEF ValueInv, Shown
  <2>. QED
    BY <1>1, <1>3, <2>2, <2>5
<1>4. CASE ~open
  BY <1>1, <1>2, <1>4 DEF Reported, ValueInv, ValueTypes
<1>. QED
  BY <1>3, <1>4

-----------------------------------------------------------------------------
(* Every step *)

\* What leaves the values or the clock alone keeps what is known of them.
LEMMA ValuesKept ==
  ASSUME ValueTypes, ValueInv, UNCHANGED <<host, open, values>>,
         pumping' \in BOOLEAN, pumping' => open /\ host = "lv2"
  PROVE  (ValueTypes /\ ValueInv)'
  BY DEF values, ValueTypes, ValueInv, NewestIsTrue, Settled, Mentions, Shown

LEMMA ClockKept ==
  ASSUME ClockInv, UNCHANGED <<due, since>>
  PROVE  ClockInv'
  BY DEF ClockInv

LEMMA RegisterTimerClock == RegisterTimer => ClockInv'
  BY UiAssumption DEF RegisterTimer, ClockInv

\* A new UI: the host reports every port.
LEMMA InstantiateStep == IInv /\ Instantiate => IInv'
<1> SUFFICES ASSUME IInv, Instantiate PROVE IInv'
  OBVIOUS
<1> USE DEF Instantiate, UiOpens
<1>1. <<Width, Height>> \in Pixels
  BY SizeAssumption DEF Pixels
<1>2. Drawn(panel)' = Drawn(DefaultState)
  BY DEF Drawn, Engaged, Lit
<1>3. SizeInv'
  BY <1>1, <1>2, OpenFits
<1>4. open' = TRUE
  BY DEF OpenAt
<1>5. \A i \in 1..NParams + 1 : i - 1 \in Params /\ <<i - 1, ports[i - 1]>> \in Params \X (Plain \cup Norm)
  BY BlobAssumption DEF IInv, ValueTypes, Params, HostBypass
<1>6. NParams + 1 \in Nat
  BY BlobAssumption
<1>7. /\ toUi' = [i \in 1..NParams + 1 |-> <<i - 1, ports[i - 1]>>]
      /\ toUi' \in Seq(Params \X (Plain \cup Norm)) /\ Len(toUi') = NParams + 1
  BY <1>5, <1>6, IsASeq
<1>8. ValueTypes'
  BY <1>4, <1>7, DefaultType DEF IInv, ValueTypes
<1>9. NewestIsTrue'
  <2>1. \A i \in 1..NParams + 1 : toUi'[i] = <<i - 1, ports[i - 1]>>
    BY <1>7
  <2>2. ASSUME NEW i \in 1..Len(toUi') PROVE toUi'[i][2] = ports'[toUi'[i][1]]
    <3>1. i \in 1..NParams + 1
      BY <1>7
    <3>2. toUi'[i][1] = i - 1 /\ toUi'[i][2] = ports[i - 1]
      BY <2>1, <3>1
    <3>. QED
      BY <3>2
  <2>. QED
    BY <2>2 DEF NewestIsTrue
<1>10. \A p \in Params : Mentions(toUi', p)
  <2> SUFFICES ASSUME NEW p \in Params PROVE Mentions(toUi', p)
    OBVIOUS
  <2>1. p + 1 \in 1..Len(toUi') /\ toUi'[p + 1][1] = p
    BY <1>7, BlobAssumption DEF Params, HostBypass
  <2>. QED
    BY <2>1 DEF Mentions
<1>11. ValueInv'
  BY <1>9, <1>10 DEF ValueInv, Settled
<1>. QED
  BY <1>3, <1>8, <1>11, RegisterTimerClock DEF IInv

\* The UI and the view close, and nothing is kept for them.
LEMMA ClosingSteps == IInv /\ (Cleanup \/ Removed) => IInv'
<1> SUFFICES ASSUME IInv, Cleanup \/ Removed PROVE IInv'
  OBVIOUS
<1>1. SizeInv' /\ open' = FALSE
  BY CloseFits DEF Cleanup, Removed, Close, IInv
<1>2. ClockInv' /\ ~pumping /\ UNCHANGED <<host, pumping, panel, ports, toHost>>
  BY ClockKept DEF Cleanup, Removed, clock, values, IInv, ValueTypes
<1>3. toUi' = <<>>
  BY DEF Cleanup, Removed, values, IInv, ValueTypes
<1>. QED
  BY <1>1, <1>2, <1>3, EmptySeq DEF IInv, ValueTypes, ValueInv

\* Events about the size, read in a pump or by the VST3 host's run loop.
LEMMA ConfigureSteps == IInv /\ (DrainConfigure \/ OnFDIsSet) => IInv'
<1> SUFFICES ASSUME IInv, DrainConfigure \/ OnFDIsSet PROVE IInv'
  OBVIOUS
<1>1. open /\ configures # <<>> /\ ConfigureNotify /\ UNCHANGED <<host, clock, values>>
  BY DEF DrainConfigure, OnFDIsSet, IInv, ValueTypes
<1>2. SizeInv'
  BY <1>1, ConfigureNotifyFits DEF values, IInv
<1>3. UNCHANGED <<open, pumping, due, since>>
  BY <1>1 DEF ConfigureNotify, clock
<1>. QED
  BY <1>1, <1>2, <1>3, ValuesKept, ClockKept DEF IInv, ValueTypes

\* The user's edit is under way to the host, so its parameter is not settled.
LEMMA UserEditsStep ==
  ASSUME IInv, NEW p \in 0..NParams - 1, NEW n \in Norm, UserEdits(p, n)
  PROVE  IInv'
<1> USE DEF UserEdits
<1>1. SizeInv'
  BY DirtyFits DEF IInv
<1>2. ClockInv'
  BY ClockKept DEF clock, IInv
<1>3. p \in Params /\ ToPlain(n) \in Norm
  BY BlobAssumption, ClampType DEF ToPlain, Params, HostBypass, Norm
<1>4. <<p, ToPlain(n)>> \in (0..NParams - 1) \X Norm /\ toHost \in Seq((0..NParams - 1) \X Norm)
  BY <1>3 DEF IInv, ValueTypes
<1>5. toHost' \in Seq((0..NParams - 1) \X Norm)
  BY <1>4, Appended
<1>6. ValueTypes'
  BY <1>3, <1>5 DEF clock, IInv, ValueTypes
<1>7. ASSUME NEW q \in Params, Settled(q)'
      PROVE  q # p /\ Settled(q) /\ panel'[q] = panel[q] /\ Shown(q, ports[q])' = Shown(q, ports[q])
  <2>1. ~Mentions(toUi', q) /\ ~Mentions(toHost', q)
    BY <1>7 DEF Settled
  <2>2. q # p /\ ~Mentions(toHost, q)
    BY <1>4, <2>1, MentionedAfterAppend
  <2>. QED
    BY <2>1, <2>2 DEF Settled, Mentions, Shown, IInv, ValueTypes
<1>8. ValueInv'
  BY <1>7 DEF IInv, ValueInv, NewestIsTrue
<1>. QED
  BY <1>1, <1>2, <1>6, <1>8 DEF IInv

\* idle() begins, ticks if it is time and ends; a VST3 host's timer runs.
LEMMA TickClock == ClockInv /\ (Tick \/ NotDue) => ClockInv'
  BY UiAssumption DEF ClockInv, Tick, NotDue, TooSoon

LEMMA PumpSteps == IInv /\ (Idle \/ PumpEnds \/ OnTimer) => IInv'
<1> SUFFICES ASSUME IInv, Idle \/ PumpEnds \/ OnTimer PROVE IInv'
  OBVIOUS
<1>1. CASE Idle
  <2>1. UNCHANGED <<host, open, values, due, since, sizes, panel>> /\ host = "lv2" /\ open /\ pumping' = TRUE
    BY <1>1 DEF Idle, sizes, values
  <2>. QED
    BY <2>1, UntouchedFits, ValuesKept, ClockKept DEF IInv
<1>2. CASE PumpEnds
  <2>1. /\ open /\ (Tick \/ NotDue) /\ pumping' = FALSE
        /\ UNCHANGED <<host, open, surfaces, server, values, panel>>
    BY <1>2 DEF PumpEnds, values, IInv, ValueTypes
  <2>2. Redraw(Drawn(panel)) \/ UNCHANGED <<mDirty, cached, frame>>
    BY <2>1 DEF Tick, NotDue
  <2>3. SizeInv'
    BY <2>1, <2>2, RedrawFits, UntouchedFits DEF sizes, IInv
  <2>. QED
    BY <2>1, <2>3, ValuesKept, TickClock DEF IInv
<1>3. CASE OnTimer
  <2>1. /\ open /\ Redraw(Drawn(panel)) /\ UNCHANGED <<open, surfaces, server, panel>>
        /\ UNCHANGED <<host, open, values, pumping, due, since>>
    BY <1>3 DEF OnTimer, values, clock
  <2>. QED
    BY <2>1, RedrawFits, ValuesKept, ClockKept DEF IInv, ValueTypes
<1>. QED
  BY <1>1, <1>2, <1>3

\* The last event about a port makes the panel show it.
LEMMA PortEventStep == IInv /\ PortEvent => IInv'
<1> SUFFICES ASSUME IInv, PortEvent PROVE IInv'
  OBVIOUS
<1> USE DEF PortEvent
<1>1. SizeInv'
  BY DirtyFits DEF IInv
<1>2. ClockInv'
  BY ClockKept DEF clock, IInv
<1>3. toUi \in Seq(Params \X (Plain \cup Norm)) /\ toUi # <<>>
  BY DEF IInv, ValueTypes
<1> DEFINE p == Head(toUi)[1]
           v == Head(toUi)[2]
<1>4. /\ Len(toUi) \in Nat \ {0} /\ Head(toUi) = toUi[1]
      /\ p \in Params /\ v \in Plain \cup Norm
      /\ toUi' \in Seq(Params \X (Plain \cup Norm)) /\ Len(toUi') = Len(toUi) - 1
      /\ \A i \in 1..Len(toUi) - 1 : toUi'[i] = toUi[i + 1]
  BY <1>3, Taken
<1>5. panel' = [panel EXCEPT ![p] = Shown(p, v)] /\ UNCHANGED <<host, open, pumping, ports, toHost>>
  BY DEF clock
<1>6. Shown(p, v) \in Norm
  BY <1>4, ShownType
<1>7. ValueTypes'
  BY <1>4, <1>5, <1>6 DEF IInv, ValueTypes
<1>8. host = "lv2" /\ open
  BY <1>3 DEF IInv, ValueTypes
<1>9. NewestIsTrue
  BY <1>8 DEF IInv, ValueInv
<1> HIDE DEF p, v
<1>10. NewestIsTrue'
  <2> SUFFICES ASSUME NEW i \in 1..Len(toUi'),
                      \A j \in i + 1 .. Len(toUi') : toUi'[j][1] # toUi'[i][1]
               PROVE  toUi'[i][2] = ports[toUi'[i][1]]
    BY <1>5 DEF NewestIsTrue
  <2>1. i + 1 \in 1..Len(toUi) /\ toUi'[i] = toUi[i + 1]
    BY <1>4
  <2>2. ASSUME NEW j \in i + 2 .. Len(toUi) PROVE toUi[j][1] # toUi[i + 1][1]
    <3>1. j - 1 \in i + 1 .. Len(toUi') /\ toUi'[j - 1] = toUi[j]
      BY <1>4, <2>1
    <3>. QED
      BY <2>1, <3>1
  <2>. QED
    BY <1>9, <2>1, <2>2 DEF NewestIsTrue
<1>11. ASSUME NEW q \in Params, Settled(q)' PROVE panel'[q] = Shown(q, ports[q])
  <2>1. ~Mentions(Tail(toUi), q) /\ ~Mentions(toHost, q)
    BY <1>5, <1>11 DEF Settled
  <2>2. CASE q # p
    <3>1. ~Mentions(toUi, q)
      BY <1>3, <1>4, <2>1, <2>2, MentionedAfterTail DEF p
    <3>. QED
      BY <1>5, <1>8, <2>1, <2>2, <3>1 DEF IInv, ValueInv, ValueTypes, Settled
  <2>3. CASE q = p
    <3>1. \A j \in 2..Len(toUi) : toUi[j][1] # p
      <4> SUFFICES ASSUME NEW j \in 2..Len(toUi), toUi[j][1] = p PROVE FALSE
        OBVIOUS
      <4>1. j - 1 \in 1..Len(toUi') /\ toUi'[j - 1] = toUi[j]
        BY <1>4
      <4>. QED
        BY <2>1, <2>3, <4>1 DEF Mentions
    <3>2. 1 \in 1..Len(toUi) /\ toUi[1][1] = p /\ toUi[1][2] = v
      BY <1>4 DEF p, v
    <3>3. v = ports[p]
      BY <1>9, <3>1, <3>2 DEF NewestIsTrue
    <3>. QED
      BY <1>4, <1>5, <2>3, <3>3 DEF IInv, ValueTypes
  <2>. QED
    BY <2>2, <2>3
<1>12. ValueInv'
  BY <1>5, <1>10, <1>11 DEF ValueInv, Shown
<1>. QED
  BY <1>1, <1>2, <1>7, <1>12 DEF IInv

\* The host applies a write or its automation changes a port: both are reported.
LEMMA PortSteps ==
  ASSUME IInv, AppliesWrite \/ \E p \in Params, v \in Plain : Automates(p, v)
  PROVE  IInv'
<1>1. SizeInv' /\ ClockInv'
  BY UntouchedFits, ClockKept DEF AppliesWrite, Automates, clock, IInv
<1>2. UNCHANGED <<host, open, pumping, panel>>
  BY DEF AppliesWrite, Automates, clock, sizes
<1>3. CASE AppliesWrite
  <2>1. toHost \in Seq((0..NParams - 1) \X Norm) /\ toHost # <<>>
    BY <1>3 DEF AppliesWrite, IInv, ValueTypes
  <2>2. /\ Head(toHost) \in (0..NParams - 1) \X Norm /\ Head(toHost) = toHost[1]
        /\ toHost' \in Seq((0..NParams - 1) \X Norm)
    BY <1>3, <2>1, Taken DEF AppliesWrite
  <2>3. Head(toHost)[1] \in Params /\ Head(toHost)[2] \in Plain \cup Norm
    BY <2>2, BlobAssumption DEF Params, HostBypass
  <2>4. host = "lv2"
    BY <2>1 DEF IInv, ValueTypes
  <2>5. \A q \in Params \ {Head(toHost)[1]} : Mentions(toHost, q) => Mentions(toHost', q)
    BY <1>3, <2>1, <2>2, MentionedAfterTail DEF AppliesWrite
  <2>6. Reported(Head(toHost)[1], Head(toHost)[2])
    BY <1>3 DEF AppliesWrite
  <2>7. /\ ports' \in [Params -> Plain \cup Norm]
        /\ toUi' \in Seq(Params \X (Plain \cup Norm)) /\ (~open' => toUi' = <<>>)
        /\ ValueInv'
    BY <1>2, <2>3, <2>4, <2>5, <2>6, ReportedIsTrue DEF IInv
  <2>. QED
    BY <1>1, <1>2, <2>2, <2>4, <2>7 DEF IInv, ValueTypes
<1>4. ASSUME NEW p \in Params, NEW v \in Plain, Automates(p, v) PROVE IInv'
  <2>1. host = "lv2" /\ Reported(p, v) /\ UNCHANGED toHost
    BY <1>4 DEF Automates
  <2>2. /\ ports' \in [Params -> Plain \cup Norm]
        /\ toUi' \in Seq(Params \X (Plain \cup Norm)) /\ (~open' => toUi' = <<>>)
        /\ ValueInv'
    BY <1>2, <2>1, ReportedIsTrue DEF IInv
  <2>. QED
    BY <1>1, <1>2, <2>1, <2>2 DEF IInv, ValueTypes
<1>. QED
  BY <1>3, <1>4

LEMMA WaitsStep == IInv /\ Waits => IInv'
<1> SUFFICES ASSUME IInv, Waits PROVE IInv'
  OBVIOUS
<1>1. UNCHANGED <<host, open, sizes, panel, pumping, values>>
  BY DEF Waits, sizes, values
<1>2. ClockInv'
  BY UiAssumption DEF Waits, IInv, ClockInv
<1>. QED
  BY <1>1, <1>2, UntouchedFits, ValuesKept DEF IInv, ValueTypes

\* The host sizes the window, tells the view or opens it.
LEMMA HostSizeSteps ==
  ASSUME IInv,
         Attached \/ \E s \in Sizes : HostResizes(s) \/ HostSays(s)
  PROVE  IInv'
<1>1. \A s \in Sizes : s \in Pixels
  BY UiAssumption DEF Pixels
<1>2. UNCHANGED <<host, pumping, due, since, values, panel>>
  BY DEF Attached, HostResizes, HostSays, clock, values
<1>3. Drawn(panel)' = Drawn(panel)
  BY <1>2 DEF Drawn, Engaged, Lit
<1>4. CASE Attached
  <2>1. SizeInv'
    BY <1>3, <1>4, OpenFits DEF Attached, IInv, SizeInv, SizeTypes
  <2>2. host = "vst3" /\ pumping' = FALSE
    BY <1>2, <1>4 DEF Attached, IInv, ValueTypes
  <2>. QED
    BY <1>2, <2>1, <2>2, ClockKept DEF values, IInv, ValueTypes, ValueInv
<1>5. ASSUME NEW s \in Sizes, HostResizes(s) PROVE IInv'
  <2>1. open /\ HostConfigures(s) /\ UNCHANGED open
    BY <1>5 DEF HostResizes, HostConfigures
  <2>. QED
    BY <1>1, <1>2, <2>1, HostConfiguresFits, ValuesKept, ClockKept DEF IInv, ValueTypes
<1>6. ASSUME NEW s \in Sizes, HostSays(s) PROVE IInv'
  <2>1. OnSize(s, Drawn(panel)) /\ UNCHANGED open
    BY <1>6 DEF HostSays, OnSize
  <2>. QED
    BY <1>1, <1>2, <2>1, OnSizeFits, ValuesKept, ClockKept DEF IInv, ValueTypes
<1>. QED
  BY <1>4, <1>5, <1>6

LEMMA Inductive == Spec => []IInv
<1>1. Init => IInv
  <2> SUFFICES ASSUME Init PROVE IInv
    OBVIOUS
  <2>1. SizeInv
    <3>1. <<Width, Height>> \in Pixels
      BY SizeAssumption DEF Pixels
    <3>2. rect \in Pixels /\ xsize \in Pixels /\ configures \in Seq(Pixels)
      BY <3>1, EmptySeq DEF Init, SizeInit
    <3>. QED
      BY <3>2 DEF Init, SizeInit, SizeInv, SizeTypes, OneSize, KnowsNewest, ShowsPanel, CacheFits
  <2>2. ports \in [Params -> Plain \cup Norm]
    BY BlobAssumption DEF Init, Params, HostBypass, Norm
  <2>3. ValueTypes
    BY <2>2, DefaultType, EmptySeq DEF Init, SizeInit, ValueTypes
  <2>4. ValueInv /\ ClockInv
    BY UiAssumption DEF Init, SizeInit, ValueInv, ClockInv
  <2>. QED
    BY <2>1, <2>3, <2>4 DEF IInv
<1>2. IInv /\ [Next]_vars => IInv'
  <2> SUFFICES ASSUME IInv, [Next]_vars PROVE IInv'
    OBVIOUS
  <2>1. CASE UNCHANGED vars
    <3>1. UNCHANGED <<host, open, sizes, panel, pumping, due, since, values>>
      BY <2>1 DEF vars, sizes, clock, values
    <3>. QED
      BY <3>1, UntouchedFits, ValuesKept, ClockKept DEF IInv, ValueTypes
  <2>. QED
    BY <2>1, InstantiateStep, ClosingSteps, ConfigureSteps, UserEditsStep, PumpSteps,
       PortEventStep, PortSteps, WaitsStep, HostSizeSteps DEF Next
<1>. QED
  BY <1>1, <1>2, PTL DEF Spec

-----------------------------------------------------------------------------
(* What the window shows *)

\* Once the view has read every ConfigureNotify, its rectangle, target, layout and, unless
\* memory ran out, buffer have the window's size, however onSize and resizes behind its
\* back crossed; what is painted is the panel at that size, and no picture scaled for
\* another is kept (x11plugview.cpp 483-504 and 588-605, bbmview.cpp 76-86).
THEOREM WindowFits == Spec => []FrameFits
<1>1. IInv => FrameFits
  <2> SUFFICES ASSUME IInv PROVE FrameFits
    OBVIOUS
  <2>1. configures = <<>> => Len(configures) = 0
    OBVIOUS
  <2>. QED
    BY <2>1 DEF IInv, SizeInv, OneSize, KnowsNewest, ShowsPanel, CacheFits, FrameFits
<1>. QED
  BY <1>1, Inductive, PTL

\* When nothing is under way the panel shows the host's ports, whatever automation, a
\* value out of range or not a number, or an echo of an older edit came between
\* (bbm_lv2_ui.cpp 319-347).
THEOREM PanelIsTrue == Spec => []PanelShowsPorts
<1>1. IInv => PanelShowsPorts
  BY DEF IInv, ValueInv, Settled, Mentions, PanelShowsPorts
<1>. QED
  BY <1>1, Inductive, PTL

\* Two ticks are never closer than the interval, however long the host stalled before
\* (bbm_lv2_ui.cpp 134-146).
THEOREM TicksSpaced == Spec => []TicksAreSpaced
<1>1. IInv => TicksAreSpaced
  BY UiAssumption DEF IInv, ClockInv, TicksAreSpaced, TooSoon
<1>. QED
  BY <1>1, Inductive, PTL

-----------------------------------------------------------------------------
(* Sizes that settle. Arithmetic of two roundings, for any limits that need  *)
(* none and a window that is higher than wide, but not twice.                *)

HalfWidth == Width \div 2
HalfHeight == Height \div 2

LEMMA Halves ==
  /\ HalfWidth \in Nat \ {0} /\ Width = 2 * HalfWidth
  /\ HalfHeight \in Nat \ {0} /\ Height = 2 * HalfHeight
  BY SizeAssumption, AspectAssumption DEF HalfWidth, HalfHeight

\* Products keep the order of their factors.
LEMMA Scales ==
  ASSUME NEW x \in Int, NEW y \in Int, NEW z \in Nat, x <= y
  PROVE  x * z <= y * z
<1>1. (y - x) * z >= 0
  BY SMT
<1> QED
  BY <1>1, SMT

\* What is rounded is within a half.
LEMMA RoundedIs ==
  ASSUME NEW a \in Int, NEW b \in Nat \ {0}
  PROVE  /\ Rounded(a, b) \in Int
         /\ 2 * (Rounded(a, b) * b) <= 2 * a + b
         /\ 2 * a < 2 * (Rounded(a, b) * b) + b
<1> DEFINE c == 2 * a + b
           d == 2 * b
           q == c \div d
<1>1. c \in Int /\ d \in Int /\ d > 0
  OBVIOUS
<1> HIDE DEF c, d
<1>2. q \in Int /\ d * q <= c /\ c < d * q + d
  BY <1>1, SMT
<1> HIDE DEF q
<1>3. d * q = 2 * (q * b)
  BY <1>2 DEF d
<1>4. Rounded(a, b) = q
  BY DEF Rounded, q, c, d
<1> QED
  BY <1>2, <1>3, <1>4 DEF c, d

\* and nothing else is.
LEMMA IsRounded ==
  ASSUME NEW a \in Int, NEW b \in Nat \ {0}, NEW r \in Int,
         2 * (r * b) <= 2 * a + b, 2 * a < 2 * (r * b) + b
  PROVE  Rounded(a, b) = r
<1> DEFINE q == Rounded(a, b)
<1>1. /\ q \in Int /\ 2 * (q * b) <= 2 * a + b /\ 2 * a < 2 * (q * b) + b
  BY RoundedIs
<1> HIDE DEF q
<1>2. CASE q <= r - 1
  <2>1. q * b <= (r - 1) * b
    BY <1>1, <1>2, Scales
  <2> QED
    BY <1>1, <2>1
<1>3. CASE r <= q - 1
  <2>1. r * b <= (q - 1) * b
    BY <1>1, <1>3, Scales
  <2> QED
    BY <1>1, <2>1
<1> QED
  BY <1>1, <1>2, <1>3 DEF q

\* A rounded quotient between two bounds that need no rounding.
LEMMA RoundedWithin ==
  ASSUME NEW a \in Int, NEW b \in Nat \ {0}, NEW lo \in Int, NEW hi \in Int,
         lo * b <= a, a <= hi * b
  PROVE  Rounded(a, b) \in lo..hi
<1> DEFINE q == Rounded(a, b)
<1>1. /\ q \in Int /\ 2 * (q * b) <= 2 * a + b /\ 2 * a < 2 * (q * b) + b
  BY RoundedIs
<1> HIDE DEF q
<1>2. CASE q <= lo - 1
  <2>1. q * b <= (lo - 1) * b
    BY <1>1, <1>2, Scales
  <2> QED
    BY <1>1, <2>1
<1>3. CASE hi + 1 <= q
  <2>1. (hi + 1) * b <= q * b
    BY <1>1, <1>3, Scales
  <2> QED
    BY <1>1, <2>1
<1> QED
  BY <1>1, <1>2, <1>3 DEF q

\* The sizes within the limits, from either side.
Widths == HalfWidth..2 * Width
Heights == HalfHeight..2 * Height
ByWidth(w) == <<w, Rounded(w * Height, Width)>>
ByHeight(h) == <<Rounded(h * Width, Height), h>>

LEMMA WithinIs ==
  /\ \A v \in Int : Within(v, HalfWidth, 2 * Width) \in Widths
  /\ \A v \in Int : Within(v, HalfHeight, 2 * Height) \in Heights
  /\ \A v \in Int : HalfWidth <= v => Within(v, HalfWidth, 2 * Width) <= v
  /\ \A v \in Int : HalfHeight <= v => Within(v, HalfHeight, 2 * Height) <= v
  /\ \A w \in Widths : Within(w, HalfWidth, 2 * Width) = w
  /\ \A h \in Heights : Within(h, HalfHeight, 2 * Height) = h
  BY Halves DEF Within, Widths, Heights

LEMMA FitIs ==
  ASSUME NEW w \in Int, NEW h \in Int
  PROVE  /\ w * Height <= h * Width => Fit(<<w, h>>) = ByWidth(Within(w, HalfWidth, 2 * Width))
         /\ ~(w * Height <= h * Width) => Fit(<<w, h>>) = ByHeight(Within(h, HalfHeight, 2 * Height))
  BY DEF Fit, ByWidth, ByHeight, HalfWidth, HalfHeight

\* A size that follows its width is kept: the height has more pixels than the width, so
\* the width that the rounded height asks for is the same.
LEMMA WidthKept ==
  ASSUME NEW w \in Widths
  PROVE  /\ Rounded(w * Height, Width) \in Heights
         /\ Rounded(Rounded(w * Height, Width) * Width, Height) = w
         /\ Fit(ByWidth(w)) = ByWidth(w)
<1> DEFINE h == Rounded(w * Height, Width)
<1>1. /\ w \in Int /\ HalfWidth <= w /\ w <= 2 * Width
      /\ HalfWidth \in Nat /\ HalfHeight \in Nat /\ 2 * Width \in Nat /\ 2 * Height \in Nat
      /\ Width \in Nat \ {0} /\ Height \in Nat \ {0} /\ Width < Height
  BY Halves, SizeAssumption, AspectAssumption DEF Widths
<1>2. w * Height \in Int
  BY <1>1
<1>3. h \in Heights
  <2>1. HalfHeight * Width <= w * Height
    <3>1. HalfWidth * Height <= w * Height
      BY <1>1, Scales
    <3>2. HalfHeight * Width = HalfWidth * Height
      BY Halves
    <3> QED
      BY <3>1, <3>2
  <2>2. w * Height <= (2 * Height) * Width
    <3>1. w * Height <= (2 * Width) * Height
      BY <1>1, Scales
    <3> QED
      BY <1>1, <3>1
  <2> QED
    BY <1>1, <1>2, <2>1, <2>2, RoundedWithin DEF Heights
<1>4. /\ h \in Int /\ 2 * (h * Width) <= 2 * (w * Height) + Width
      /\ 2 * (w * Height) < 2 * (h * Width) + Width
  BY <1>1, <1>2, RoundedIs
<1> HIDE DEF h
<1>5. h * Width \in Int
  BY <1>1, <1>4
<1>6. 2 * (w * Height) <= 2 * (h * Width) + Height /\ 2 * (h * Width) < 2 * (w * Height) + Height
  <2> DEFINE p == w * Height  q == h * Width
  <2>1. p \in Int /\ q \in Int /\ 2 * q <= 2 * p + Width /\ 2 * p < 2 * q + Width
    BY <1>2, <1>4, <1>5
  <2> HIDE DEF p, q
  <2>2. 2 * p <= 2 * q + Height /\ 2 * q < 2 * p + Height
    BY <1>1, <2>1
  <2> QED
    BY <2>2 DEF p, q
<1>7. Rounded(h * Width, Height) = w
  BY <1>1, <1>5, <1>6, IsRounded
<1>8. Fit(<<w, h>>) = <<w, h>>
  <2>1. CASE w * Height <= h * Width
    <3>1. Fit(<<w, h>>) = ByWidth(w)
      BY <1>1, <1>4, <2>1, FitIs, WithinIs
    <3> QED
      BY <3>1 DEF ByWidth, h
  <2>2. CASE ~(w * Height <= h * Width)
    <3>1. Fit(<<w, h>>) = ByHeight(h)
      BY <1>1, <1>3, <1>4, <2>2, FitIs, WithinIs
    <3> QED
      BY <1>7, <3>1 DEF ByHeight
  <2> QED
    BY <2>1, <2>2
<1> QED
  BY <1>3, <1>7, <1>8 DEF h, ByWidth

\* A size that follows its height moves by a pixel at most, and is then one that follows
\* its width, or is kept: a pixel of width is less than two of height.
LEMMA HeightSettles ==
  ASSUME NEW h \in Heights
  PROVE  LET f == ByHeight(h)  g == Fit(f)
         IN  /\ f[1] \in Widths
             /\ g[1] = f[1] /\ Near(h, g[2]) /\ g[2] \in Int
             /\ Fit(g) = g
<1> DEFINE w == Rounded(h * Width, Height)
           g == Fit(<<w, h>>)
<1>1. /\ h \in Int /\ HalfHeight <= h /\ h <= 2 * Height
      /\ HalfWidth \in Nat /\ HalfHeight \in Nat /\ 2 * Width \in Nat /\ 2 * Height \in Nat
      /\ Width \in Nat \ {0} /\ Height \in Nat \ {0} /\ Height <= 2 * Width
  BY Halves, SizeAssumption, AspectAssumption DEF Heights
<1>2. h * Width \in Int
  BY <1>1
<1>3. w \in Widths
  <2>1. HalfWidth * Height <= h * Width
    <3>1. HalfHeight * Width <= h * Width
      BY <1>1, Scales
    <3>2. HalfHeight * Width = HalfWidth * Height
      BY Halves
    <3> QED
      BY <3>1, <3>2
  <2>2. h * Width <= (2 * Width) * Height
    <3>1. h * Width <= (2 * Height) * Width
      BY <1>1, Scales
    <3> QED
      BY <1>1, <3>1
  <2> QED
    <3> DEFINE a == h * Width  lo == HalfWidth  hi == 2 * Width
    <3>1. /\ a \in Int /\ Height \in Nat \ {0} /\ lo \in Int /\ hi \in Int
          /\ lo * Height <= a /\ a <= hi * Height
      BY <1>1, <1>2, <2>1, <2>2
    <3> HIDE DEF a, lo, hi
    <3>2. Rounded(a, Height) \in lo..hi
      BY ONLY <3>1, RoundedWithin
    <3> QED
      BY <3>2 DEF a, lo, hi, Widths
<1>4. /\ w \in Int /\ 2 * (w * Height) <= 2 * (h * Width) + Height
      /\ 2 * (h * Width) < 2 * (w * Height) + Height
  BY <1>1, <1>2, RoundedIs
<1>5. ByHeight(h) = <<w, h>>
  BY DEF ByHeight
<1> HIDE DEF w
<1>6. CASE w * Height <= h * Width
  <2> DEFINE k == Rounded(w * Height, Width)
  <2>1. g = ByWidth(w) /\ g = <<w, k>>
    BY <1>1, <1>3, <1>4, <1>6, FitIs, WithinIs DEF ByWidth
  <2>2. k \in Int /\ 2 * (k * Width) <= 2 * (w * Height) + Width /\ 2 * (w * Height) < 2 * (k * Width) + Width
    BY <1>1, <1>4, RoundedIs
  <2> HIDE DEF k, g
  <2>3. ASSUME h + 1 <= k PROVE FALSE
    <3>1. (h + 1) * Width <= k * Width
      BY <1>1, <2>2, <2>3, Scales
    <3>2. (h + 1) * Width = h * Width + Width
      BY <1>1
    <3> QED
      BY <1>1, <1>2, <1>4, <1>6, <2>2, <3>1, <3>2
  <2>4. ASSUME k <= h - 2 PROVE FALSE
    <3>1. k * Width <= (h - 2) * Width
      BY <1>1, <2>2, <2>4, Scales
    <3>2. (h - 2) * Width = h * Width - 2 * Width
      BY <1>1
    <3> QED
      BY <1>1, <1>2, <1>4, <2>2, <3>1, <3>2
  <2>5. Near(h, k)
    BY <1>1, <2>2, <2>3, <2>4 DEF Near
  <2> QED
    BY <1>3, <1>5, <2>1, <2>2, <2>5, WidthKept DEF g
<1>7. CASE ~(w * Height <= h * Width)
  <2>1. g = ByHeight(h)
    BY <1>1, <1>4, <1>7, FitIs, WithinIs
  <2> QED
    BY <1>1, <1>3, <1>5, <2>1 DEF Near
<1> QED
  BY <1>6, <1>7

\* The two limits need no rounding.
LEMMA HintsAre ==
  SizeHints = [min |-> <<HalfWidth, HalfHeight>>, max |-> <<2 * Width, 2 * Height>>]
<1>1. /\ HalfWidth \in Nat \ {0} /\ HalfHeight \in Nat \ {0}
      /\ Width \in Nat \ {0} /\ Height \in Nat \ {0} /\ Width < Height /\ 2 * Height <= 100000
      /\ Width = 2 * HalfWidth /\ Height = 2 * HalfHeight
      /\ HalfHeight * Width = HalfWidth * Height
  BY Halves, SizeAssumption, AspectAssumption, UiAssumption
<1>2. Fit(<<1, 1>>) = ByHeight(HalfHeight)
  <2>1. ~(1 * Height <= 1 * Width) /\ Within(1, HalfHeight, 2 * Height) = HalfHeight
    BY <1>1 DEF Within
  <2> QED
    BY <2>1, FitIs
<1>3. Fit(<<100000, 100000>>) = ByHeight(2 * Height)
  <2>1. ~(100000 * Height <= 100000 * Width) /\ Within(100000, HalfHeight, 2 * Height) = 2 * Height
    BY <1>1 DEF Within
  <2> QED
    BY <2>1, FitIs
<1>4. Rounded(HalfHeight * Width, Height) = HalfWidth
  <2> DEFINE a == HalfHeight * Width
  <2>1. a = HalfWidth * Height /\ a \in Int
    BY <1>1
  <2> HIDE DEF a
  <2>2. 2 * (HalfWidth * Height) <= 2 * a + Height /\ 2 * a < 2 * (HalfWidth * Height) + Height
    BY <1>1, <2>1
  <2>3. Rounded(a, Height) = HalfWidth
    BY <1>1, <2>1, <2>2, IsRounded
  <2> QED
    BY <2>3 DEF a
<1>5. Rounded((2 * Height) * Width, Height) = 2 * Width
  <2> DEFINE a == (2 * Height) * Width  r == 2 * Width
  <2>1. a = r * Height /\ a \in Int /\ r \in Int
    BY <1>1
  <2> HIDE DEF a, r
  <2>2. 2 * (r * Height) <= 2 * a + Height /\ 2 * a < 2 * (r * Height) + Height
    BY <1>1, <2>1
  <2>3. Rounded(a, Height) = r
    BY <1>1, <2>1, <2>2, IsRounded
  <2> QED
    BY <2>3 DEF a, r
<1> QED
  BY <1>2, <1>3, <1>4, <1>5 DEF SizeHints, CheckSizeConstraint, ByHeight

\* Whatever a host offers settles.
LEMMA AnySettles ==
  ASSUME NEW w \in Int, NEW h \in Int
  PROVE  Settles(<<w, h>>)
<1> DEFINE f == Fit(<<w, h>>)
           g == Fit(f)
<1>0. /\ HalfWidth \in Nat \ {0} /\ HalfHeight \in Nat \ {0}
      /\ Width \in Nat \ {0} /\ Height \in Nat \ {0}
      /\ HalfHeight * Width = HalfWidth * Height
      /\ w * Height \in Int /\ h * Width \in Int
  BY Halves
<1>1. SUFFICES /\ f[1] \in Widths /\ f[2] \in Heights
               /\ HalfWidth <= w /\ HalfHeight <= h => f[1] <= w /\ f[2] <= h
               /\ Near(Rounded(f[2] * Width, Height), f[1])
               /\ Near(f[1], g[1]) /\ Near(f[2], g[2])
               /\ Fit(g) = g
  <2> HIDE DEF f, g
  <2>1. SUFFICES ASSUME /\ f[1] \in Widths /\ f[2] \in Heights
                        /\ HalfWidth <= w /\ HalfHeight <= h => f[1] <= w /\ f[2] <= h
                        /\ Near(Rounded(f[2] * Width, Height), f[1])
                        /\ Near(f[1], g[1]) /\ Near(f[2], g[2])
                        /\ Fit(g) = g
                 PROVE  Settles(<<w, h>>)
    OBVIOUS
  <2>2. \A i \in 1..2 :
          /\ f[i] \in SizeHints.min[i]..SizeHints.max[i]
          /\ f[i] <= <<w, h>>[i] \/ w < SizeHints.min[1] \/ h < SizeHints.min[2]
          /\ Near(f[i], g[i])
    BY <1>0, <2>1, HintsAre DEF Widths, Heights
  <2> QED
    BY <2>1, <2>2 DEF Settles, CheckSizeConstraint, f, g
<1>2. CASE w * Height <= h * Width
  <2> DEFINE v == Within(w, HalfWidth, 2 * Width)
             k == Rounded(v * Height, Width)
  <2>1. f = <<v, k>> /\ f = ByWidth(v)
    BY <1>2, FitIs DEF ByWidth
  <2>2. v \in Widths /\ (HalfWidth <= w => v <= w)
    BY WithinIs
  <2> HIDE DEF v, f
  <2>3. k \in Heights /\ Rounded(k * Width, Height) = v /\ g = f /\ Fit(g) = g
    BY <2>1, <2>2, WidthKept
  <2>4. HalfWidth <= w => k <= h
    <3> SUFFICES ASSUME HalfWidth <= w PROVE k <= h
      OBVIOUS
    <3>1. v \in Int /\ HalfWidth <= v /\ v <= w /\ v * Height \in Int
      BY <1>0, <2>2 DEF Widths
    <3>2. HalfWidth * Height <= v * Height /\ v * Height <= w * Height
      BY <1>0, <3>1, Scales
    <3>3. HalfHeight * Width <= v * Height /\ v * Height <= h * Width
      BY <1>0, <1>2, <3>1, <3>2
    <3>4. k \in HalfHeight..h
      <4> DEFINE a == v * Height  lo == HalfHeight  hi == h
      <4>1. /\ a \in Int /\ Width \in Nat \ {0} /\ lo \in Int /\ hi \in Int
            /\ lo * Width <= a /\ a <= hi * Width
        BY <1>0, <3>1, <3>3
      <4> HIDE DEF a, lo, hi
      <4>2. Rounded(a, Width) \in lo..hi
        BY ONLY <4>1, RoundedWithin
      <4> QED
        BY <4>2 DEF a, lo, hi
    <3> QED
      BY <1>0, <3>4
  <2> HIDE DEF k, g
  <2>5. f[1] = v /\ f[2] = k /\ v \in Int /\ k \in Int
    BY <1>0, <2>1, <2>2, <2>3 DEF Widths, Heights
  <2> QED
    BY <2>2, <2>3, <2>4, <2>5 DEF Near
<1>3. CASE ~(w * Height <= h * Width)
  <2> DEFINE v == Within(h, HalfHeight, 2 * Height)
             k == Rounded(v * Width, Height)
  <2>1. f = <<k, v>> /\ f = ByHeight(v)
    BY <1>3, FitIs DEF ByHeight
  <2>2. v \in Heights /\ (HalfHeight <= h => v <= h)
    BY WithinIs
  <2> HIDE DEF v, f
  <2>3. k \in Widths /\ g[1] = k /\ Near(v, g[2]) /\ Fit(g) = g
    <3>1. ByHeight(v)[1] = k
      BY DEF ByHeight
    <3> HIDE DEF k
    <3> QED
      BY <2>1, <2>2, <3>1, HeightSettles
  <2>4. HalfHeight <= h => k <= w
    <3> SUFFICES ASSUME HalfHeight <= h PROVE k <= w
      OBVIOUS
    <3>1. v \in Int /\ HalfHeight <= v /\ v <= h /\ v * Width \in Int
      BY <1>0, <2>2 DEF Heights
    <3>2. HalfHeight * Width <= v * Width /\ v * Width <= h * Width
      BY <1>0, <3>1, Scales
    <3>3. HalfWidth * Height <= v * Width /\ v * Width <= w * Height
      BY <1>0, <1>3, <3>1, <3>2
    <3>4. k \in HalfWidth..w
      <4> DEFINE a == v * Width  lo == HalfWidth  hi == w
      <4>1. /\ a \in Int /\ Height \in Nat \ {0} /\ lo \in Int /\ hi \in Int
            /\ lo * Height <= a /\ a <= hi * Height
        BY <1>0, <3>1, <3>3
      <4> HIDE DEF a, lo, hi
      <4>2. Rounded(a, Height) \in lo..hi
        BY ONLY <4>1, RoundedWithin
      <4> QED
        BY <4>2 DEF a, lo, hi
    <3> QED
      BY <1>0, <3>4
  <2>5. f[1] = k /\ f[2] = v
    BY <2>1
  <2>6. Rounded(f[2] * Width, Height) = f[1]
    BY <2>5
  <2> HIDE DEF k, g
  <2>7. k \in Int /\ v \in Int
    BY <1>0, <2>2, <2>3 DEF Widths, Heights
  <2> QED
    BY <2>2, <2>3, <2>4, <2>5, <2>6, <2>7 DEF Near
<1> QED
  BY <1>2, <1>3

\* Any size a host offers, and the size the window has, is answered within a pixel of the
\* aspect, within the limits and the offer, and the answer to that answer stays
\* (bbmview.cpp 54-62).
THEOREM SizesAlwaysSettle == Spec => []SizesSettle
<1>1. \A o \in Pixels : Settles(o)
  BY AnySettles DEF Pixels
<1>2. AllSettle
  <2>1. Offers \subseteq Pixels
    BY SizeAssumption DEF Offers, Pixels
  <2>. QED
    BY <1>1, <2>1 DEF AllSettle
<1>3. IInv => rect \in Pixels
  BY DEF IInv, SizeInv, SizeTypes
<1>4. IInv => SizesSettle
  BY <1>1, <1>2, <1>3 DEF SizesSettle
<1>. QED
  BY <1>4, Inductive, PTL

-----------------------------------------------------------------------------
(* The error handlers *)

\* The handlers put on top of Base, and what each of them passes on to.
Installed == {b \in Bundle : gHandlerInstalled[b]} \cup
             (IF libraryPrevious = Null THEN {} ELSE {Library})

Previous(h) == IF h = Library THEN libraryPrevious ELSE gPreviousErrorHandler[h]

\* node[0], ..., node[n] are the handlers from Base up to the one Xlib calls: each once, and
\* every one that is installed.
Chain(n, node) ==
  /\ node[0] = Base /\ node[n] = handler
  /\ \A r \in 1..n : node[r] \in Installed /\ Previous(node[r]) = node[r - 1]
  /\ \A q, r \in 0..n : node[q] = node[r] => q = r
  /\ \A h \in Installed : \E r \in 1..n : node[r] = h

Chained ==
  \E n \in 0..Cardinality(Bundle) + 1 :
    \E node \in [0..n -> Installed \cup {Base}] : Chain(n, node)

\* A bundle with an editor open is mapped, and its handler is somewhere in the chain.
OpenIsInstalled ==
  \A b \in Bundle : gOurDisplays[b] > 0 => b \in loaded /\ gHandlerInstalled[b]

\* Nothing points to the other library's handler before it is installed.
LibraryIsLater ==
  libraryPrevious = Null =>
    handler # Library /\ \A b \in Bundle : gPreviousErrorHandler[b] # Library

HTypes == TypeOK /\ OpenIsInstalled /\ LibraryIsLater
HInv == HTypes /\ (ChainIsWhole => Chained)

\* Base, Default, Null and Library are four.
LEMMA Others ==
  /\ Base # Default /\ Base # Null /\ Base # Library
  /\ Default # Null /\ Default # Library /\ Null # Library
  /\ Cardinality(Bundle) \in Nat
<1>1. ASSUME NEW a, NEW b, NEW c PROVE Cardinality({a, b, c}) # 4
  <2>1. /\ IsFiniteSet({a}) /\ Cardinality({a}) = 1
    BY FS_Singleton
  <2>2. /\ IsFiniteSet({a} \cup {b}) /\ Cardinality({a} \cup {b}) \in 1..2
    BY <2>1, FS_AddElement
  <2>3. Cardinality(({a} \cup {b}) \cup {c}) \in 1..3
    BY <2>2, FS_AddElement
  <2>4. ({a} \cup {b}) \cup {c} = {a, b, c}
    OBVIOUS
  <2> QED
    BY <2>3, <2>4
<1>2. Cardinality({Base, Default, Null, Library}) = 4
  BY HandlerAssumption
<1>3. ASSUME \/ Base = Default \/ Base = Null \/ Base = Library
             \/ Default = Null \/ Default = Library \/ Null = Library
      PROVE  FALSE
  <2>1. \/ {Base, Default, Null, Library} = {Default, Null, Library}
        \/ {Base, Default, Null, Library} = {Base, Null, Library}
        \/ {Base, Default, Null, Library} = {Base, Default, Library}
    BY <1>3
  <2>2. /\ Cardinality({Default, Null, Library}) # 4
        /\ Cardinality({Base, Null, Library}) # 4
        /\ Cardinality({Base, Default, Library}) # 4
    BY <1>1, Zenon
  <2> QED
    BY <1>2, <2>1, <2>2, Zenon
<1>4. Cardinality(Bundle) \in Nat
  BY FS_CardinalityType, HandlerAssumption
<1> QED
  BY <1>3, <1>4

\* A chain has each handler at most once, so it is no longer than there are handlers.
LEMMA ChainIsShort ==
  ASSUME NEW n \in Nat, NEW node, NEW P \in SUBSET (Bundle \cup {Library}),
         \A r \in 1..n : node[r] \in P,
         \A q, r \in 1..n : node[q] = node[r] => q = r
  PROVE  n <= Cardinality(Bundle) + 1
<1> DEFINE f == [r \in 1..n |-> node[r]]
<1>1. /\ IsFiniteSet(Bundle \cup {Library})
      /\ Cardinality(Bundle \cup {Library}) <= Cardinality(Bundle) + 1
  BY FS_AddElement, FS_CardinalityType, HandlerAssumption
<1>2. f \in Injection(1..n, Bundle \cup {Library})
  BY DEF Injection, IsInjective
<1>3. Cardinality(1..n) <= Cardinality(Bundle \cup {Library})
  BY <1>1, <1>2, FS_Injection
<1>4. Cardinality(1..n) = n
  BY FS_Interval
<1>5. Cardinality(Bundle \cup {Library}) \in Nat /\ Cardinality(Bundle) \in Nat
  BY <1>1, FS_CardinalityType, HandlerAssumption
<1> QED
  BY <1>1, <1>3, <1>4, <1>5

Handlers == Bundle \cup {Library}

LEMMA InstalledType == Installed \subseteq Handlers /\ Base \notin Handlers
  BY Others, HandlerAssumption DEF Installed, Handlers

\* A handler that goes on top of the chain lengthens it,
LEMMA ChainGrows ==
  ASSUME Chained, NEW h \in Handlers \ Installed,
         Installed' = Installed \cup {h}, handler' = h, Previous(h)' = handler,
         \A g \in Installed : Previous(g)' = Previous(g),
         Installed' \subseteq Handlers
  PROVE  Chained'
<1>0. PICK n \in 0..Cardinality(Bundle) + 1 :
        \E node \in [0..n -> Installed \cup {Base}] : Chain(n, node)
  BY DEF Chained
<1>1. PICK node \in [0..n -> Installed \cup {Base}] : Chain(n, node)
  BY <1>0
<1> DEFINE more == [r \in 0..n + 1 |-> IF r = n + 1 THEN h ELSE node[r]]
<1>2. n \in Nat /\ n + 1 \in Nat /\ \A r \in 0..n : more[r] = node[r]
  BY Others
<1>3. more[n + 1] = h /\ more \in [0..n + 1 -> Installed' \cup {Base}]
  BY <1>2
<1>4. \A r \in 1..n + 1 : more[r] \in Installed' /\ Previous(more[r])' = more[r - 1]
  <2>1. ASSUME NEW r \in 1..n
        PROVE  more[r] \in Installed' /\ Previous(more[r])' = more[r - 1]
    <3>1. node[r] \in Installed /\ Previous(node[r]) = node[r - 1]
      BY <1>1 DEF Chain
    <3>2. more[r] = node[r] /\ more[r - 1] = node[r - 1]
      BY <1>2
    <3> QED
      BY <3>1, <3>2
  <2>2. more[n + 1] \in Installed' /\ Previous(more[n + 1])' = more[n + 1 - 1]
    BY <1>1, <1>2, <1>3 DEF Chain
  <2> QED
    BY <2>1, <2>2, <1>2
<1>5. \A q, r \in 0..n + 1 : more[q] = more[r] => q = r
  <2>1. \A r \in 0..n : more[r] # h
    BY <1>2, InstalledType
  <2>2. \A q, r \in 0..n : more[q] = more[r] => q = r
    BY <1>1, <1>2 DEF Chain
  <2> QED
    <3> HIDE DEF more
    <3>1. \A r \in 0..n + 1 : r \in 0..n \/ r = n + 1
      BY <1>2
    <3> QED
      BY <1>3, <2>1, <2>2, <3>1
<1>6. \A g \in Installed' : \E r \in 1..n + 1 : more[r] = g
  <2>1. ASSUME NEW g \in Installed
        PROVE  \E r \in 1..n + 1 : more[r] = g
    <3>1. PICK r \in 1..n : node[r] = g
      BY <1>1 DEF Chain
    <3> QED
      BY <1>2, <3>1
  <2> QED
    BY <1>2, <1>3, <2>1
<1>7. Chain(n + 1, more)'
  BY <1>1, <1>2, <1>3, <1>4, <1>5, <1>6 DEF Chain
<1>8. n + 1 <= Cardinality(Bundle) + 1
  <2> HIDE DEF more
  <2>1. /\ \A r \in 1..n + 1 : more[r] \in Installed'
        /\ \A q, r \in 1..n + 1 : more[q] = more[r] => q = r
    BY <1>2, <1>4, <1>5
  <2> QED
    BY <1>2, <2>1, ChainIsShort, Zenon DEF Handlers
<1> QED
  BY <1>2, <1>3, <1>7, <1>8, Others DEF Chained

\* and the one on top takes itself off.
LEMMA ChainShrinks ==
  ASSUME Chained, handler \in Installed,
         Installed' = Installed \ {handler}, handler' = Previous(handler),
         \A g \in Installed \ {handler} : Previous(g)' = Previous(g)
  PROVE  Chained'
<1>0. PICK n \in 0..Cardinality(Bundle) + 1 :
        \E node \in [0..n -> Installed \cup {Base}] : Chain(n, node)
  BY DEF Chained
<1>1. PICK node \in [0..n -> Installed \cup {Base}] : Chain(n, node)
  BY <1>0
<1>2. n \in Nat /\ node[n] = handler /\ n # 0
  BY <1>1, Others, InstalledType DEF Chain
<1> DEFINE less == [r \in 0..n - 1 |-> node[r]]
<1>3. n - 1 \in Nat /\ \A r \in 0..n - 1 : less[r] = node[r] /\ node[r] # handler
  BY <1>1, <1>2 DEF Chain
<1>4. /\ less[0] = Base /\ less[n - 1] = handler'
      /\ less \in [0..n - 1 -> Installed' \cup {Base}]
  BY <1>1, <1>2, <1>3 DEF Chain
<1>5. \A r \in 1..n - 1 : less[r] \in Installed' /\ Previous(less[r])' = less[r - 1]
  BY <1>1, <1>2, <1>3 DEF Chain
<1>6. \A q, r \in 0..n - 1 : less[q] = less[r] => q = r
  BY <1>1, <1>2, <1>3 DEF Chain
<1>7. \A g \in Installed' : \E r \in 1..n - 1 : less[r] = g
  <2>1. ASSUME NEW g \in Installed \ {handler}
        PROVE  \E r \in 1..n - 1 : less[r] = g
    <3>1. PICK r \in 1..n : node[r] = g
      BY <1>1 DEF Chain
    <3> QED
      BY <1>2, <1>3, <3>1
  <2> QED
    BY <2>1
<1>8. Chain(n - 1, less)'
  BY <1>4, <1>5, <1>6, <1>7 DEF Chain
<1> QED
  BY <1>1, <1>3, <1>4, <1>8, Others DEF Chained

\* The handler below an installed one is installed too, or is the one below them all.
LEMMA ChainIsInstalled ==
  ASSUME Chained, NEW h \in Installed
  PROVE  Previous(h) \in Installed \cup {Base}
<1>1. PICK n \in 0..Cardinality(Bundle) + 1 :
        \E node \in [0..n -> Installed \cup {Base}] : Chain(n, node)
  BY DEF Chained
<1>2. PICK node \in [0..n -> Installed \cup {Base}] : Chain(n, node)
  BY <1>1
<1>3. PICK r \in 1..n : node[r] = h
  BY <1>2 DEF Chain
<1> QED
  BY <1>2, <1>3, Others DEF Chain

LEMMA ChainKept ==
  ASSUME Chained, UNCHANGED <<handler, gPreviousErrorHandler, gHandlerInstalled, libraryPrevious>>
  PROVE  Chained'
<1>1. Installed' = Installed /\ \A h : Previous(h)' = Previous(h)
  BY DEF Installed, Previous
<1>2. ASSUME NEW n, NEW node, Chain(n, node)
      PROVE  Chain(n, node)'
  BY <1>1, <1>2 DEF Chain
<1> QED
  BY <1>1, <1>2 DEF Chained

LEMMA HandlerTypes ==
  ASSUME HTypes, [HandlerNext]_handlerVars
  PROVE  HTypes'
<1> USE Others, HandlerAssumption DEF HTypes, TypeOK, OpenIsInstalled, LibraryIsLater
<1>1. ASSUME NEW b \in Bundle, RegisterDisplay(b)
      PROVE  HTypes'
  <2>1. b \in loaded /\ gOurDisplays' \in [Bundle -> 0..MaxDisplays]
    BY <1>1 DEF RegisterDisplay
  <2>2. CASE gHandlerInstalled[b]
    BY <1>1, <2>1, <2>2 DEF RegisterDisplay
  <2>3. CASE ~gHandlerInstalled[b]
    <3>1. TypeOK'
      <4>1. /\ handler' = b /\ UNCHANGED <<loaded, libraryPrevious>>
            /\ gHandlerInstalled' = [gHandlerInstalled EXCEPT ![b] = TRUE]
            /\ gPreviousErrorHandler' = [gPreviousErrorHandler EXCEPT ![b] = handler]
        BY <1>1, <2>3 DEF RegisterDisplay
      <4>2. ASSUME NEW c \in Bundle
            PROVE  gHandlerInstalled'[c] = (gPreviousErrorHandler'[c] # Null)
        BY <4>1
      <4> QED
        BY <2>1, <4>1, <4>2
    <3>2. OpenIsInstalled' /\ LibraryIsLater'
      BY <1>1, <2>1, <2>3 DEF RegisterDisplay
    <3> QED
      BY <3>1, <3>2
  <2> QED
    BY <2>2, <2>3
<1>2. ASSUME NEW b \in Bundle, UnregisterDisplay(b)
      PROVE  HTypes'
  <2>0. gOurDisplays' \in [Bundle -> 0..MaxDisplays]
    BY <1>2 DEF UnregisterDisplay
  <2>1. CASE gOurDisplays'[b] = 0 /\ gHandlerInstalled[b]
    <3>1. CASE handler = b
      <4>1. TypeOK'
        <5>1. /\ handler' \in {gPreviousErrorHandler[b], Default}
              /\ UNCHANGED <<loaded, libraryPrevious>>
              /\ gHandlerInstalled' = [gHandlerInstalled EXCEPT ![b] = FALSE]
              /\ gPreviousErrorHandler' = [gPreviousErrorHandler EXCEPT ![b] = Null]
          BY <1>2, <2>1, <3>1 DEF UnregisterDisplay, UninstallIfOnTop
        <5>2. gPreviousErrorHandler[b] # Null
          BY <2>1
        <5>3. ASSUME NEW c \in Bundle
              PROVE  gHandlerInstalled'[c] = (gPreviousErrorHandler'[c] # Null)
          BY <5>1
        <5> QED
          BY <2>0, <5>1, <5>2, <5>3
      <4>2. OpenIsInstalled' /\ LibraryIsLater'
        BY <1>2, <2>0, <2>1, <3>1 DEF UnregisterDisplay, UninstallIfOnTop
      <4> QED
        BY <4>1, <4>2
    <3>2. CASE handler # b
      BY <1>2, <2>0, <2>1, <3>2 DEF UnregisterDisplay, UninstallIfOnTop
    <3> QED
      BY <3>1, <3>2
  <2>2. CASE ~(gOurDisplays'[b] = 0 /\ gHandlerInstalled[b])
    BY <1>2, <2>2 DEF UnregisterDisplay
  <2> QED
    BY <2>1, <2>2
<1>3. ASSUME NEW b \in Bundle, Unload(b)
      PROVE  HTypes'
  BY <1>3 DEF Unload, globals
<1>4. CASE LibraryInstalls
  BY <1>4 DEF LibraryInstalls, globals
<1>5. CASE UNCHANGED handlerVars
  BY <1>5 DEF handlerVars, globals
<1> QED
  BY <1>1, <1>2, <1>3, <1>4, <1>5 DEF HandlerNext

LEMMA ChainStep ==
  ASSUME HInv, HTypes', [HandlerNext]_handlerVars, ChainIsWhole'
  PROVE  Chained'
<1> USE Others, HandlerAssumption DEF HInv, HTypes
<1>1. ASSUME NEW b \in Bundle, RegisterDisplay(b)
      PROVE  Chained'
  <2>1. ChainIsWhole
    BY <1>1 DEF RegisterDisplay, ChainIsWhole, TypeOK
  <2>2. CASE gHandlerInstalled[b]
    BY <1>1, <2>1, <2>2, ChainKept DEF RegisterDisplay
  <2>3. CASE ~gHandlerInstalled[b]
    <3>1. b \in Handlers \ Installed
      BY <2>3 DEF Installed, Handlers
    <3>2. Installed' = Installed \cup {b} /\ Installed' \subseteq Handlers
      BY <1>1, <2>3 DEF RegisterDisplay, Installed, Handlers, TypeOK
    <3>3. /\ handler' = b /\ Previous(b)' = handler
          /\ \A g \in Installed : Previous(g)' = Previous(g)
      BY <1>1, <2>3 DEF RegisterDisplay, Installed, Previous, TypeOK
    <3> QED
      BY <2>1, <3>1, <3>2, <3>3, ChainGrows
  <2> QED
    BY <2>2, <2>3
<1>2. ASSUME NEW b \in Bundle, UnregisterDisplay(b)
      PROVE  Chained'
  <2>1. b \in loaded /\ gHandlerInstalled[b]
    BY <1>2 DEF UnregisterDisplay, OpenIsInstalled
  <2>2. ChainIsWhole
    BY <1>2, <2>1 DEF UnregisterDisplay, UninstallIfOnTop, ChainIsWhole, TypeOK
  <2>3. CASE gOurDisplays'[b] = 0 /\ handler = b
    <3>1. handler \in Installed /\ Previous(handler) = gPreviousErrorHandler[b]
      BY <2>1, <2>3 DEF Installed, Previous
    <3>2. Mapped(gPreviousErrorHandler[b])
      BY <2>2, <3>1, ChainIsInstalled DEF Mapped, Installed, ChainIsWhole
    <3>3. /\ handler' = Previous(handler) /\ Installed' = Installed \ {handler}
          /\ \A g \in Installed \ {handler} : Previous(g)' = Previous(g)
      BY <1>2, <2>1, <2>3, <3>1, <3>2
      DEF UnregisterDisplay, UninstallIfOnTop, Installed, Previous, TypeOK
    <3> QED
      BY <2>2, <3>1, <3>3, ChainShrinks
  <2>4. CASE ~(gOurDisplays'[b] = 0 /\ handler = b)
    <3>1. UNCHANGED <<handler, gPreviousErrorHandler, gHandlerInstalled, libraryPrevious>>
      BY <1>2, <2>4 DEF UnregisterDisplay, UninstallIfOnTop
    <3> QED
      BY <2>2, <3>1, ChainKept
  <2> QED
    BY <2>3, <2>4
<1>3. ASSUME NEW b \in Bundle, Unload(b)
      PROVE  Chained'
  <2>1. ChainIsWhole
    BY <1>3 DEF Unload, globals, ChainIsWhole
  <2> QED
    BY <1>3, <2>1, ChainKept DEF Unload, globals
<1>4. CASE LibraryInstalls
  <2>1. ChainIsWhole
    BY <1>4 DEF LibraryInstalls, globals, ChainIsWhole
  <2>2. Library \in Handlers \ Installed
    BY <1>4 DEF LibraryInstalls, Installed, Handlers
  <2>3. Installed' = Installed \cup {Library} /\ Installed' \subseteq Handlers
    BY <1>4 DEF LibraryInstalls, globals, Installed, Handlers, TypeOK
  <2>4. /\ handler' = Library /\ Previous(Library)' = handler
        /\ \A g \in Installed : Previous(g)' = Previous(g)
    BY <1>4, <2>2 DEF LibraryInstalls, globals, Previous
  <2> QED
    BY <2>1, <2>2, <2>3, <2>4, ChainGrows
<1>5. CASE UNCHANGED handlerVars
  BY <1>5, ChainKept DEF handlerVars, globals, ChainIsWhole
<1> QED
  BY <1>1, <1>2, <1>3, <1>4, <1>5 DEF HandlerNext

LEMMA HandlerInductive == HandlerSpec => []HInv
<1>1. HandlerInit => HInv
  <2>1. HandlerInit => HTypes
    <3>1. ASSUME HandlerInit PROVE TypeOK
      <4>1. ASSUME NEW b \in Bundle
            PROVE  gHandlerInstalled[b] = (gPreviousErrorHandler[b] # Null)
        BY <3>1 DEF HandlerInit
      <4>2. 0 \in 0..MaxDisplays
        BY HandlerAssumption
      <4> QED
        BY <3>1, <4>1, <4>2, Others DEF HandlerInit, TypeOK
    <3>2. ASSUME HandlerInit PROVE OpenIsInstalled /\ LibraryIsLater
      BY <3>2, Others DEF HandlerInit, OpenIsInstalled, LibraryIsLater
    <3> QED
      BY <3>1, <3>2 DEF HTypes
  <2>2. HandlerInit => Chained
    <3> SUFFICES ASSUME HandlerInit PROVE Chained
      OBVIOUS
    <3> DEFINE node == [r \in 0..0 |-> Base]
    <3>1. Installed = {}
      BY DEF HandlerInit, Installed
    <3>2. node \in [0..0 -> Installed \cup {Base}] /\ Chain(0, node)
      BY <3>1 DEF HandlerInit, Chain
    <3>3. 0 \in 0..Cardinality(Bundle) + 1
      BY Others
    <3> QED
      BY <3>2, <3>3, Zenon DEF Chained
  <2> QED
    BY <2>1, <2>2 DEF HInv
<1>2. HInv /\ [HandlerNext]_handlerVars => HInv'
  BY HandlerTypes, ChainStep DEF HInv
<1> QED
  BY <1>1, <1>2, PTL DEF HandlerSpec

\* Every bundle's globals have their types, and a bundle remembers a handler to go back to
\* exactly while it has put its own in place (x11plugview.cpp, registerDisplay and
\* unregisterDisplay).
THEOREM HandlerTypeCorrect == HandlerSpec => []TypeOK
  BY HandlerInductive, PTL DEF HInv, HTypes

-----------------------------------------------------------------------------
(* What the chain does with an error *)

\* Induction up to a number, over the set of the numbers it has been shown of.
LEMMA UpTo ==
  ASSUME NEW m \in Nat, NEW G, 0 \in G, \A k \in 1..m : k - 1 \in G => k \in G
  PROVE  \A k \in 0..m : k \in G
<1> DEFINE Rest == {k \in 0..m : k \notin G}
<1> SUFFICES ASSUME Rest # {} PROVE FALSE
  OBVIOUS
<1>1. PICK k \in Rest : \A j \in Rest : ~(<<j, k>> \in OpToRel(<, Nat))
  <2>1. Rest \subseteq Nat
    OBVIOUS
  <2> HIDE DEF Rest
  <2> DEFINE R == OpToRel(<, Nat)
  <2>2. IsWellFoundedOn(R, Nat)
    BY NatLessThanWellFounded
  <2> HIDE DEF R
  <2>3. \E k \in Rest : \A j \in Rest : ~(<<j, k>> \in R)
    BY <2>1, <2>2, WFMin
  <2> QED
    BY <2>3 DEF R
<1>2. k # 0 /\ k \in 1..m
  OBVIOUS
<1>3. k - 1 \in Rest /\ k - 1 < k
  BY <1>2
<1>4. <<k - 1, k>> \in OpToRel(<, Nat)
  BY <1>2, <1>3 DEF OpToRel
<1> QED
  BY <1>1, <1>3, <1>4

\* An error goes down the chain as far as the handler that answers it.
LEMMA PassedDown ==
  ASSUME TypeOK, NEW n \in Nat, NEW node \in [0..n -> Installed \cup {Base}], Chain(n, node),
         NEW o, NEW t \in 0..n, node[t] = o,
         o = Base \/ (o \in Bundle /\ gOurDisplays[o] > 0)
  PROVE  /\ PassedTo(node[t], o) = node[t]
         /\ \A r \in t + 1..n : PassedTo(node[r], o) = node[r - 1]
<1> USE Others, HandlerAssumption
<1>1. PassedTo(node[t], o) = node[t]
  BY DEF PassedTo
<1>2. ASSUME NEW r \in t + 1..n
      PROVE  PassedTo(node[r], o) = node[r - 1]
  <2>1. /\ node[r] \in Installed /\ Previous(node[r]) = node[r - 1]
        /\ node[r] # o
    BY <1>2 DEF Chain
  <2>2. CASE node[r] = Library
    BY <2>1, <2>2 DEF Previous, PassedTo
  <2>3. CASE node[r] # Library
    <3>1. node[r] \in Bundle /\ gHandlerInstalled[node[r]]
      BY <2>1, <2>3 DEF Installed
    <3>2. gPreviousErrorHandler[node[r]] # Null
      BY <3>1 DEF TypeOK
    <3> QED
      BY <2>1, <2>3, <3>1, <3>2 DEF Previous, PassedTo
  <2> QED
    BY <2>2, <2>3
<1> QED
  BY <1>1, <1>2

LEMMA OwnerAnswers ==
  ASSUME TypeOK, Chained, NEW o, o \in Installed \cup {Base},
         o = Base \/ (o \in Bundle /\ gOurDisplays[o] > 0)
  PROVE  Answers(o) = o
<1>1. PICK n \in 0..Cardinality(Bundle) + 1 :
        \E node \in [0..n -> Installed \cup {Base}] : Chain(n, node)
  BY DEF Chained
<1>2. PICK node \in [0..n -> Installed \cup {Base}] : Chain(n, node)
  BY <1>1
<1>3. PICK t \in 0..n : node[t] = o
  BY <1>2 DEF Chain
<1> DEFINE K == Cardinality(Bundle) + 1
           at(k) == node[IF k <= n - t THEN n - k ELSE t]
           down == [k \in 0..K |-> at(k)]
           hop == CHOOSE hop : hop = [k \in 0..K |-> IF k = 0 THEN handler
                                                     ELSE PassedTo(hop[k - 1], o)]
<1>4. K \in Nat /\ n \in Nat /\ n <= K
  BY Others
<1>5. \A k \in 0..K : at(k) = IF k = 0 THEN handler ELSE PassedTo(at(k - 1), o)
  <2>1. at(0) = handler
    BY <1>2, <1>4 DEF Chain
  <2>2. ASSUME NEW k \in 1..K
        PROVE  at(k) = PassedTo(at(k - 1), o)
    <3>1. CASE k <= n - t
      <4>1. at(k) = node[n - k] /\ at(k - 1) = node[n - (k - 1)] /\ n - (k - 1) \in t + 1..n
        BY <1>4, <3>1
      <4>2. PassedTo(node[n - (k - 1)], o) = node[n - (k - 1) - 1]
        BY <1>2, <1>3, <1>4, <4>1, PassedDown
      <4> QED
        BY <1>4, <4>1, <4>2
    <3>2. CASE ~(k <= n - t)
      <4>1. at(k) = node[t] /\ at(k - 1) = node[t]
        BY <1>4, <3>2
      <4> QED
        BY <1>2, <1>3, <1>4, <4>1, PassedDown
    <3> QED
      BY <3>1, <3>2
  <2> QED
    BY <2>1, <2>2, <1>4
<1>6. down = [k \in 0..K |-> IF k = 0 THEN handler ELSE PassedTo(down[k - 1], o)]
  BY <1>4, <1>5
<1>7. hop = [k \in 0..K |-> IF k = 0 THEN handler ELSE PassedTo(hop[k - 1], o)]
  BY <1>6
<1>8. \A k \in 0..K : hop[k] = down[k]
  <2> DEFINE G == {k \in 0..K : hop[k] = down[k]}
  <2> HIDE DEF hop, down
  <2>1. 0 \in G
    BY <1>4, <1>6, <1>7
  <2>2. \A k \in 1..K : k - 1 \in G => k \in G
    BY <1>4, <1>6, <1>7
  <2> QED
    BY <1>4, <2>1, <2>2, UpTo
<1>9. hop[K] = o
  BY <1>3, <1>4, <1>8
<1>10. Answers(o) = hop[K]
  BY DEF Answers
<1> QED
  BY <1>9, <1>10

\* Whatever editors of however many siblings open and close, in any order, under another
\* library's handler or over it: as long as no sibling is unloaded from the middle of the
\* chain, an error on a connection of ours is answered by its bundle, and any other one by
\* the handler the host had installed.
THEOREM ErrorsAreOwned == HandlerSpec => []ErrorsReachTheirOwner
<1>1. ASSUME HInv PROVE ErrorsReachTheirOwner
  <2> SUFFICES ASSUME ChainIsWhole
               PROVE  /\ \A b \in Bundle : gOurDisplays[b] > 0 => Answers(b) = b
                      /\ Answers(Base) = Base
    BY DEF ErrorsReachTheirOwner
  <2>1. TypeOK /\ Chained
    BY <1>1 DEF HInv, HTypes
  <2>2. ASSUME NEW b \in Bundle, gOurDisplays[b] > 0
        PROVE  Answers(b) = b
    <3>1. b \in Installed
      BY <1>1, <2>2 DEF HInv, HTypes, OpenIsInstalled, Installed
    <3> QED
      BY <2>1, <2>2, <3>1, OwnerAnswers
  <2>3. Answers(Base) = Base
    BY <2>1, OwnerAnswers
  <2> QED
    BY <2>2, <2>3
<1> QED
  BY <1>1, HandlerInductive, PTL
=============================================================================
