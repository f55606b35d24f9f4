# Formal models of Big Bubble Muff

TLA+ modules that model the parts of this plug-in whose correctness rests on state,
order and interleaving, TLC configurations that model-check them on small instances, and
theorems about them for every value of the constants, with proofs that TLAPS checks.
`PROJECT.json` is the index: which definition models which lines of the source, which run
checks which property, which mutation of a definition each property catches, the hazards
the properties are for, and the findings.

    tlc -config Processor.cfg MCProcessor      one run (module and cfg of every run: below)
    tlapm ProcessorProofs.tla                  one module of proofs

## The system

Big Bubble Muff is a guitar fuzz: a circuit simulation of a Big Muff Pi behind a noise
gate, as a VST3 and an LV2 plug-in for Linux, with an X11 editor drawn by cairo.

| Component | State it keeps | Operations | Talks to |
|---|---|---|---|
| Audio processor (`src/src/plugin/processor.cpp`) | parameter atomics, two crossfades, dry delay ring and cursor, prepared size | setupProcessing, setActive, process (in chunks), setState, getState | the host's audio and message threads; owns the engine |
| Engine (`src/src/dsp/BigMuffPi.cpp`, `AudioMath.h`, `NoiseGate.h`, `Oversampler.h`) | smoothed pots, knob countdown, gate envelope, gain and hold | prepare, reset, setControls, process | called by the processor; calls the circuit at 4x the rate |
| Circuit solver (`src/src/dsp/circuit/`) | capacitors, port voltages, inverse Jacobian, operating point, matrices of the knobs | prepare, setKnobs, settleToDc, process | called by the engine |
| Plug-in state and parameters (`state.cpp`, `ids.h`, `bbmlv2.h`) | none | writeState, readState, toNorm, clampNorm | used by processor, controller and LV2 |
| LV2 plug-in (`src/src/lv2/bbm_lv2.cpp`) | port pointers, bits last seen, a queue of points | connect_port, run, save, restore | the host; owns a processor |
| LV2 user interface (`bbm_lv2_ui.cpp`) | an idle-driven run loop and its next tick | idle, port_event, instantiate, cleanup | the host; owns controller and editor |
| Edit controller (`controller.cpp`) | its copy of the parameters, the attached view | setParamNormalized, setComponentState, createView, editorAttached/Removed | host and editor |
| Editor (`src/src/ui/bbmview.cpp`) | knob drag, normalised values, images | mouse, wheel, key, tick, applyPreset | preset bar, X11 view, controller |
| Preset bar (`src/src/ui/presetbar.cpp`) | list, name field, Delete arm, name shown | mouseDown, key, tick | preset store; asks the view for the keyboard |
| Preset store (`src/src/presets/presetstore.cpp`) | files in the user's configuration directory | list, save, load, remove, serialise, parse | the file system, other host processes |
| X11 plug view (`src/src/platform/x11plugview.cpp`) | display, window, map state, saved focus, dirty flag, run-loop handlers | attached, removed, onFDIsSet, onTimer, setKeyboardFocus, onSize | X server, embedder, host run loop |
| X error handler (same file) | count of our displays, saved handler, installed flag | registerDisplay, unregisterDisplay, xErrorHandler | Xlib, sibling bundles, other libraries |
| Graphics (`src/src/gfx/`) | the cache of pictures scaled for the window | getScaled, purgeScaled | the editor |
| Factory, denormals, tools, tests | none of their own | | |

What makes it hard:

* the message thread stores parameters one atomic at a time while the audio thread
  processes a block in chunks;
* state that is skipped, restarted or re-derived: the circuit is not run while the
  footswitch is off, matrices follow the pots every few samples, an inverse Jacobian is
  reused until it stalls;
* NaN and infinity inside the solver, and NaN on an LV2 port;
* files that two hosts share, with failing calls, dying processes and power cuts;
* X events that are out of date when they are read, focus, mapping and size decided by
  others, and told in two ways that may cross;
* an LV2 host that calls `idle()` when it likes, and whose reports of the ports lag behind
  the user's edits;
* one process-wide error handler for bundles that open, close and unload in any order.

What makes each component correct, in a line: the dry path is an exact delay and no gain
ever steps (processor); knobs reach the circuit, exactly and soon, and the gate holds and
then mutes (engine); every call returns with a finite state of one sample, never through
a stale inverse (circuit); a blob is applied whole or not at all (state); what the panel
shows is what is heard (LV2); the panel comes to rest on the host's ports, drawn at the
window's size, by ticks that are spaced (LV2 user interface); the gestures open with the
host are the drags going on, all copies of a value agree, and no knob jumps (editor,
controller); one mode at a time, and Delete removes what was confirmed (bar); a preset
is an atomic, durable register, and its text applied whole or not at all (store); the
window's record of size, map state and focus follows the server's (view); an error of ours never kills the host, and one of the host's
reaches it (handler).

## The modules

| Module | Models | Composes / refines |
|---|---|---|
| `Processor` | the processor's life cycle, fades, chunk walk and dry ring, sample by sample | implements `DelayLine` |
| `DelayLine` | what the dry path promises: a delay of `Latency` samples per channel | abstract |
| `Engine` | smoothed pots, knob interval, noise gate, the loops of process | |
| `Oversampler` | both half-band stages as exact polynomials, against the filters they stand for | |
| `OversampledEngine` | the engine with its oversampler | `Engine` + `Oversampler` |
| `Circuit` | the control of both Newton loops and what they do to stored state | |
| `StateBlob` | pure operators: the blob's writer and validating reader, conversions | used by `Lv2Plugin`, `Lv2Ui`, `PresetText` |
| `Lv2Plugin` | ports, the points of a block, save and restore against the atomics | extends `StateBlob` |
| `PresetStore` | one preset on a POSIX file system, system call by system call | implements `PresetRegister` |
| `PresetRegister` | what the store promises: an atomic durable register | abstract |
| `PresetText` | pure operators: the text of a preset, its parser, safe names and their order | |
| `Presets` | the store with the texts it keeps | `PresetStore` + `PresetText` |
| `PresetBar` | the preset strip of the editor | |
| `PlugView` | the X11 window: life cycle, mapping, painting, focus; X server and embedder | pieces |
| `BbmView` | the editor: the bar in its window, with the event queue between them | `PresetBar` + `PlugView`, implements `PresetBar` |
| `ViewSize` | the window's size and all that follows it: rectangle, surfaces, layout, scaled pictures | pieces |
| `Lv2Ui` | the editor under an LV2 host (idle, port events, port writes) or a VST3 one | `ViewSize` + `StateBlob` |
| `EditGestures` | knobs and footswitch of the editors, the controller's copy, what the host is told | |
| `XErrorHandler` | the process-wide handler of several bundles and a chaining library | |
| `*Proofs` | the theorems of the module they are named after, and of what goes with it: `BbmViewProofs` of `PresetBar` and `BbmView`, `PresetStoreProofs` of `PresetStore` and `PresetText`, `EngineProofs` of `Engine` and `Oversampler`, `WindowProofs` of `Lv2Ui`, `ViewSize` and `XErrorHandler` | |
| `MC*` | the small instances TLC checks | |

### Processor and DelayLine

`mSwitch` and `mBypass` are the two atomics as `processChunk` compares them; `SetState`
is one store of the message thread and may fall between any two steps of the audio
thread. `Process` is `process()` up to its chunk loop, `BeginChunk` is `processChunk` up
to its sample loop (the targets are read there, once), `ProcessSample` one turn of that
loop with the ring write and the cursor's wrap. Gains are integers in `0..Full`. The
history variables `fed` (samples the circuit has taken without a gap, up to `Horizon`),
`gain` and `rested` let the properties speak of what is heard. Samples are values of
`Sample`: the processor only moves them. The ring read from the cursor onwards is the
`line` of `DelayLine`: `DryIsDelayed` is that refinement.
The five continuous controls, the trim smoother and bus negotiation are left out (the
controls are `Lv2Plugin`'s and `Engine`'s matter).
Observed on the way: `setActive(true)` does not reset the engine, and its comment
(`src/src/plugin/processor.cpp:108`) says that nothing has run since `setupProcessing`. A
second activation without `setupProcessing`, which VST3 allows and the LV2 wrapper always
makes, resumes on the circuit state of the last session. `WetFadesIn` shows that it is
faded in, so what disagrees is the comment's reason.

### Engine

One pot stands for the three, which run the same code side by side. A ramp moves by any
amount that does not pass its target and lands with its last step; what it relies on in
`LinearSmoother` is exactly that. The gate's envelope stands "quiet", "between" or "loud"
against the two thresholds, and its gain is a level, of which 1 is what lies under
`kMuteSnap`. `Process`, `GateSample` and `CircuitSample` are the two loops of a call,
`Prepare`, `Reset` and `SetControls` the calls between them. `recent` and `since` are
history. Observed on the way, and true to the design: the hold freezes the gain where it
is, so that a trigger shorter than the attack leaves the gate partly open for its hold.

### Oversampler

The two stages are polynomials in their coefficients, so that integer samples and small
integer coefficients decide whether the code computes the right one. `ProcessUp`,
`ProcessDown`, `ProcessSamplesUp` and `ProcessSamplesDown` are the code's functions with
their states made explicit; `HalfBand` is the filter `A0(z^2) + A1(z^2) / z` run at the
higher rate from rest over the whole signal. `ResamplesExactly` compares the two over a
signal cut in two blocks anywhere, with something nonlinear between up and down, where
the circuit is. The coefficients themselves, their rounding and the latency are the
numeric tests' matter.

### Circuit

Vectors are abstracted to what the control depends on: the number of the sample or
solve that wrote them (modulo `Stamps`), or `Bad` if an element is not finite. A Newton
step is its size in decades above the tolerance. `std::max(step, NaN)` is `step`, so a
bad iterate may come with any size. What the abstraction takes from the arithmetic: a
limited step is above the tolerance (but for a coincidence of rounding), the matrix of
`updateSystem` is positive definite, so that its failure path is left out, and `Decades <
MaxIterations` as the nine decades between the pedal's largest voltage and the tolerance
are less than the cap of 50. A singular Jacobian, a failed DC solve at any supply step
and iterates that are not finite are all in.

### StateBlob and Lv2Plugin

A blob is a sequence of integers: version, count, values, host bypass. `ReadState`
validates and applies as the code does, for older and newer builds too. On the ports lie
bit patterns, NaN among them, and a port has moved if its bits have. `RunBegin`,
`RunStore(p)` and `RunEnd` are the parameter half of a block; `SaveBegin` and
`SaveLoad(p)` load one atomic at a time, between them. The host writes ports and
restores between blocks, as LV2's threading classes demand, and may save during one.
`alien` names parameters that a load leaves apart from their ports, in the two cases in
which it can: a file whose blob disagrees with its own ports, and a port written between
the load and the next block.

### PresetStore and PresetRegister

Every system call of save, load and remove is an action that may fail; a write takes any
number of the parts that are left; between two calls another process may do anything, a
process may die, the directory may be committed, and a power cut takes it back to what
was committed and keeps of a file only what was fsynced. The register's `shown` is what a
load would find now, `durable` what it would find after a power cut.

### PresetText

A text is the sequence of its lines, and a line what the parser can tell of it: a header
of some version, a pair with a key it knows or not and a value that may be no number, one
it skips, or junk. `Serialise` and `Parse` are the two directions; `LessName` is
`lessName` on sequences of characters. Reading a text from the disk is `PresetStore`'s
matter, which hands on the whole text or nothing.
Observed on the way: a parse that succeeds starts from the defaults for the parameters a
preset carries and from the caller's values for the others, as the comment at
`src/src/presets/presetstore.cpp:162` says, where `src/src/presets/presetstore.h:71` says
"the defaults"; `list` keeps the first 1024 names in the
order of the directory and sorts after that, so that which presets of a larger directory
are shown is the file system's choice; the name field takes a leading '.' or a trailing
blank, which `nameIsSafe` then refuses, against `src/src/ui/presetbar.cpp:279` ("so the
field never shows something Save would then refuse").

### PresetBar, PlugView and BbmView

The bar runs on the UI thread: an operation is a step. Between two steps the knobs move
and other processes change the disk (`World`). `PlugView` gives the pieces of the window:
requests act on the server at once, events wait in `queue` until the host calls
`onFDIsSet`, and the embedder, the host's other windows and the window manager act in
between (`Environment`: these are external, modelled from the X protocol as the code
relies on it). `BbmView` puts the two together: a press is queued and later becomes a
`MouseDown` of the bar. `Follow` is the bar's `keyboardFocus` callback: `beginEdit` and
`endEdit` call it, so it becomes `SetKeyboardFocus` in the steps that open or close the
name field, and in no other. A field that is opened in an unmapped window, or that a
`FocusOut` tells the loss of the keyboard, stays open without it until it is closed; the
host's own `onKeyDown` can still reach it. The round trip of the request is atomic.
`OpenWindow` stands for attaches that succeed; one that fails leaves everything as it
was. The host may refuse either run-loop handler. Left out here: resizing (see
`ViewSize`), pointer positions, `Expose` (one more repaint), the colormap, scrolling and
caret of the bar.
Observed on the way: the tick count is not reset when an embedder unmaps the window, so
that a window which was once mapped by the fallback is mapped again one tick after it was
hidden; a click on the bare face that abandons the name field or disarms Delete does not
ask for a repaint; an armed Delete stays armed while the editor is closed; the window
selects property changes from birth and then sets `_XEMBED_INFO` itself, so that its own
`PropertyNotify` maps it at the first drain, before an embedder or the ticks, to which
`src/src/platform/x11plugview.cpp:290` leaves that.

### ViewSize and Lv2Ui

`ViewSize` is the window and its followers. A size reaches the view in two ways: `OnSize`,
a call of the host's, which `constrain`s it and resizes the window; and a
`ConfigureNotify` after the host, or suil between the two, has resized the window behind
the view's back. The second kind waits in `configures` and may be older than what
`onSize` has set since. `frame` is what the window shows, with the size and the layout it was drawn
for; a resize from outside leaves it `Blank` until the view repaints. Allocation of the
offscreen buffer may fail, after which the old one is kept (`starved`).

`Lv2Ui` puts that under a host, which is chosen in the initial state. The VST3 host
attaches, says sizes, resizes behind the view's back and runs the timer. The LV2 host
instantiates and cleans up, and calls `idle()`, which is `Idle` (the event handler is
called), any number of `DrainConfigure` and `UserEdits` (what the X events hold), and
`PumpEnds`, which ticks if `due` is 0 or less. Time is `Waits`: `due` counts down to
`-MaxLate`. An edit is written to a port (`toHost`), the host applies it when it likes and
reports every port that changes (`toUi`), its own automation included. The user may edit
while reports are queued, and automation may cross writes.

`PanelShowsPorts` is the agreement of controller and ports once both queues are empty. It
rests on what the file's header says of the host (`src/src/lv2/bbm_lv2_ui.cpp:18`), that
it reports every port change, here taken to include the UI's own writes. Of a host that does not echo them it does not hold: automation that was reported
before an edit and is read after it then leaves the panel stale.

Observed on the way: `constrain` is not idempotent. Of the offers that decide it, some two
hundred are answered with a size which `onSize` changes again by one pixel (300x402 is
answered with 254x402, and of that `onSize` makes 254x401); one more time, and it stays.
`src/src/platform/x11plugview.h:136` speaks of one rule for both. An offer
smaller than the minimum scale is answered with the minimum, which does not "fit what the
host offered" (`src/src/ui/bbmview.cpp:55`). When `onSize` comes with the size the view
already has while a resize behind its back is still queued, the view follows the window
and not `onSize`. `resizeView` and `resizeTo` have no caller. Of the LV2 UI's failures,
`Instantiate` has those that leave nothing behind (it does not happen).

### EditGestures

Every handler of `bbmview.cpp` that edits a parameter, with the controller it edits
through, on the one UI thread. A parameter has three copies: the controller's `value`, the
`mNorm` of each editor, and what the host has `heard`. `Edit` is the pair
`setParamNormalized`, `performEdit`; `EditParam` is an edit that is a gesture of its own
(footswitch, wheel, each knob of a preset), and a drag begins its gesture in `PressKnob`,
edits in `Move` and ends it in `Release`, in the next press or in `Remove`. Releases may be
lost, the host may set any parameter or load a state at any time, and may open a second
editor before it closes the first. Values count in steps of a fine drag, so that a drag
without Shift moves `Factor` of them per unit of height. `latest`, `lastY`
and `disturbed` are history, for the properties to speak of one drag from event to event.
`BbmView` leaves these edits to `World` and this module leaves the bar's modes to
`BbmView`; they meet in `ApplyPreset`.
Left out: resizing, which changes the scale under a drag that goes on.
Observed on the way: after a lost release, a click on the footswitch or a preset picked
nests whole gestures in the open one, also one of the dragged knob itself; of two
editors, the one opened first is no longer told of changes, not even after the
second is closed.

### XErrorHandler

Each bundle has its own copy of the globals; Xlib has one pointer. Editors open and close
on one thread, so that `registerDisplay` and `unregisterDisplay` are steps. Another
library may install a chaining handler once, at any time. `Answers(o)` follows an error of
owner `o` down the chain. Its specification is `HandlerSpec`. `ErrorsReachTheirOwner` speaks of whole chains: a bundle unloaded
while its handler is still installed (finding 2) cuts off what lies below it.

## The runs

| Run | Module, cfg | Shows | States |
|---|---|---|---|
| `processor` | `MCProcessor`, `Processor.cfg` | exact delay; fades that do not step, hide a skipped circuit's memory, and end | 547,000 |
| `engine` | `MCEngine`, `Engine.cfg` | pots reach the circuit within the interval and exactly; the gate holds and mutes; blocks join into the half-band filters | 92,000 |
| `circuit` | `MCCircuit`, `Circuit.cfg` | finite state of one sample, fresh inverses, derived matrices, every call returns | 227,000 |
| `lv2_plugin` | `MCLv2Plugin`, `Lv2Plugin.cfg` | panel and sound agree; blobs are applied whole | 607,000 |
| `preset_store` | `MCPresetStore`, `PresetStore.cfg` | atomic durable register with one saving process; texts applied whole, names totally ordered | 930,000 |
| `preset_two_savers` | `MCPresetStore`, `PresetTwoSavers.cfg` | finding 1 | |
| `bbm_view` | `MCBbmView`, `BbmView.cfg` | modes, focus, Delete, names; map state, focus and painting follow the server; the keyboard is taken only by opening the field | 518,000 |
| `bbm_focus` | `MCBbmView`, `BbmFocus.cfg` | finding 3 | |
| `lv2_ui` | `MCLv2Ui`, `Lv2Ui.cfg` | the window fits and shows the host's values; sizes settle; ticks are spaced and come | 360,000 |
| `edit_gestures` | `MCEditGestures`, `EditGestures.cfg` | host, controller and editor agree, gestures are drags, no knob jumps | 602,000 |
| `xerror_handler` | `MCXErrorHandler`, `XErrorHandler.cfg` | errors reach their owner | 3,200 |
| `xerror_unload` | `MCXErrorHandler`, `XErrorUnload.cfg` | finding 2 | |

Every property of a passing run has a mutant in `PROJECT.json`: a plausible bug in a
definition (a dropped clamp, a missing reset, a swapped order) under which TLC finds that
property violated. The mutated forms stand next to the originals, marked "Mutant:".

### The bounds

* `Processor`: a ring of 2, chunks of at most 2, calls of 0 or 3 samples: the cursor wraps
  inside a chunk, at its end and across calls, and a call has two chunks of different
  size. Both channel counts on both sides. `Full = 5` with steps of 2: neither fade divides its
  range, as 1/384 per sample does not in floating point. `Horizon = 1` is the tightest
  case of `WetFadesIn`; the theorem has it for every horizon.
* `Engine`: ramps of 3 samples against an interval of 3 in calls of 2 oversampled samples:
  updates fall before, in and after a ramp and across calls.
* `Oversampler`: one or two sections in a cascade, coefficients that differ between the
  cascades, every signal of three samples of 0 and 1 cut at every place. The output is a
  polynomial in the samples, of degree two with `Work` a square: values 0 and 1 separate
  what a block remembers of each sample, of each pair of samples, and of none.
* `Circuit`: four decades and a cap of five iterations, so that every chord that spends
  its decades can still converge; two supply steps of two iterations.
* `Lv2Plugin`: one control and the host bypass, on which NaN, 0 (what `mLast` starts as)
  and a value out of range may lie; the range and NaN share their normalised value, so
  equal sounds under unequal bits happen.
* `PresetStore`: two processes, two sounds in two parts, three files: one for the preset,
  one for its predecessor still open in a reader or named by the committed directory, one
  for the temp file; an open fails for want of space too.
* `PresetText`: three parameters of which two are carried, values in and out of range,
  every text of up to three lines; names of up to three characters of both cases, a
  digit's neighbours, blank and dot, so that every rule of `nameIsSafe` and every branch
  of `lessName` decides.
* `BbmView`: two presets and sounds, an arm of two ticks, a fallback after two, two host
  windows one of which may vanish, two queued events and what hiding adds to them: the
  findings need no more, and the theorems lift every one of these bounds.
* `EditGestures`: two editors, two knobs and the footswitch; values in `0..2`, a pointer
  that moves by one unit and a `Factor` of two, so that every drag can run into both ends
  of the range, with and without Shift; presets and states of one value each. Editors and
  knobs are symmetric. The theorems lift every one of these bounds.
* `Lv2Ui`: one footswitch and the host bypass, out of range and NaN by automation; a tick
  every two units of time, late by at most one; the panel's real size 500x790, with the
  sizes 500x790 (the default), 254x402 (moved by a pixel) and 300x402 (not kept) said and
  done by hosts; two messages or events under way in all. With three under way and the
  same rest the graph has 2.0 million states and shows the same; two already let an
  edit cross automation, and an `onSize` a `ConfigureNotify`. `SizesSettle` tries
  every width and every height on which `constrain` may decide.
* `XErrorHandler`: three bundles, so that one can be in the middle of the chain, two editors
  each, one library. Deadlock is not checked
  there, because once every bundle is unloaded nothing is left to happen.

Presets and sounds are symmetric in the safety runs of store and bar: they are only stored
and compared. No symmetry is used with liveness.

### The fairness

Liveness is checked of `Processor` (`EngineGoesIdle`), `Engine` (`KnobsSettle`,
`GateMutes`), `Circuit` (`Returns`) and `Lv2Ui` (`Repaints`). Assumed is weak fairness of the steps inside a
call (`BeginChunk`, `ProcessSample`, `GateSample`, `CircuitSample`, `DcIterate`, `Iterate`,
`Finish`), which is the audio thread running on, and of `process()` being called while the
plug-in is active, which is what a host does with an active plug-in: the properties are about "once X stays so". No
fairness is assumed of parameter changes, activation, or anything of the host's.
For `Repaints` it is what LV2 says of `ui:idleInterface` (`src/src/lv2/bbm_lv2_ui.cpp:13`):
`idle()` is called at least 30 times a second and returns, and time passes; under VST3,
that the host runs the timer it accepted. Nothing is assumed of port events, edits or
resizes. Everything else is safety.

## What is proved

Eight modules of theorems, each for every value of the constants that the module's `ASSUME`
allows. Every safety property that a run checks is a theorem; the findings' three
properties, which are false, are not.

* `ProcessorProofs`: `TypeCorrect`, `WetAlwaysFadesIn`, `GainNeverJumps`,
  `DryPathIsDelayed`. `WetFadesIn` is inductive only together with `IdleIsSilent` (an idle
  circuit is skipped in a chunk whose switch target and mix are both 0) and with what
  `ControlOK` says of the loop counters and targets. `GainNeverJumps` needs that `gain` is
  the product of the two fades also between samples (`GainIsOfFades`); a product of two
  numbers of which each moves by a step moves by no more than a step of both.
  `DryPathIsDelayed` is a step simulation: a turn of the sample loop is a `Push` of the
  abstract line, because the slot read forwards from the cursor moves by one.
* `EngineProofs`: `TypeCorrect`, `EngineStartsAtRest`, `KnobsLagBounded`, `RampsLand`,
  `GateHoldsAlways`. `UpdateOK` says which of the recent pot positions the circuit has
  by the value of the countdown; `HoldOK`, that hold counter and samples since the trigger
  always add up to the hold. `EngineResamples` is about the oversampler, below.
* `CircuitProofs`: `TypeCorrect`, `AlwaysFinite`, `StateIsOfOneSample`,
  `ChordUsesFreshInverse`, `GivesUpFresh`, `ReadyCircuitIsDerived`. The heart is
  `ChordBudget`: while the Jacobian is kept, the size of the last step and the iterations
  done never exceed the decades, hence never the cap. `InverseOK`, `PredictorOK` and
  `SettledOK` carry the rest.
* `Lv2PluginProofs`: `TypeCorrect`, `PanelStaysSound`, `LoadedValuesStay`,
  `RestoresWhole`, `QuietPresetAgrees`. They rest on lemmas about the blob (`RoundTrip`,
  `DamagedIsUnreadable`, `FewerKeepsDefaults`, `MoreIsKnown`), for any number of
  parameters, and on an invariant that follows a value from port to point to atomic
  (`PortsOK`, `PointsOK`, `ValuesOK`) and through a save (`SaveOK`, `BlobOK`).
* `PresetStoreProofs`, the store: `TypeCorrect`, and with one saving process
  `LoadsAreWhole`, `StoreImplementsRegister`, `SavesAreTrue`, for any number of processes
  that load and remove, of files and of parts. `OneSaver` is a hypothesis and not an
  assumption of the module, because finding 1 shows that without it they are false. The
  invariant has two parts. `StoredWhole`: what the preset's entry names, in memory and on
  the disk, is a whole text that has been fsynced. `Knows(p)`: what a process in the
  middle of an operation may rely on, call by call; a saver, that the file it writes is
  the temp entry's alone, and after its fsync that the file is whole; a loader, that its
  file is. The refinement maps a rename or an unlink to the register's step and every
  other call to a stutter; a power cut falls back on what the directory had committed.
* `PresetStoreProofs`, the texts: `ParseIsWhole` for a text of any lines and length and
  `LessNameOrders` for any names; from them `TextsStayWhole` and `NamesStayOrdered`, which
  also say that what `Serialise` writes is read back. `lessName` is shown transitive by the
  first places at which three names part, with and without case.
* `BbmViewProofs`, the bar: `TypeCorrect`, `ModesExclude`, `DeleteIsConfirmed`,
  `NameIsTrue`. The strengthening is `ArmedForTheBox`: while Delete is
  armed the box shows the name it was armed for.
* `BbmViewProofs`, the view: `ViewImplementsBar` (every run of the view is one of the
  bar's, which lifts the four theorems above to the editor), `ViewTypeCorrect`,
  `FocusFollowed`, `MappingKnown`, `NeverBlank`, for a queue of any length. The focus needs
  the bar's invariant before a step as well as after it, since the request depends on
  whether the field opens or closes. `MappedIsKnown`
  speaks of an empty queue only; the inductive `MapFollowed` says that the last word on the
  mapping is still queued and true, or `mMapped` is.
* `EditGesturesProofs`: `TypeCorrect`, `CopiesAlwaysAgree`, `GesturesAlwaysDrags`,
  `KnobsNeverJump`, for any number of editors, which only have to be finitely many for the
  drags to be counted. The strengthening is `Known`, that the controller forwards to the
  editor opened last, and `AtTarget`: unless something else has set it, the dragged knob
  is where the drag puts it for the pointer's last height. From it `KnobsNeverJump` is
  the monotony of a clamped linear function.
* `WindowProofs`, the window: `WindowFits`, `PanelIsTrue`, `TicksSpaced`,
  `SizesAlwaysSettle`. `FrameFits` and `PanelShowsPorts` speak of empty queues; inductive
  is what holds of any: the newest configuration the view was told of is the window's
  (`KnowsNewest`), and the window shows the panel unless a repaint is due or an event
  under way will make it due (`ShowsPanel`); the newest event about a port carries its
  value (`NewestIsTrue`), and the panel agrees on every port that no message under way
  mentions (`Settled`). `ClockInv` ties
  the time since the last tick to `due`. `SizesAlwaysSettle` is arithmetic: a size that
  follows its width is kept, because the height has more pixels than the width, and one
  that follows its height moves by one pixel and then follows its width, because it has
  fewer than twice as many; `AspectAssumption` says what of `kWidth` and `kHeight` that
  takes. It is a statement about rounding half up; of the doubles' one tie see `Rounded`.
* `WindowProofs`, the error handler: `HandlerTypeCorrect`, `ErrorsAreOwned`, for any number
  of bundles and editors. The invariant `Chained` is that the installed handlers form one
  chain without a repetition, from Xlib's pointer down to its own handler: a bundle that
  opens its first editor is put on top unless it is in the chain already, and one that
  leaves does so from the top. Hence an error takes at most as many hops as there are
  handlers, and stops where it belongs.

The oversampler. `ResampledInTwo` is for any tables of coefficients and any integer signal.
The reference runs over the whole signal at the higher rate and the code over blocks at the
lower one, so both are compared with a third thing: a run of each cascade over all its
inputs (`Through`), of which the code's state at any moment is a place (`OversamplerAt`,
after so many samples up and so many pairs down). `UpIs` and `DownIs` say that such runs
compute the half-band filter: of a signal with zeros in between, the even samples come out
of the one cascade alone and the odd ones of the other. `BlockUp` and `BlockDown` move the
place along by a block, in any order of the two directions, whence a block is as good as the whole.

Recursive functions. Induction theorems that take an operator cannot be used with the
provers at hand, but induction over a set can: a set of numbers that is not empty has a
least element (`LeastNumber`, from the well-foundedness of `<`), hence a set that holds the
first number, and the next of any it holds, holds all (`UpTo`), and a function that a
step defines exists (`Recursion`). The texts, the oversampler and the handlers' chain rest
on that. The lemmas are stated again in each module that needs them, so that it can be read and
checked alone.

The properties `TextsAreWhole`, `NamesAreOrdered` and `ResamplesExactly` are about pure
functions: in the runs TLC evaluates them over the bounded inputs, and their theorems
follow, whatever the state, from those about any input.

Only model-checked: liveness (`EngineGoesIdle`, `KnobsSettle`, `GateMutes`, `Returns`,
`Repaints`), which is out of the prover's reach.

What the proofs asked of the models: that automation is an integer or not a number and that
sizes are pairs of numbers (`UiAssumption`), that a text has room for a header and a line
more than there are parameters (`TextAssumption`), and the aspect of the window
(`AspectAssumption`). All are evaluated by TLC in the runs.

## Findings

1. `preset_two_savers`: all saves of a name share one temp file. Two processes that save it
   at once, one of them interrupted, can leave the preset half written, which
   `src/src/presets/presetstore.cpp:293` excludes.
2. `xerror_unload`: a bundle whose handler is not on top when its last display closes stays
   in the chain, and can be put back on top after it was unloaded, which
   `src/src/platform/x11plugview.cpp:120` says is what the code avoids.
3. `bbm_focus`: every `FocusOut` clears `mKeyFocus`. One that comes with a key grab, which
   does not move the focus, makes the view forget that it has it: the closed name field
   keeps the keyboard, against `src/src/platform/x11plugview.h:144`.

## What is not modelled

* Numbers: matrices, device curves, filter coefficients, rounding. The repository's
  numeric tests cover them, and TLC could not.
* Drawing, PNG decoding and fonts (`src/src/gfx`), registration, denormal mode, checked
  indexing: pure output, or no state.
* Developer tools, tests and packaging: not part of the running plug-in.
* The processor's continuous controls and bus negotiation, the plug-in's `activate` and
  `deactivate` (which only forward), scrolling, hover and caret of the preset bar, hit tests.

## Plan

Done, in the order of importance to a player: the audio path (`Processor`, `Circuit`,
`Engine`), what a session restores (`StateBlob`, `Lv2Plugin`), the user's files
(`PresetStore`), the editor's hazards to the host (`XErrorHandler`, `PlugView`,
`BbmView`), and its edits (`EditGestures`).

Then resizing and the LV2 user interface (`ViewSize`, `Lv2Ui`), the oversampler and the
preset texts.

The proofs of every safety property, `SizesSettle` and `ErrorsReachTheirOwner` included,
are done.

Next: what the liveness properties rest on can be stated as safety and proved, a measure
that every step of a loop lowers (`Circuit`'s iterations, `Engine`'s ramp and gate,
`Processor`'s fades); the oversampler for a signal cut into any number of blocks, for which
`BlockUp` and `BlockDown` are the induction step; and what of the findings' properties is
left when their cause is excluded: that without unloading the handler is always mapped, and
that without key grabs the keyboard is held for the field only.
