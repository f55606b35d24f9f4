----------------------------- MODULE Lv2Plugin -----------------------------
(***************************************************************************)
(* The LV2 plug-in's parameters (src/src/lv2/bbm_lv2.cpp): control ports   *)
(* that carry plain values and are compared by their bits, the processor's *)
(* normalised values behind them, and save and restore of the state blob.  *)
(*                                                                         *)
(* The host writes ports and restores between blocks, as LV2's threading   *)
(* classes ask; save may be called during run, and reads the processor's   *)
(* atomics one by one while run stores them one by one. A preset is what a *)
(* host keeps: the values of the ports and, next to them, the blob.        *)
(* activate and deactivate forward to the processor (module Processor).    *)
(***************************************************************************)
EXTENDS StateBlob

CONSTANTS Bits,          \* bit patterns of a float on a port, NaN among them
          Unconnected

ASSUME Lv2Assumption ==
  /\ NaN \in Bits /\ 0 \in Bits /\ Bits \ {NaN} \subseteq Int
  /\ Unconnected \notin Bits

NoPoint == -1

VARIABLES
  port,          \* what each port points at: a parameter's control, or lv2:enabled
  mLast, mSeen,  \* the last bits seen on a port, and whether any were
  mNorm,         \* the processor's values: mNorm, and mHostBypass at HostBypass
  pc,            \* the audio thread is "out" of run or "run"ning
  changes,       \* the points of this block that are not yet stored
  saving,        \* the parameters getState has still to load, while a save runs
  draft,         \* what it has loaded
  preset,        \* what the host keeps: [port, blob, quiet]
  loading,       \* after a restore: the file's kind, until the preset's "ports" are
                 \* written, and "ports" until a block has run
  pending,       \* history: ports written since the last block
  alien,         \* history: parameters a load left apart from their ports
  quiet          \* history: nothing was moving while this save ran

vars == <<port, mLast, mSeen, mNorm, pc, changes, saving, draft, preset, loading,
          pending, alien, quiet>>

NormOf(p, v) == IF p = HostBypass THEN BypassFromEnabled(v) ELSE ToNorm(p, v)
Connected(p) == port[p] # Unconnected

Init ==
  /\ port = [p \in Params |-> Unconnected]
  /\ mLast = [p \in Params |-> 0] /\ mSeen = [p \in Params |-> FALSE]
  /\ mNorm = DefaultState
  /\ pc = "out" /\ changes = [p \in Params |-> NoPoint]
  /\ saving = {} /\ draft = DefaultState
  /\ preset = [port |-> [p \in Params |-> Unconnected], blob |-> <<>>, quiet |-> FALSE]
  /\ loading = "no"
  /\ pending = {} /\ alien = {} /\ quiet = FALSE

-----------------------------------------------------------------------------
\* A file was restored, and its ports are still to be written.
Restored == loading \notin {"no", "ports"}

\* The host connects a port or moves its control: one is as the other to the plug-in.
\* Moved between a load and the next block, a port may be back at the bits the last
\* block saw, and the loaded value stays under it.
WritePort(p, v) ==
  /\ pc = "out" /\ ~Restored
  /\ port' = [port EXCEPT ![p] = v]
  /\ pending' = pending \cup {p}
  /\ alien' = IF loading = "ports" THEN alien \cup {p} ELSE alien
  /\ quiet' = FALSE
  /\ UNCHANGED <<mLast, mSeen, mNorm, pc, changes, saving, draft, preset, loading>>

\* Mutant: the first block looks only for changes.
MovedUnseen(p) == Connected(p) /\ mLast[p] # port[p]
\* Mutant: compared as floats, where a NaN differs from itself.
MovedAsFloats(p) ==
  Connected(p) /\ (~mSeen[p] \/ mLast[p] # port[p] \/ port[p] = NaN)

\* A port counts as moved when its bits change, and when it was never seen.
Moved(p) == Connected(p) /\ (~mSeen[p] \/ mLast[p] # port[p])

\* The first half of run: a point for every port that moved. A call without frames or
\* without audio ports returns before it looks at anything.
RunBegin ==
  /\ pc = "out"
  /\ changes' = [p \in Params |-> IF Moved(p) THEN NormOf(p, port[p]) ELSE NoPoint]
  /\ mLast' = [p \in Params |-> IF Moved(p) THEN port[p] ELSE mLast[p]]
  /\ mSeen' = [p \in Params |-> mSeen[p] \/ Moved(p)]
  /\ pc' = "run"
  /\ UNCHANGED <<port, mNorm, saving, draft, preset, loading, pending, alien, quiet>>

\* Processor::handleParameterChanges stores one point.
RunStore(p) ==
  /\ pc = "run"
  /\ changes[p] # NoPoint
  /\ \A q \in Params : changes[q] # NoPoint => p <= q
  /\ mNorm' = [mNorm EXCEPT ![p] = ClampNorm(changes[p])]
  /\ changes' = [changes EXCEPT ![p] = NoPoint]
  /\ alien' = alien \ {p}
  /\ UNCHANGED <<port, mLast, mSeen, pc, saving, draft, preset, loading, pending, quiet>>

\* The block is processed with the values that are stored.
RunEnd ==
  /\ pc = "run"
  /\ \A p \in Params : changes[p] = NoPoint
  /\ pc' = "out"
  /\ pending' = {}
  /\ loading' = IF loading = "ports" THEN "no" ELSE loading
  /\ UNCHANGED <<port, mLast, mSeen, mNorm, changes, saving, draft, preset, alien, quiet>>

-----------------------------------------------------------------------------
\* The host saves: it keeps the ports and calls save, during a block or not.
SaveBegin ==
  /\ saving = {} /\ ~Restored
  /\ saving' = Params
  /\ preset' = [port |-> port, blob |-> <<>>, quiet |-> FALSE]
  /\ quiet' = (pc = "out" /\ pending = {} /\ alien = {})
  /\ UNCHANGED <<port, mLast, mSeen, mNorm, pc, changes, draft, loading, pending, alien>>

\* getState loads one parameter; the last one loaded, the blob is written and stored.
SaveLoad(p) ==
  /\ p \in saving
  /\ \A q \in saving : p <= q
  /\ saving' = saving \ {p}
  /\ draft' = [draft EXCEPT ![p] = mNorm[p]]
  /\ preset' = IF saving' = {}
               THEN [preset EXCEPT !.blob = WriteState(draft'), !.quiet = quiet]
               ELSE preset
  /\ UNCHANGED <<port, mLast, mSeen, mNorm, pc, changes, loading, pending, alien, quiet>>

\* What a session or preset file may hold in place of the blob b: a part of it, a value
\* that is not finite, the version of a later build, or no property at all.
Damaged(b) ==
  {SubSeq(b, 1, n) : n \in 0..Len(b) - 1}
    \cup {[b EXCEPT ![i] = NaN] : i \in 3..Len(b)}
    \cup {<<StateVersion + 1>> \o Tail(b)}
    \cup {<<StateVersion, MaxStateValues + 1>> \o SubSeq(b, 3, Len(b))}

\* The same sound, saved by a build without the last parameter, or by one with one more.
Fewer(b) ==
  <<StateVersion, NParams - 1>> \o (SubSeq(b, 3, NParams + 1) \o <<b[NParams + 3]>>)
More(b) ==
  <<StateVersion, NParams + 1>> \o (SubSeq(b, 3, NParams + 2) \o <<Top, b[NParams + 3]>>)

\* A port that the preset does not hold stays as it is.
PresetPort(p) == IF preset.port[p] = Unconnected THEN port[p] ELSE preset.port[p]

Agrees(p) == PresetPort(p) = Unconnected \/ mNorm'[p] = NormOf(p, PresetPort(p))

\* Restore, a call of the instantiation class: no run and no save goes on.
Restore(b, kind) ==
  /\ pc = "out" /\ saving = {} /\ ~Restored
  /\ mNorm' = ReadState(b, mNorm)
  /\ alien' = IF kind = "damaged" THEN alien ELSE {p \in Params : ~Agrees(p)}
  /\ loading' = kind
  /\ UNCHANGED <<port, mLast, mSeen, pc, changes, saving, draft, preset, pending, quiet>>

RestoreSome ==
  /\ preset.blob # <<>>
  /\ \/ Restore(preset.blob, "intact")
     \/ \E b \in Damaged(preset.blob) : Restore(b, "damaged")
     \/ Restore(Fewer(preset.blob), "fewer")
     \/ Restore(More(preset.blob), "more")

\* The host then writes the preset's ports, whatever restore returned. It may have run
\* blocks in between.
LoadPorts ==
  /\ pc = "out" /\ Restored
  /\ port' = [p \in Params |-> PresetPort(p)]
  /\ pending' = pending \cup {p \in Params : preset.port[p] # Unconnected}
  /\ loading' = "ports"
  /\ UNCHANGED <<mLast, mSeen, mNorm, pc, changes, saving, draft, preset, alien, quiet>>

-----------------------------------------------------------------------------
Next ==
  \/ \E p \in Params, v \in Bits : WritePort(p, v)
  \/ RunBegin \/ RunEnd
  \/ \E p \in Params : RunStore(p) \/ SaveLoad(p)
  \/ SaveBegin \/ RestoreSome \/ LoadPorts

Spec == Init /\ [][Next]_vars

-----------------------------------------------------------------------------
PortValue == Bits \cup {Unconnected}

\* The plug-in, the processor's values and the host's preset keep their types: every
\* value stored is a normalised one, whatever lies on a port or in a file.
TypeOK ==
  /\ port \in [Params -> PortValue]
  /\ mLast \in [Params -> Bits] /\ mSeen \in [Params -> BOOLEAN]
  /\ mNorm \in [Params -> Norm]
  /\ pc \in {"out", "run"}
  /\ changes \in [Params -> Norm \cup {NoPoint}]
  /\ saving \subseteq Params /\ draft \in [Params -> Norm]
  /\ preset \in [port : [Params -> PortValue], blob : Seq(Int), quiet : BOOLEAN]
  /\ loading \in {"no", "ports", "intact", "fewer", "more", "damaged"}
  /\ pending \subseteq Params /\ alien \subseteq Params /\ quiet \in BOOLEAN

\* What a panel that shows the ports shows is what is heard, once a block has run since
\* the ports were written: from the first block on, through NaNs, and through presets
\* that are loaded into a running instance. Two loads leave a parameter apart until its
\* port moves: of a file whose blob disagrees with its own ports, and one after which
\* the port was written again before a block saw it.
PanelIsSound ==
  pc = "out" /\ ~Restored =>
    \A p \in Params : Connected(p) /\ p \notin pending \cup alien =>
      mNorm[p] = NormOf(p, port[p])

\* A preset saved while nothing was moving is one whose blob and ports agree, so that
\* loading it, with PanelIsSound, sounds as it looks.
PresetAgrees ==
  preset.quiet =>
    /\ Readable(preset.blob)
    /\ \A p \in Params : preset.port[p] # Unconnected =>
         StateOf(preset.blob)[p] = NormOf(p, preset.port[p])

\* A block never takes a restored value back through a port that nobody wrote: a NaN
\* parked on a port is pushed once.
LoadedStays ==
  [][\A p \in Params : pc = "run" /\ mNorm'[p] # mNorm[p] => p \in pending]_vars

\* "A malformed blob applies NOTHING": a cut, non-finite or future blob changes no
\* value. One of fewer parameters leaves the rest at their defaults, one of more is
\* taken for the part that is known: the host bypass is found behind the values.
RestoreIsWhole ==
  [][~Restored /\ Restored' =>
       CASE loading' = "damaged" -> mNorm' = mNorm
         [] loading' = "fewer" -> mNorm' = [draft EXCEPT ![NParams - 1] = Def[NParams - 1]]
         [] OTHER -> mNorm' = draft]_vars
=============================================================================
