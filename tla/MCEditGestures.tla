--------------------------- MODULE MCEditGestures ---------------------------
(* Two editors, two knobs and the footswitch, values in two steps, presets  *)
(* and states of one value each, a pointer that moves by one unit of height. *)
EXTENDS EditGestures, TLC

CONSTANTS v1, v2, k1, k2
MCView  == {v1, v2}
MCKnob  == {k1, k2}
MCParam == MCKnob \cup {Switch}
MCPreset == {[k \in MCKnob |-> n] : n \in 0..2}
MCState  == {[p \in MCParam |-> n] : n \in 0..2}
\* Editors and knobs are only stored and compared.
MCSymmetry == Permutations(MCView) \cup Permutations(MCKnob)
=============================================================================
