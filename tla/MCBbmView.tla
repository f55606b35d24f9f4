----------------------------- MODULE MCBbmView -----------------------------
(* Two presets, two sounds, a Delete that stays armed for two ticks, two     *)
(* windows of the host, one of which may go away, up to three queued events. *)
EXTENDS BbmView, TLC

CONSTANTS n1, n2, s1, s2, h1, h2
MCName   == {n1, n2}
MCSound  == {s1, s2}
MCHolder == {h1, h2}
MCMortal == {h2}
MCNone   == {}
\* Names and sounds are only stored and compared.
MCSymmetry == Permutations(MCName) \cup Permutations(MCSound)
=============================================================================
