---------------------------- MODULE MCPresetStore ----------------------------
(* Two host processes, one of which or both save; two sounds in two parts.  *)
(* With it, texts of up to three lines over two carried parameters of three, *)
(* and names of up to three characters.                                     *)
EXTENDS Presets, TLC

CONSTANTS p1, p2, s1, s2, f1, f2, f3

MCProc  == {p1, p2}
MCOne   == {p1}
MCSound == {s1, s2}
\* Sounds are only stored and compared.
MCSymmetry == Permutations(MCSound)
MCFile  == {f1, f2, f3}
MCDef   == 0 :> 1 @@ 1 :> 0 @@ 2 :> 1
=============================================================================
