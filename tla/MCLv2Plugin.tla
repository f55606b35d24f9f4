---------------------------- MODULE MCLv2Plugin ----------------------------
(* One control and the host bypass. A port may carry NaN, the zero that the *)
(* plug-in's memory of it starts with, or a value above the range, which    *)
(* shares its normalised value with NaN.                                    *)
EXTENDS Lv2Plugin

MCDef == [p \in 0..NParams-1 |-> 1]
MCBits == {NaN, 0, 2}
=============================================================================
