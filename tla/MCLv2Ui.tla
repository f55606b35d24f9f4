------------------------------ MODULE MCLv2Ui -------------------------------
(* The footswitch and the host bypass; a default size, a size that constrain moves by a     *)
(* pixel, and one it does not keep at all.                                            *)
EXTENDS Lv2Ui, TLC

MCDef == 0 :> 1
MCSizes == {<<500, 790>>, <<254, 402>>, <<300, 402>>}
MCPlain == {NaN, -1}
=============================================================================
