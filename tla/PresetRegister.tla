---------------------------- MODULE PresetRegister ----------------------------
(***************************************************************************)
(* What the preset store promises of one preset: a register that holds a   *)
(* whole sound or nothing, replaced in one step and never seen half        *)
(* written, that a power cut takes back to a state it once had.            *)
(***************************************************************************)
CONSTANTS Sound, Absent

VARIABLES
  shown,    \* what a load finds now
  durable   \* what a load would find after a power cut now

vars == <<shown, durable>>

Init == shown = Absent /\ durable = Absent

Write     == shown' \in Sound /\ UNCHANGED durable
Delete    == shown' = Absent /\ UNCHANGED durable
Persist   == durable' = shown /\ UNCHANGED shown
PowerLoss == shown' = durable /\ UNCHANGED durable

Next == Write \/ Delete \/ Persist \/ PowerLoss

Spec == Init /\ [][Next]_vars
=============================================================================
