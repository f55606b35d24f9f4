------------------------------- MODULE Presets -------------------------------
(* The preset store with its texts and names: what the text side of          *)
(* src/src/presets/presetstore.cpp owes to the operations that call it.      *)
EXTENDS PresetStore, PresetText

\* A text that a process is about to parse, be it saved or edited by hand, is applied
\* whole or not at all, and what was set before decides only what a preset does not carry
\* (presetstore.cpp 136-206).
TextsAreWhole == \A p \in Proc : pc[p] = "read" => AllTextsWhole

\* As long as there is a preset to list, the order of the list is one std::sort can count
\* on: total, consistent, and deaf to case but between names that differ in nothing else
\* (presetstore.cpp 111-123, 264).
NamesAreOrdered == dir["preset"] # None => AllOrdered
=============================================================================
