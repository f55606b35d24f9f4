-------------------------- MODULE PresetStoreProofs --------------------------
(***************************************************************************)
(* Theorems about PresetStore for any processes, sounds, files and number  *)
(* of parts: its types whoever saves, and with one saving process that it  *)
(* implements PresetRegister, that its answers are true and that its loads *)
(* are whole. Then about PresetText, for any table, any text and any name: *)
(* that a text is applied whole or not at all, and that lessName orders.   *)
(***************************************************************************)
EXTENDS Presets, SequenceTheorems, WellFoundedInduction, TLAPS

\* At most one process saves this preset; with two, finding 1 refutes what follows.
OneSaver == \A p, q \in Saver : p = q

\* A file with the whole text of a sound, on the disk.
Whole(f) ==
  /\ f \in File
  /\ text[f].len = Parts /\ text[f].synced /\ text[f].sound \in Sound

\* The preset is whole, now and after a power cut.
StoredWhole ==
  /\ dir["preset"] # None => Whole(dir["preset"])
  /\ disk["preset"] # None => Whole(disk["preset"])

InSave == {"unlink", "open", "write", "sync", "close", "rename", "abort"}

\* The file that p is writing is the temp entry's, and not yet on the disk: no preset and
\* no file being read can be it.
WritesTemp(p) ==
  /\ fd[p] = dir["temp"] /\ fd[p] # None
  /\ ~text[fd[p]].synced /\ text[fd[p]].sound = sound[p]

\* How far the save of p has come: its temp file when it is written, and the failure that
\* it will report when it is not.
Saving(p) ==
  /\ p \in Saver /\ sound[p] \in Sound
  /\ pc[p] = "open" => dir["temp"] = None \/ failed[p]
  /\ pc[p] \in {"write", "sync"} => WritesTemp(p)
  /\ pc[p] = "sync" => text[fd[p]].len = Parts
  /\ pc[p] \in {"close", "rename"} /\ written[p] =>
       Whole(dir["temp"]) /\ text[dir["temp"]].sound = sound[p]
  /\ pc[p] = "close" => written[p] \/ failed[p]
  /\ pc[p] = "rename" => written[p]
  /\ pc[p] = "abort" => failed[p]
  /\ pc[p] \notin {"close", "rename", "abort"} => ~written[p]

\* What is known of process p: nothing is written outside a save, a load holds a whole
\* file, and an operation under way has not answered.
Knows(p) ==
  /\ IF pc[p] \in InSave THEN Saving(p) ELSE ~written[p]
  /\ pc[p] = "read" => Whole(fd[p])
  /\ pc[p] # "idle" => result[p] = "none"
  /\ result[p] # "loaded cut"

IInv == StoredWhole /\ \A p \in Proc : Knows(p)

-----------------------------------------------------------------------------
(* Types *)

Calls == {"idle", "unlink", "open", "write", "sync", "close", "rename", "abort", "read"}
Results == {"none", "saved", "unsaved", "loaded", "loaded cut", "unloaded", "removed"}
FileTexts == [sound : Sound \cup {None}, len : 0..Parts, synced : BOOLEAN]

\* What a process keeps has its type,
ProcTypes ==
  /\ pc \in [Proc -> Calls] /\ fd \in [Proc -> File \cup {None}]
  /\ sound \in [Proc -> Sound \cup {None}] /\ got \in [Proc -> 0..Parts]
  /\ written \in [Proc -> BOOLEAN] /\ failed \in [Proc -> BOOLEAN]
  /\ result \in [Proc -> Results]

\* and so does what the file system does.
FileTypes ==
  /\ dir \in [Entry -> File \cup {None}] /\ disk \in [Entry -> File \cup {None}]
  /\ text \in [File -> FileTexts]

\* A load that reads has opened a file; without it no load could be told how much it reads.
ReadsAFile == \A p \in Proc : pc[p] = "read" => fd[p] \in File

LEMMA TypeParts == TypeOK <=> ProcTypes /\ FileTypes
  BY DEF TypeOK, ProcTypes, FileTypes, Calls, Results, FileTexts

\* Operations that go on, answer or begin keep the types of what they set.
LEMMA GoTypes ==
  ASSUME ProcTypes, NEW p \in Proc, NEW c \in Calls, NEW broke \in BOOLEAN, Go(p, c, broke)
  PROVE  pc' \in [Proc -> Calls] /\ failed' \in [Proc -> BOOLEAN]
  BY DEF Go, ProcTypes

LEMMA ReturnTypes ==
  ASSUME ProcTypes, NEW p \in Proc, NEW r \in Results, NEW broke \in BOOLEAN,
         Return(p, r, broke)
  PROVE  ProcTypes'
  BY StoreAssumption DEF Return, Go, ProcTypes, Calls

LEMMA BeginTypes ==
  ASSUME ProcTypes, NEW p \in Proc, NEW c \in Calls, Begin(p, c)
  PROVE  /\ pc' \in [Proc -> Calls] /\ failed' \in [Proc -> BOOLEAN]
         /\ result' \in [Proc -> Results]
  BY DEF Begin, ProcTypes, Results

\* A step of a save.
LEMMA SaveTypes ==
  ASSUME ProcTypes, FileTypes, NEW p \in Proc, Save(p)
  PROVE  ProcTypes' /\ FileTypes'
<1>1. CASE SaveBegin(p)
  <2>1. FileTypes'
    BY <1>1 DEF SaveBegin, FileTypes
  <2>2. CASE \E s \in Sound : sound' = [sound EXCEPT ![p] = s] /\ Begin(p, "unlink")
                               /\ UNCHANGED <<fd, got, written>>
    BY <2>1, <2>2, BeginTypes DEF ProcTypes, Calls
  <2>3. CASE Return(p, "unsaved", TRUE)
    BY <2>1, <2>3, ReturnTypes DEF Results
  <2>. QED
    BY <1>1, <2>1, <2>2, <2>3 DEF SaveBegin
<1>2. CASE SaveUnlink(p)
  <2>1. FileTypes'
    BY <1>2 DEF SaveUnlink, Unlink, FileTypes
  <2>2. Go(p, "open", FALSE) \/ Go(p, "open", TRUE)
    BY <1>2 DEF SaveUnlink
  <2>3. pc' \in [Proc -> Calls] /\ failed' \in [Proc -> BOOLEAN]
    BY <2>2, GoTypes DEF Calls
  <2>. QED
    BY <1>2, <2>1, <2>3 DEF SaveUnlink, ProcTypes
<1>3. CASE SaveOpen(p)
  <2>1. CASE Return(p, "unsaved", FALSE) \/ Return(p, "unsaved", TRUE)
    <3>1. ProcTypes'
      BY <2>1, ReturnTypes DEF Results
    <3>2. pc'[p] = "idle"
      BY <2>1 DEF Return, Go, ProcTypes
    <3>3. UNCHANGED <<dir, text, disk>>
      BY <1>3, <3>2 DEF SaveOpen, Go, ProcTypes
    <3>. QED
      BY <3>1, <3>3 DEF FileTypes
  <2>2. CASE Free # {} /\ Go(p, "write", FALSE) /\ UNCHANGED <<sound, got, written, result>>
    <3> DEFINE f == CHOOSE g \in Free : TRUE
    <3>1. f \in File
      BY <2>2 DEF Free
    <3>2. pc'[p] = "write"
      BY <2>2 DEF Go, ProcTypes
    <3>3. /\ dir' = [dir EXCEPT !["temp"] = f]
          /\ text' = [g \in File |-> IF g = f THEN [Blank EXCEPT !.sound = sound[p]]
                                    ELSE IF g \in Free THEN Blank ELSE text[g]]
          /\ fd' = [fd EXCEPT ![p] = f]
          /\ UNCHANGED disk
      BY <1>3, <3>2 DEF SaveOpen, Return, Go, ProcTypes
    <3> HIDE DEF f
    <3>4. sound[p] \in Sound \cup {None}
      BY DEF ProcTypes
    <3>5. Blank \in FileTexts /\ [Blank EXCEPT !.sound = sound[p]] \in FileTexts
      <4>1. Blank \in FileTexts
        BY StoreAssumption DEF Blank, FileTexts
      <4>2. \A t \in FileTexts, s \in Sound \cup {None} : [t EXCEPT !.sound = s] \in FileTexts
        BY DEF FileTexts
      <4>. QED
        BY <3>4, <4>1, <4>2
    <3>6. text' \in [File -> FileTexts]
      BY <3>3, <3>5 DEF FileTypes
    <3>7. dir' \in [Entry -> File \cup {None}] /\ fd' \in [Proc -> File \cup {None}]
      BY <3>1, <3>3 DEF FileTypes, ProcTypes
    <3>8. pc' \in [Proc -> Calls] /\ failed' \in [Proc -> BOOLEAN]
      BY <2>2, GoTypes DEF Calls
    <3>. QED
      BY <2>2, <3>3, <3>6, <3>7, <3>8 DEF FileTypes, ProcTypes
  <2>. QED
    BY <1>3, <2>1, <2>2 DEF SaveOpen
<1>4. CASE SaveWrite(p)
  <2>1. UNCHANGED <<dir, disk, fd, sound, got, written, result>>
    BY <1>4 DEF SaveWrite
  <2>2. \E c \in Calls, broke \in BOOLEAN : Go(p, c, broke)
    BY <1>4 DEF SaveWrite, Calls
  <2>3. text' \in [File -> FileTexts]
    <3>1. CASE UNCHANGED text
      BY <3>1 DEF FileTypes
    <3>2. ASSUME NEW k \in text[fd[p]].len + 1 .. Parts, text' = [text EXCEPT ![fd[p]].len = k]
          PROVE  text' \in [File -> FileTexts]
      <4>1. CASE fd[p] \in File
        <5>1. text[fd[p]] \in FileTexts
          BY <4>1 DEF FileTypes
        <5>2. k \in 0..Parts
          BY <5>1, <3>2, StoreAssumption DEF FileTexts
        <5>3. [text[fd[p]] EXCEPT !.len = k] \in FileTexts
          BY <5>1, <5>2 DEF FileTexts
        <5>. QED
          BY <3>2, <5>3 DEF FileTypes
      <4>2. CASE fd[p] \notin File
        BY <3>2, <4>2 DEF FileTypes
      <4>. QED
        BY <4>1, <4>2
    <3>. QED
      BY <1>4, <3>1, <3>2 DEF SaveWrite
  <2>4. pc' \in [Proc -> Calls] /\ failed' \in [Proc -> BOOLEAN]
    BY <2>2, GoTypes
  <2>. QED
    BY <2>1, <2>3, <2>4 DEF FileTypes, ProcTypes
<1>5. CASE SaveSync(p)
  <2>1. UNCHANGED <<dir, disk, fd, sound, got, result>>
    BY <1>5 DEF SaveSync
  <2>2. Go(p, "close", FALSE) \/ Go(p, "close", TRUE)
    BY <1>5 DEF SaveSync
  <2>3. text' \in [File -> FileTexts]
    <3>1. CASE text' = [text EXCEPT ![fd[p]].synced = TRUE]
      <4>1. \A t \in FileTexts : [t EXCEPT !.synced = TRUE] \in FileTexts
        BY DEF FileTexts
      <4>. QED
        BY <3>1, <4>1 DEF FileTypes
    <3>. QED
      BY <1>5, <3>1 DEF SaveSync, FileTypes
  <2>4. written' \in [Proc -> BOOLEAN]
    BY <1>5 DEF SaveSync, ProcTypes
  <2>5. pc' \in [Proc -> Calls] /\ failed' \in [Proc -> BOOLEAN]
    BY <2>2, GoTypes DEF Calls
  <2>. QED
    BY <2>1, <2>3, <2>4, <2>5 DEF FileTypes, ProcTypes
<1>6. CASE SaveClose(p)
  <2>1. UNCHANGED <<dir, disk, text, sound, got, written, result>>
    BY <1>6 DEF SaveClose
  <2>2. \E c \in Calls, broke \in BOOLEAN : Go(p, c, broke)
    BY <1>6 DEF SaveClose, Calls
  <2>3. fd' \in [Proc -> File \cup {None}]
    BY <1>6 DEF SaveClose, ProcTypes
  <2>4. pc' \in [Proc -> Calls] /\ failed' \in [Proc -> BOOLEAN]
    BY <2>2, GoTypes
  <2>. QED
    BY <2>1, <2>3, <2>4 DEF FileTypes, ProcTypes
<1>7. CASE SaveRename(p)
  <2>1. FileTypes'
    BY <1>7 DEF SaveRename, FileTypes, Entry
  <2>2. CASE Return(p, "saved", FALSE)
    BY <2>1, <2>2, ReturnTypes DEF Results
  <2>3. CASE Go(p, "abort", dir["temp"] # None) /\ UNCHANGED <<fd, sound, got, written, result>>
    <3>1. pc' \in [Proc -> Calls] /\ failed' \in [Proc -> BOOLEAN]
      BY <2>3, GoTypes DEF Calls
    <3>. QED
      BY <2>1, <2>3, <3>1 DEF ProcTypes
  <2>. QED
    BY <1>7, <2>2, <2>3 DEF SaveRename
<1>8. CASE SaveAbort(p)
  <2>1. FileTypes'
    BY <1>8 DEF SaveAbort, Unlink, FileTypes
  <2>. QED
    BY <1>8, <2>1, ReturnTypes DEF SaveAbort, Results
<1>. QED
  BY <1>1, <1>2, <1>3, <1>4, <1>5, <1>6, <1>7, <1>8 DEF Save

\* A step of a load, a removal, a crash or the disk.
LEMMA OtherTypes ==
  ASSUME ProcTypes, FileTypes, ReadsAFile,
         (\E p \in Proc : LoadOpen(p) \/ LoadRead(p) \/ Remove(p) \/ Crash(p))
           \/ Commit \/ PowerLoss
  PROVE  ProcTypes' /\ FileTypes'
<1>1. ASSUME NEW p \in Proc, LoadOpen(p) PROVE ProcTypes' /\ FileTypes'
  <2>1. FileTypes'
    BY <1>1 DEF LoadOpen, FileTypes
  <2>2. CASE Return(p, "unloaded", FALSE)
    BY <2>1, <2>2, ReturnTypes DEF Results
  <2>3. CASE fd' = [fd EXCEPT ![p] = dir["preset"]] /\ Begin(p, "read")
             /\ UNCHANGED <<sound, got, written>>
    <3>1. dir["preset"] \in File \cup {None}
      BY DEF FileTypes, Entry
    <3>. QED
      BY <2>1, <2>3, <3>1, BeginTypes DEF ProcTypes, Calls
  <2>. QED
    BY <1>1, <2>2, <2>3 DEF LoadOpen
<1>2. ASSUME NEW p \in Proc, LoadRead(p) PROVE ProcTypes' /\ FileTypes'
  <2>1. FileTypes'
    BY <1>2 DEF LoadRead, FileTypes
  <2>2. CASE \E k \in got[p] + 1 .. text[fd[p]].len : got' = [got EXCEPT ![p] = k]
             /\ UNCHANGED <<pc, fd, sound, written, result, failed>>
    <3>1. fd[p] \in File
      BY <1>2 DEF LoadRead, ReadsAFile
    <3>2. text[fd[p]].len \in 0..Parts /\ got[p] \in 0..Parts
      BY <3>1 DEF FileTypes, FileTexts, ProcTypes
    <3>3. got[p] + 1 .. text[fd[p]].len \subseteq 0..Parts
      BY <3>2, StoreAssumption
    <3>. QED
      BY <2>1, <2>2, <3>3 DEF ProcTypes
  <2>3. CASE \E r \in {Parsed(got[p]), "unloaded"}, broke \in BOOLEAN : Return(p, r, broke)
    <3>1. Parsed(got[p]) \in Results
      BY DEF Parsed, Results
    <3>. QED
      BY <2>1, <2>3, <3>1, ReturnTypes DEF Results
  <2>. QED
    BY <1>2, <2>2, <2>3 DEF LoadRead
<1>3. ASSUME NEW p \in Proc, Remove(p) \/ Crash(p) PROVE ProcTypes' /\ FileTypes'
  <2>1. FileTypes'
    BY <1>3 DEF Remove, Unlink, Crash, FileTypes
  <2>. QED
    BY <1>3, <2>1, ReturnTypes DEF Remove, Crash, Results
<1>4. CASE Commit
  BY <1>4 DEF Commit, proc, ProcTypes, FileTypes
<1>5. CASE PowerLoss
  <2>1. ProcTypes'
    <3>1. 0 \in 0..Parts
      BY StoreAssumption
    <3>2. /\ pc' = [p \in Proc |-> "idle"] /\ fd' = [p \in Proc |-> None]
          /\ sound' = [p \in Proc |-> None] /\ got' = [p \in Proc |-> 0]
          /\ written' = [p \in Proc |-> FALSE] /\ failed' = [p \in Proc |-> FALSE]
          /\ result' = [p \in Proc |-> "none"]
      BY <1>5 DEF PowerLoss
    <3>. QED
      BY <3>1, <3>2 DEF ProcTypes, Calls, Results
  <2>2. UNCHANGED disk /\ dir' = disk
    BY <1>5 DEF PowerLoss
  <2> DEFINE named == {disk[e] : e \in Entry} \ {None}
  <2>3. PICK kept \in [named -> 0..Parts] :
          text' = [f \in File |->
                     IF f \notin named THEN Blank
                     ELSE IF text[f].synced \/ text[f].len <= kept[f] THEN text[f]
                     ELSE [text[f] EXCEPT !.len = kept[f]]]
    BY <1>5 DEF PowerLoss
  <2>4. Blank \in FileTexts
    BY StoreAssumption DEF Blank, FileTexts
  <2>5. \A t \in FileTexts, k \in 0..Parts : [t EXCEPT !.len = k] \in FileTexts
    BY DEF FileTexts
  <2> HIDE DEF named
  <2>6. text' \in [File -> FileTexts]
    BY <2>3, <2>4, <2>5 DEF FileTypes
  <2>. QED
    BY <2>1, <2>2, <2>6 DEF FileTypes
<1>. QED
  BY <1>1, <1>2, <1>3, <1>4, <1>5

\* Only a load that has opened the preset reads.
LEMMA ReadsInvariant ==
  ASSUME ProcTypes, FileTypes, ReadsAFile, [Next]_vars
  PROVE  ReadsAFile'
<1> SUFFICES ASSUME NEW q \in Proc, pc'[q] = "read" PROVE fd'[q] \in File
  BY DEF ReadsAFile
<1>1. ASSUME NEW p \in Proc, Save(p) \/ LoadRead(p) \/ Remove(p) \/ Crash(p)
      PROVE  pc[q] = "read" /\ fd'[q] = fd[q]
  BY <1>1 DEF Save, SaveBegin, SaveUnlink, SaveOpen, SaveWrite, SaveSync, SaveClose,
       SaveRename, SaveAbort, LoadRead, Remove, Crash, Return, Go, Begin, ProcTypes
<1>2. ASSUME NEW p \in Proc, LoadOpen(p) PROVE fd'[q] \in File
  <2>1. dir["preset"] \in File \cup {None}
    BY DEF FileTypes, Entry
  <2>. QED
    BY <1>2, <2>1 DEF LoadOpen, Return, Go, Begin, ProcTypes, ReadsAFile
<1>3. CASE Commit \/ UNCHANGED vars
  BY <1>3 DEF Commit, vars, proc, ReadsAFile
<1>4. CASE PowerLoss
  BY <1>4 DEF PowerLoss
<1>. QED
  BY <1>1, <1>2, <1>3, <1>4 DEF Next, ReadsAFile

\* An entry names a file, a file holds no more than the whole text, and no load counts
\* more of it than there is, whoever saves (presetstore.cpp 208-268 and 298-356).
THEOREM TypeCorrect == Spec => [](TypeOK /\ ReadsAFile)
<1>1. Init => TypeOK /\ ReadsAFile
  BY StoreAssumption DEF Init, TypeOK, ReadsAFile, Blank
<1>2. TypeOK /\ ReadsAFile /\ [Next]_vars => (TypeOK /\ ReadsAFile)'
  <2> SUFFICES ASSUME TypeOK, ReadsAFile, [Next]_vars PROVE (TypeOK /\ ReadsAFile)'
    OBVIOUS
  <2>1. ProcTypes /\ FileTypes
    BY TypeParts
  <2>2. ProcTypes' /\ FileTypes'
    <3>1. CASE UNCHANGED vars
      BY <2>1, <3>1 DEF vars, proc, ProcTypes, FileTypes
    <3>. QED
      BY <2>1, <3>1, SaveTypes, OtherTypes DEF Next
  <2>3. TypeOK'
    BY <2>2, TypeParts, PTL
  <2>. QED
    BY <2>1, <2>3, ReadsInvariant
<1>. QED
  BY <1>1, <1>2, PTL DEF Spec

-----------------------------------------------------------------------------
(* The inductive invariant *)

\* What a step leaves of process q.
Untouched(q) ==
  /\ pc'[q] = pc[q] /\ fd'[q] = fd[q] /\ sound'[q] = sound[q]
  /\ written'[q] = written[q] /\ result'[q] = result[q] /\ failed'[q] = failed[q]

\* A step of one process touches no other.
LEMMA OthersUntouched ==
  ASSUME ProcTypes, NEW p \in Proc, NEW q \in Proc, p # q,
         Save(p) \/ LoadOpen(p) \/ LoadRead(p) \/ Remove(p) \/ Crash(p)
  PROVE  Untouched(q)
  BY DEF Save, SaveBegin, SaveUnlink, SaveOpen, SaveWrite, SaveSync, SaveClose, SaveRename,
       SaveAbort, LoadOpen, LoadRead, Remove, Crash, Return, Go, Begin, ProcTypes, Untouched

\* An operation that goes on or answers.
LEMMA GoesOn ==
  ASSUME ProcTypes, NEW p \in Proc, NEW c, NEW broke \in BOOLEAN, Go(p, c, broke)
  PROVE  pc'[p] = c /\ failed'[p] = (failed[p] \/ broke)
  BY DEF ProcTypes, Go

LEMMA Answered ==
  ASSUME ProcTypes, NEW p \in Proc, NEW r, r # "loaded cut", NEW broke \in BOOLEAN,
         Return(p, r, broke)
  PROVE  Knows(p)' /\ result'[p] = r /\ failed'[p] = (failed[p] \/ broke)
  BY DEF ProcTypes, Return, Go, Knows, InSave

\* A process that is not touched knows what it knew, if the file it reads stays whole and
\* nobody meddles with the temp file of its save.
LEMMA KnowsKept ==
  ASSUME NEW q \in Proc, Knows(q), Untouched(q),
         \A f \in File : f = fd[q] /\ Whole(f) => Whole(f)',
         pc[q] \in InSave => UNCHANGED text /\ dir'["temp"] = dir["temp"]
  PROVE  Knows(q)'
  BY DEF Knows, Saving, WritesTemp, Whole, Untouched, InSave

\* Of one saver's step every other process is a bystander.
LEMMA Bystanders ==
  ASSUME OneSaver, ProcTypes, IInv, NEW p \in Proc, Save(p), p \in Saver,
         \A q \in Proc \ {p}, f \in File : f = fd[q] /\ Whole(f) => Whole(f)',
         Knows(p)'
  PROVE  \A q \in Proc : Knows(q)'
<1> SUFFICES ASSUME NEW q \in Proc, q # p PROVE Knows(q)'
  OBVIOUS
<1>1. Knows(q)
  BY DEF IInv
<1>2. pc[q] \notin InSave
  BY <1>1 DEF OneSaver, Knows, Saving
<1>. QED
  BY <1>1, <1>2, OthersUntouched, KnowsKept

\* A save is in the hands of a saver.
LEMMA SaversSave ==
  ASSUME ProcTypes, IInv, NEW p \in Proc, Save(p)
  PROVE  p \in Saver /\ (pc[p] # "idle" => Saving(p))
<1>1. Knows(p)
  BY DEF IInv
<1>. QED
  BY <1>1 DEF Knows, InSave, Saving, Save, SaveBegin, SaveUnlink, SaveOpen, SaveWrite, SaveSync,
       SaveClose, SaveRename, SaveAbort

\* Until the temp file is synced, no file is touched that matters.
LEMMA SaveBeginStep ==
  ASSUME OneSaver, ProcTypes, FileTypes, IInv, NEW p \in Proc, SaveBegin(p)
  PROVE  IInv'
<1>1. UNCHANGED <<dir, disk, text>>
  BY DEF SaveBegin
<1>2. Knows(p)'
  <2>1. CASE Return(p, "unsaved", TRUE)
    BY <2>1, Answered
  <2>2. CASE /\ \E s \in Sound : sound' = [sound EXCEPT ![p] = s]
             /\ Begin(p, "unlink") /\ UNCHANGED <<fd, got, written>>
    <3>1. pc'[p] = "unlink" /\ sound'[p] \in Sound /\ result'[p] = "none" /\ written'[p] = written[p]
      BY <2>2 DEF Begin, ProcTypes
    <3>2. ~written[p]
      BY DEF IInv, Knows, InSave, SaveBegin
    <3>. QED
      BY <3>1, <3>2 DEF Knows, Saving, InSave, SaveBegin
  <2>. QED
    BY <2>1, <2>2 DEF SaveBegin
<1>3. \A q \in Proc : Knows(q)'
  BY <1>1, <1>2, Bystanders, SaversSave DEF Whole, Save
<1>. QED
  BY <1>1, <1>3 DEF IInv, StoredWhole, Whole

LEMMA SaveUnlinkStep ==
  ASSUME OneSaver, ProcTypes, FileTypes, IInv, NEW p \in Proc, SaveUnlink(p)
  PROVE  IInv'
<1>1. UNCHANGED <<disk, text, fd, sound, got, written, result>> /\ dir'["preset"] = dir["preset"]
  BY DEF SaveUnlink, Unlink, FileTypes, Entry
<1>2. Saving(p) /\ p \in Saver /\ result[p] = "none"
  BY SaversSave DEF Save, SaveUnlink, IInv, Knows
<1>3. pc'[p] = "open" /\ (dir'["temp"] = None \/ failed'[p])
  BY GoesOn DEF SaveUnlink, Unlink, FileTypes, Entry
<1>4. Knows(p)'
  BY <1>1, <1>2, <1>3 DEF Knows, Saving, InSave, SaveUnlink
<1>5. \A q \in Proc : Knows(q)'
  BY <1>1, <1>2, <1>4, Bystanders DEF Whole, Save
<1>. QED
  BY <1>1, <1>5 DEF IInv, StoredWhole, Whole

\* The temp file is a file nobody holds and no entry names.
LEMMA SaveOpenStep ==
  ASSUME OneSaver, ProcTypes, FileTypes, IInv, NEW p \in Proc, SaveOpen(p)
  PROVE  IInv'
<1>1. Saving(p) /\ p \in Saver /\ result[p] = "none" /\ ~written[p]
  BY SaversSave DEF Save, SaveOpen, IInv, Knows, Saving
<1>2. CASE \E broke \in BOOLEAN : Return(p, "unsaved", broke) /\ UNCHANGED <<dir, text>>
  <2>1. UNCHANGED <<dir, text, disk>>
    BY <1>2 DEF SaveOpen
  <2>2. Knows(p)'
    BY <1>2, Answered
  <2>3. \A q \in Proc : Knows(q)'
    BY <1>1, <2>1, <2>2, Bystanders DEF Whole, Save
  <2>. QED
    BY <2>1, <2>3 DEF IInv, StoredWhole, Whole
<1>3. CASE pc'[p] = "write"
  <2> DEFINE f == CHOOSE g \in Free : TRUE
  <2>0. /\ dir["temp"] = None /\ Free # {}
        /\ dir' = [dir EXCEPT !["temp"] = f]
        /\ text' = [g \in File |-> IF g = f THEN [Blank EXCEPT !.sound = sound[p]]
                                   ELSE IF g \in Free THEN Blank ELSE text[g]]
        /\ fd' = [fd EXCEPT ![p] = f]
        /\ UNCHANGED <<sound, got, written, result, disk>>
    BY <1>3 DEF SaveOpen, Return, Go, ProcTypes
  <2>1. f \in Free
    BY <2>0
  <2> HIDE DEF f
  <2>2. f \in File /\ f # None
    BY <2>1, StoreAssumption DEF Free
  <2>3. \A g \in File \ Free : text'[g] = text[g]
    BY <2>0, <2>1
  <2>4. dir'["preset"] = dir["preset"] /\ dir'["temp"] = f /\ fd'[p] = f /\ pc'[p] = "write"
    BY <1>3, <2>0 DEF FileTypes, Entry, ProcTypes
  <2>5. dir["preset"] \notin Free /\ disk["preset"] \notin Free /\ \A q \in Proc : fd[q] \notin Free
    BY DEF Free, Entry
  <2>6. ~text'[f].synced /\ text'[f].sound = sound[p]
    BY <2>0, <2>2 DEF Blank
  <2>7. Knows(p)'
    BY <1>1, <2>0, <2>1, <2>2, <2>4, <2>6 DEF Knows, Saving, WritesTemp, InSave
  <2>8. \A g \in File \ Free : Whole(g) => Whole(g)'
    BY <2>3 DEF Whole
  <2>. QED
    BY <1>1, <2>3, <2>4, <2>5, <2>0, <2>7, <2>8, Bystanders DEF IInv, StoredWhole, Whole, Save
<1>4. pc'[p] \in {"idle", "write"}
  BY DEF SaveOpen, Return, Go, ProcTypes
<1>5. pc'[p] = "idle" => \E broke \in BOOLEAN : Return(p, "unsaved", broke) /\ UNCHANGED <<dir, text>>
  BY DEF SaveOpen, Go, ProcTypes
<1>. QED
  BY <1>2, <1>3, <1>4, <1>5

\* What is written is not synced, so it is neither the preset nor being read.
LEMMA SaveWriteStep ==
  ASSUME OneSaver, ProcTypes, FileTypes, IInv, NEW p \in Proc, SaveWrite(p)
  PROVE  IInv'
<1>1. /\ Saving(p) /\ p \in Saver /\ result[p] = "none" /\ ~written[p]
      /\ WritesTemp(p) /\ fd[p] \in File
  BY SaversSave DEF Save, SaveWrite, IInv, Knows, Saving, WritesTemp, ProcTypes
<1>2. UNCHANGED <<dir, disk, fd, sound, written, result>>
  BY DEF SaveWrite
<1>3. \A f \in File : f # fd[p] => text'[f] = text[f]
  BY DEF SaveWrite, FileTypes
<1>4. text'[fd[p]].synced = text[fd[p]].synced /\ text'[fd[p]].sound = text[fd[p]].sound
  BY <1>1 DEF SaveWrite, FileTypes, FileTexts
<1>5. \A f \in File : Whole(f) => Whole(f)'
  BY <1>1, <1>3 DEF Whole, WritesTemp
<1>6. Knows(p)'
  <2>1. CASE Go(p, "close", TRUE)
    <3>1. pc'[p] = "close" /\ failed'[p]
      BY <2>1 DEF Go, ProcTypes
    <3>. QED
      BY <1>1, <1>2, <3>1 DEF Knows, Saving, InSave
  <2>2. ASSUME NEW k \in text[fd[p]].len + 1 .. Parts,
               text' = [text EXCEPT ![fd[p]].len = k],
               Go(p, IF k = Parts THEN "sync" ELSE "write", FALSE)
        PROVE  Knows(p)'
    <3>1. pc'[p] = IF k = Parts THEN "sync" ELSE "write"
      BY <2>2 DEF Go, ProcTypes
    <3>2. text'[fd[p]].len = k
      BY <1>1, <2>2 DEF FileTypes, FileTexts
    <3>. QED
      BY <1>1, <1>2, <1>4, <3>1, <3>2 DEF Knows, Saving, WritesTemp, InSave
  <2>. QED
    BY <2>1, <2>2 DEF SaveWrite
<1>7. \A q \in Proc : Knows(q)'
  BY <1>1, <1>5, <1>6, Bystanders DEF Save
<1>. QED
  BY <1>2, <1>5, <1>7 DEF IInv, StoredWhole, Whole

\* fsync makes the temp file whole.
LEMMA SaveSyncStep ==
  ASSUME OneSaver, ProcTypes, FileTypes, IInv, NEW p \in Proc, SaveSync(p)
  PROVE  IInv'
<1>1. /\ Saving(p) /\ p \in Saver /\ result[p] = "none" /\ ~written[p]
      /\ WritesTemp(p) /\ fd[p] \in File /\ text[fd[p]].len = Parts
  BY SaversSave DEF Save, SaveSync, IInv, Knows, Saving, WritesTemp, ProcTypes
<1>2. UNCHANGED <<dir, disk, fd, sound, result>> /\ pc'[p] = "close"
  BY DEF SaveSync, Go, ProcTypes
<1>3. \A f \in File : f # fd[p] => text'[f] = text[f]
  BY DEF SaveSync, FileTypes
<1>4. \A f \in File : Whole(f) => Whole(f)'
  BY <1>1, <1>3 DEF Whole, WritesTemp
<1>5. Knows(p)'
  <2>1. CASE Go(p, "close", TRUE) /\ UNCHANGED written
    <3>1. failed'[p]
      BY <2>1 DEF Go, ProcTypes
    <3>. QED
      BY <1>1, <1>2, <2>1, <3>1 DEF Knows, Saving, InSave
  <2>2. CASE /\ text' = [text EXCEPT ![fd[p]].synced = TRUE]
             /\ written' = [written EXCEPT ![p] = TRUE]
    <3>1. /\ text'[fd[p]].synced /\ text'[fd[p]].len = Parts
          /\ text'[fd[p]].sound = text[fd[p]].sound
      BY <1>1, <2>2 DEF FileTypes, FileTexts
    <3>2. written'[p]
      BY <2>2 DEF ProcTypes
    <3>. QED
      BY <1>1, <1>2, <3>1, <3>2 DEF Knows, Saving, WritesTemp, Whole, InSave
  <2>. QED
    BY <2>1, <2>2 DEF SaveSync
<1>6. \A q \in Proc : Knows(q)'
  BY <1>1, <1>4, <1>5, Bystanders DEF Save
<1>. QED
  BY <1>2, <1>4, <1>6 DEF IInv, StoredWhole, Whole

LEMMA SaveCloseStep ==
  ASSUME OneSaver, ProcTypes, FileTypes, IInv, NEW p \in Proc, SaveClose(p)
  PROVE  IInv'
<1>1. /\ Saving(p) /\ p \in Saver /\ result[p] = "none"
      /\ written[p] => Whole(dir["temp"]) /\ text[dir["temp"]].sound = sound[p]
      /\ written[p] \/ failed[p]
  BY SaversSave DEF Save, SaveClose, IInv, Knows, Saving
<1>2. UNCHANGED <<dir, disk, text, sound, written, result>>
  BY DEF SaveClose
<1>3. \/ pc'[p] = "rename" /\ written[p]
      \/ pc'[p] = "abort" /\ failed'[p]
  BY <1>1 DEF SaveClose, Go, ProcTypes
<1>4. Knows(p)'
  BY <1>1, <1>2, <1>3 DEF Knows, Saving, Whole, InSave
<1>5. \A q \in Proc : Knows(q)'
  BY <1>1, <1>2, <1>4, Bystanders DEF Save, Whole
<1>. QED
  BY <1>2, <1>5 DEF IInv, StoredWhole, Whole

\* rename puts the whole temp file in the preset's place.
LEMMA SaveRenameStep ==
  ASSUME OneSaver, ProcTypes, FileTypes, IInv, NEW p \in Proc, SaveRename(p)
  PROVE  IInv'
<1>1. /\ Saving(p) /\ p \in Saver /\ result[p] = "none" /\ written[p]
      /\ Whole(dir["temp"]) /\ text[dir["temp"]].sound = sound[p] /\ dir["temp"] # None
  BY SaversSave, StoreAssumption DEF Save, SaveRename, IInv, Knows, Saving, Whole
<1>2. UNCHANGED <<disk, text>> /\ dir'["preset"] \in {dir["preset"], dir["temp"]}
  BY DEF SaveRename, FileTypes, Entry
<1>3. Knows(p)'
  <2>1. CASE Return(p, "saved", FALSE)
    BY <2>1, Answered
  <2>2. CASE Go(p, "abort", dir["temp"] # None) /\ UNCHANGED <<dir, sound, written, result>>
    <3>1. pc'[p] = "abort" /\ failed'[p]
      BY <1>1, <2>2 DEF Go, ProcTypes
    <3>. QED
      BY <1>1, <2>2, <3>1 DEF Knows, Saving, InSave
  <2>. QED
    BY <2>1, <2>2 DEF SaveRename
<1>4. \A q \in Proc : Knows(q)'
  BY <1>1, <1>2, <1>3, Bystanders DEF Save, Whole
<1>. QED
  BY <1>1, <1>2, <1>4 DEF IInv, StoredWhole, Whole

LEMMA SaveAbortStep ==
  ASSUME OneSaver, ProcTypes, FileTypes, IInv, NEW p \in Proc, SaveAbort(p)
  PROVE  IInv'
<1>1. UNCHANGED <<disk, text>> /\ dir'["preset"] = dir["preset"]
  BY DEF SaveAbort, Unlink, FileTypes, Entry
<1>2. Knows(p)'
  BY Answered DEF SaveAbort
<1>3. \A q \in Proc : Knows(q)'
  BY <1>1, <1>2, SaversSave, Bystanders DEF Save, Whole
<1>. QED
  BY <1>1, <1>3 DEF IInv, StoredWhole, Whole

\* A load finds whole files only, and a removal is of the preset's entry.
LEMMA LoadStep ==
  ASSUME ProcTypes, FileTypes, IInv, NEW p \in Proc,
         LoadOpen(p) \/ LoadRead(p) \/ Remove(p) \/ Crash(p)
  PROVE  IInv'
<1>1. UNCHANGED <<disk, text>> /\ dir'["temp"] = dir["temp"] /\ dir'["preset"] \in {dir["preset"], None}
  BY DEF LoadOpen, LoadRead, Remove, Unlink, Crash, FileTypes, Entry
<1>2. Knows(p)
  BY DEF IInv
<1>3. Knows(p)'
  <2>1. CASE LoadOpen(p)
    <3>1. CASE Return(p, "unloaded", FALSE)
      BY <3>1, Answered
    <3>2. CASE /\ dir["preset"] # None /\ fd' = [fd EXCEPT ![p] = dir["preset"]]
               /\ Begin(p, "read") /\ UNCHANGED <<sound, got, written>>
      <4>1. /\ pc'[p] = "read" /\ fd'[p] = dir["preset"] /\ result'[p] = "none"
            /\ written'[p] = written[p]
        BY <3>2 DEF Begin, ProcTypes
      <4>. QED
        BY <1>1, <1>2, <2>1, <3>2, <4>1 DEF LoadOpen, Knows, InSave, IInv, StoredWhole, Whole
    <3>. QED
      BY <2>1, <3>1, <3>2 DEF LoadOpen
  <2>2. CASE LoadRead(p)
    <3>1. CASE UNCHANGED <<pc, fd, sound, written, result, failed>>
      BY <1>1, <1>2, <2>2, <3>1 DEF LoadRead, Knows, InSave, Whole
    <3>2. CASE got[p] = text[fd[p]].len /\ Return(p, Parsed(got[p]), FALSE)
      <4>1. got[p] = Parts
        BY <1>2, <2>2, <3>2 DEF LoadRead, Knows, Whole
      <4>2. Parsed(got[p]) # "loaded cut"
        BY <4>1, StoreAssumption DEF Parsed
      <4>. QED
        BY <3>2, <4>2, Answered
    <3>3. CASE Return(p, "unloaded", TRUE)
      BY <3>3, Answered
    <3>. QED
      BY <2>2, <3>1, <3>2, <3>3 DEF LoadRead
  <2>3. CASE Remove(p) \/ Crash(p)
    BY <2>3, Answered DEF Remove, Crash
  <2>. QED
    BY <2>1, <2>2, <2>3
<1>4. \A q \in Proc : q # p => Knows(q)'
  BY <1>1, OthersUntouched, KnowsKept DEF IInv, Whole
<1>. QED
  BY <1>1, <1>3, <1>4 DEF IInv, StoredWhole, Whole

\* What the disk has of the preset is whole, so a power cut keeps all of it.
LEMMA PowerLossStep ==
  ASSUME FileTypes, IInv, PowerLoss
  PROVE  IInv'
<1>1. disk["preset"] # None => Whole(disk["preset"])'
  <2> SUFFICES ASSUME disk["preset"] # None PROVE Whole(disk["preset"])'
    OBVIOUS
  <2>1. disk["preset"] \in {disk[e] : e \in Entry} \ {None} /\ Whole(disk["preset"])
    BY DEF Entry, IInv, StoredWhole
  <2>2. text'[disk["preset"]] = text[disk["preset"]]
    BY <2>1 DEF PowerLoss, Whole
  <2>. QED
    BY <2>1, <2>2 DEF PowerLoss, Whole
<1>2. StoredWhole'
  BY <1>1 DEF PowerLoss, StoredWhole, Whole
<1>3. \A q \in Proc : Knows(q)'
  BY DEF PowerLoss, Knows, InSave
<1>. QED
  BY <1>2, <1>3 DEF IInv

LEMMA Inductive ==
  ASSUME OneSaver, TypeOK, IInv, [Next]_vars
  PROVE  IInv'
<1>1. ProcTypes /\ FileTypes
  BY TypeParts
<1>2. ASSUME NEW p \in Proc, Save(p) PROVE IInv'
  BY <1>1, <1>2, SaveBeginStep, SaveUnlinkStep, SaveOpenStep, SaveWriteStep, SaveSyncStep,
     SaveCloseStep, SaveRenameStep, SaveAbortStep DEF Save
<1>3. CASE Commit
  BY <1>1, <1>3 DEF Commit, proc, IInv, StoredWhole, Knows, Saving, WritesTemp, Whole
<1>4. CASE UNCHANGED vars
  BY <1>4 DEF vars, proc, IInv, StoredWhole, Knows, Saving, WritesTemp, Whole
<1>. QED
  BY <1>1, <1>2, <1>3, <1>4, LoadStep, PowerLossStep DEF Next

\* With one saving process the store never holds a torn preset and no load sees one.
LEMMA IInvHolds == OneSaver /\ Spec => []IInv
<1>1. Init => IInv
  BY StoreAssumption DEF Init, Entry, IInv, StoredWhole, Knows, InSave
<1>2. OneSaver /\ TypeOK /\ IInv /\ [Next]_vars => IInv'
  BY Inductive
<1>3. OneSaver => []OneSaver
  BY DEF OneSaver
<1>. QED
  BY <1>1, <1>2, <1>3, TypeCorrect, PTL DEF Spec

-----------------------------------------------------------------------------
(* What the store promises *)

\* A load never hands the knobs a sound of which a part is missing, whatever is saved,
\* removed or interrupted between its calls (presetstore.cpp 298-356).
THEOREM LoadsAreWhole == OneSaver /\ Spec => []LoadsWhole
<1>1. IInv => LoadsWhole
  BY DEF IInv, Knows, LoadsWhole
<1>. QED
  BY <1>1, IInvHolds, PTL

\* What the register shows and keeps while the preset's two files are left alone.
LEMMA RegisterKept ==
  ASSUME dir'["preset"] = dir["preset"], disk'["preset"] = disk["preset"],
         \A f \in File : f \in {dir["preset"], disk["preset"]} => text'[f] = text[f],
         dir["preset"] \in File \cup {None}, disk["preset"] \in File \cup {None}
  PROVE  UNCHANGED Register!vars
  BY DEF Register!vars, Now, After

\* Each step of the store writes, deletes or persists the register, takes it back, or
\* leaves it alone.
LEMMA RegisterSteps ==
  ASSUME OneSaver, TypeOK, IInv, [Next]_vars
  PROVE  [Register!Next]_(Register!vars)
<1>1. ProcTypes /\ FileTypes /\ StoredWhole
  BY TypeParts DEF IInv
<1>2. dir["preset"] \in File \cup {None} /\ disk["preset"] \in File \cup {None}
  BY <1>1 DEF FileTypes, Entry
<1>3. ASSUME NEW p \in Proc, SaveBegin(p) \/ SaveClose(p) \/ LoadOpen(p) \/ LoadRead(p) \/ Crash(p)
      PROVE  UNCHANGED Register!vars
  <2>1. UNCHANGED <<dir, disk, text>>
    BY <1>3 DEF SaveBegin, SaveClose, LoadOpen, LoadRead, Crash
  <2>. QED
    BY <1>2, <2>1, RegisterKept
<1>4. ASSUME NEW p \in Proc, SaveUnlink(p) \/ SaveAbort(p) PROVE UNCHANGED Register!vars
  <2>1. UNCHANGED <<disk, text>> /\ dir'["preset"] = dir["preset"]
    BY <1>1, <1>4 DEF SaveUnlink, SaveAbort, Unlink, FileTypes, Entry
  <2>. QED
    BY <1>2, <2>1, RegisterKept
<1>5. ASSUME NEW p \in Proc, SaveOpen(p) PROVE UNCHANGED Register!vars
  <2>1. UNCHANGED disk /\ dir'["preset"] = dir["preset"]
    BY <1>1, <1>5 DEF SaveOpen, FileTypes, Entry
  <2>2. \A f \in File \ Free : text'[f] = text[f]
    BY <1>5 DEF SaveOpen
  <2>3. dir["preset"] \notin Free /\ disk["preset"] \notin Free
    BY DEF Free, Entry
  <2>. QED
    BY <1>2, <2>1, <2>2, <2>3, RegisterKept
<1>6. ASSUME NEW p \in Proc, SaveWrite(p) \/ SaveSync(p) PROVE UNCHANGED Register!vars
  <2>1. ~text[fd[p]].synced
    BY <1>1, <1>6, SaversSave DEF Save, SaveWrite, SaveSync, Saving, WritesTemp
  <2>2. UNCHANGED <<dir, disk>> /\ \A f \in File : f # fd[p] => text'[f] = text[f]
    BY <1>1, <1>6 DEF SaveWrite, SaveSync, FileTypes
  <2>3. \A f \in {dir["preset"], disk["preset"]} : f # None => f # fd[p]
    BY <1>1, <2>1 DEF StoredWhole, Whole
  <2>. QED
    BY <1>2, <2>2, <2>3, StoreAssumption, RegisterKept
<1>7. ASSUME NEW p \in Proc, SaveRename(p) PROVE [Register!Next]_(Register!vars)
  <2>1. /\ Saving(p) /\ Whole(dir["temp"]) /\ text[dir["temp"]].sound = sound[p]
        /\ dir["temp"] # None
    BY <1>1, <1>7, SaversSave, StoreAssumption DEF Save, SaveRename, Saving, Whole
  <2>2. UNCHANGED <<disk, text>> /\ dir'["preset"] \in {dir["preset"], dir["temp"]}
    BY <1>1, <1>7 DEF SaveRename, FileTypes, Entry
  <2>3. CASE dir'["preset"] = dir["preset"]
    BY <1>2, <2>2, <2>3, RegisterKept
  <2>4. CASE dir'["preset"] = dir["temp"]
    <3>1. Now(dir["preset"])' \in Sound
      BY <2>1, <2>2, <2>4 DEF Now, Whole
    <3>2. After(disk["preset"])' = After(disk["preset"])
      BY <2>2 DEF After
    <3>. QED
      BY <3>1, <3>2 DEF Register!Next, Register!Write
  <2>. QED
    BY <2>2, <2>3, <2>4
<1>8. ASSUME NEW p \in Proc, Remove(p) PROVE Register!Delete
  <2>1. UNCHANGED <<disk, text>> /\ dir'["preset"] = None
    BY <1>1, <1>8 DEF Remove, Unlink, FileTypes, Entry
  <2>. QED
    BY <2>1 DEF Register!Delete, Now, After
<1>9. CASE Commit
  <2>1. UNCHANGED <<dir, text>> /\ disk'["preset"] = dir["preset"]
    BY <1>9 DEF Commit
  <2>2. Now(dir["preset"])' = Now(dir["preset"])
    BY <2>1 DEF Now
  <2>3. After(disk["preset"])' = Now(dir["preset"])
    BY <1>1, <2>1 DEF Now, After, StoredWhole, Whole
  <2>. QED
    BY <2>2, <2>3 DEF Register!Next, Register!Persist
<1>10. CASE PowerLoss
  <2>1. dir'["preset"] = disk["preset"] /\ UNCHANGED disk
    BY <1>10 DEF PowerLoss
  <2>2. disk["preset"] # None => text'[disk["preset"]] = text[disk["preset"]]
    BY <1>1, <1>10 DEF PowerLoss, StoredWhole, Whole, Entry
  <2>3. /\ Now(dir["preset"])' = After(disk["preset"])
        /\ After(disk["preset"])' = After(disk["preset"])
    BY <1>1, <2>1, <2>2 DEF Now, After, StoredWhole, Whole
  <2>. QED
    BY <2>3 DEF Register!Next, Register!PowerLoss
<1>11. CASE UNCHANGED vars
  BY <1>11 DEF vars, Register!vars, Now, After
<1>. QED
  BY <1>3, <1>4, <1>5, <1>6, <1>7, <1>8, <1>9, <1>10, <1>11 DEF Next, Save, Register!Next

\* Through failed calls, crashes, power cuts and concurrent loads and removals, the preset
\* is at every moment one whole sound or absent, replaced in one step: save, load and
\* remove implement an atomic durable register (presetstore.cpp 208-268).
THEOREM StoreImplementsRegister == OneSaver /\ Spec => SaveIsAtomic
<1>1. Init => Register!Init
  BY DEF Init, Entry, Register!Init, Now, After
<1>2. OneSaver /\ TypeOK /\ IInv /\ [Next]_vars => [Register!Next]_(Register!vars)
  BY RegisterSteps
<1>3. OneSaver => []OneSaver
  BY DEF OneSaver
<1>. QED
  BY <1>1, <1>2, <1>3, IInvHolds, TypeCorrect, PTL DEF Spec, SaveIsAtomic, Register!Spec

\* A save answers true: success means its own sound is in place, failure that a call of
\* its own failed, never that an earlier crash left a temp file behind
\* (presetstore.cpp 208-268).
THEOREM SavesAreTrue == OneSaver /\ Spec => SavesReportTruly
<1> DEFINE Reports(p) == pc[p] # "idle" =>
                           /\ result'[p] = "saved" => Now(dir["preset"])' = sound[p]
                           /\ result'[p] = "unsaved" => failed'[p]
<1>1. ASSUME OneSaver, TypeOK, IInv, [Next]_vars PROVE [\A p \in Proc : Reports(p)]_vars
  <2> SUFFICES ASSUME NEW p \in Proc, pc[p] # "idle", Next PROVE Reports(p)
    BY <1>1
  <2>1. ProcTypes /\ FileTypes /\ Knows(p) /\ result[p] = "none"
    BY <1>1, TypeParts DEF IInv, Knows
  <2>2. CASE result'[p] = result[p]
    BY <2>1, <2>2
  <2>3. CASE Commit \/ PowerLoss
    BY <2>1, <2>3 DEF Commit, proc, PowerLoss
  <2>4. CASE LoadOpen(p) \/ LoadRead(p) \/ Remove(p) \/ Crash(p)
    <3>1. CASE LoadRead(p)
      BY <2>1, <3>1 DEF LoadRead, Return, Go, Parsed, ProcTypes
    <3>2. CASE Crash(p)
      BY <2>1, <3>2 DEF Crash, Return, ProcTypes
    <3>. QED
      BY <2>4, <3>1, <3>2 DEF LoadOpen, Remove
  <2>5. CASE Save(p)
    <3>1. Saving(p)
      BY <1>1, <2>1, <2>5, SaversSave
    <3>2. CASE SaveOpen(p)
      <4>1. dir["temp"] = None \/ failed[p]
        BY <3>1, <3>2 DEF SaveOpen, Saving
      <4>2. result'[p] \in {"none", "unsaved"}
        BY <2>1, <3>2 DEF SaveOpen, Return, ProcTypes
      <4>3. result'[p] = "unsaved" => failed'[p]
        BY <2>1, <3>2, <4>1 DEF SaveOpen, Return, Go, ProcTypes
      <4>. QED
        BY <4>2, <4>3
    <3>3. CASE SaveRename(p)
      <4>1. Whole(dir["temp"]) /\ text[dir["temp"]].sound = sound[p] /\ dir["temp"] # None
        BY <3>1, <3>3, StoreAssumption DEF SaveRename, Saving, Whole
      <4>2. CASE Return(p, "saved", FALSE) /\ dir'["preset"] = dir["temp"]
        BY <2>1, <3>3, <4>1, <4>2 DEF SaveRename, Now, Whole, Return, ProcTypes
      <4>3. CASE UNCHANGED result
        BY <2>1, <4>3
      <4>. QED
        BY <2>1, <3>3, <4>2, <4>3 DEF SaveRename, FileTypes, Entry
    <3>4. CASE SaveAbort(p)
      <4>1. failed[p]
        BY <3>1, <3>4 DEF SaveAbort, Saving
      <4>. QED
        BY <2>1, <3>4, <4>1 DEF SaveAbort, Return, Go, ProcTypes
    <3>5. CASE SaveUnlink(p) \/ SaveWrite(p) \/ SaveSync(p) \/ SaveClose(p)
      BY <2>1, <3>5 DEF SaveUnlink, SaveWrite, SaveSync, SaveClose
    <3>. QED
      BY <2>5, <3>2, <3>3, <3>4, <3>5 DEF Save, SaveBegin
  <2>6. ASSUME NEW q \in Proc, q # p,
               Save(q) \/ LoadOpen(q) \/ LoadRead(q) \/ Remove(q) \/ Crash(q)
        PROVE  result'[p] = result[p]
    BY <2>1, <2>6, OthersUntouched DEF Untouched
  <2>. QED
    BY <2>2, <2>3, <2>4, <2>5, <2>6 DEF Next
<1>2. OneSaver => []OneSaver
  BY DEF OneSaver
<1>. QED
  BY <1>1, <1>2, IInvHolds, TypeCorrect, PTL DEF Spec, SavesReportTruly

-----------------------------------------------------------------------------
(* Numbers, and functions defined by their first value and each next one *)

\* A set of numbers that is not empty has a least one.
LEMMA LeastNumber ==
  ASSUME NEW T, T \subseteq Nat, T # {}
  PROVE  \E i \in T : \A j \in T : i <= j
<1> DEFINE R == OpToRel(<, Nat)
<1>1. IsWellFoundedOn(R, Nat)
  BY NatLessThanWellFounded
<1>2. \A i, j \in Nat : i < j => <<i, j>> \in R
  BY DEF OpToRel
<1> HIDE DEF R
<1>3. PICK i \in T : \A j \in T : ~(<<j, i>> \in R)
  BY <1>1, WFMin
<1>4. \A j \in T : ~(j < i) /\ i \in Nat /\ j \in Nat
  BY <1>2, <1>3
<1> QED
  BY <1>4

\* Induction up to a number, over the set of the numbers it has been shown of.
LEMMA UpTo ==
  ASSUME NEW b \in Int, NEW m \in Int, NEW G,
         b <= m => b \in G, \A k \in b..m : k # b /\ k - 1 \in G => k \in G
  PROVE  \A k \in b..m : k \in G
<1> DEFINE Rest == {k \in Nat : b + k <= m /\ b + k \notin G}
<1> SUFFICES ASSUME Rest # {} PROVE FALSE
  <2>1. ASSUME NEW k \in b..m, k \notin G PROVE k - b \in Rest
    BY <2>1
  <2> QED
    BY <2>1
<1>1. PICK k \in Rest : \A j \in Rest : k <= j
  <2>1. Rest \subseteq Nat
    OBVIOUS
  <2> HIDE DEF Rest
  <2> QED
    BY <2>1, LeastNumber
<1>2. k # 0 /\ b + k \in b..m
  OBVIOUS
<1>3. k - 1 \in Nat /\ ~(k <= k - 1) /\ b + (k - 1) = b + k - 1 /\ b + k - 1 <= m
  BY <1>2
<1>4. k - 1 \in Rest
  BY <1>2, <1>3
<1> QED
  BY <1>1, <1>3, <1>4

\* The functions on b..m with the value first at b, and each next one by the step there.
Runs(b, m, S, first, step) ==
  { f \in [b..m -> S] :
      \A i \in b..m : f[i] = IF i = b THEN first ELSE step[i][f[i - 1]] }

\* What is defined by its first value and its steps exists.
LEMMA Recursion ==
  ASSUME NEW S, NEW b \in Int, NEW m \in Int, b <= m, NEW first \in S,
         NEW step \in [b..m -> [S -> S]]
  PROVE  Runs(b, m, S, first, step) # {}
<1> DEFINE Is(f, k) ==
             f \in [b..k -> S] /\ \A i \in b..k : f[i] = IF i = b THEN first ELSE step[i][f[i - 1]]
           G == {k \in b..m : \E f : Is(f, k)}
<1>1. b \in G
  <2> DEFINE f == [i \in b..b |-> first]
  <2>1. f \in [b..b -> S] /\ \A i \in b..b : i = b /\ f[i] = first
    OBVIOUS
  <2>2. Is(f, b)
    BY <2>1
  <2> HIDE DEF f, Is
  <2> QED
    BY <2>2
<1>2. ASSUME NEW k \in b..m, k # b, k - 1 \in G
      PROVE  k \in G
  <2>1. PICK f : Is(f, k - 1)
    BY <1>2
  <2>2. f[k - 1] \in S /\ step[k][f[k - 1]] \in S
    BY <1>2, <2>1
  <2> DEFINE g == [i \in b..k |-> IF i = k THEN step[k][f[k - 1]] ELSE f[i]]
  <2>3. g \in [b..k -> S]
    BY <2>1, <2>2
  <2>4. ASSUME NEW i \in b..k
        PROVE  g[i] = IF i = b THEN first ELSE step[i][g[i - 1]]
    <3>1. CASE i = k
      BY <1>2, <3>1
    <3>2. CASE i # k
      <4>1. i \in b..k - 1 /\ g[i] = f[i] /\ (i # b => g[i - 1] = f[i - 1])
        BY <3>2
      <4> QED
        BY <2>1, <4>1
    <3> QED
      BY <3>1, <3>2
  <2>5. Is(g, k)
    BY <2>3, <2>4
  <2> HIDE DEF Is, g
  <2> QED
    BY <1>2, <2>5
<1>3. \A k \in b..m : k \in G
  <2> HIDE DEF G
  <2> QED
    BY <1>1, <1>2, UpTo
<1>4. PICK f : Is(f, m)
  BY <1>3
<1> QED
  BY <1>4 DEF Runs

-----------------------------------------------------------------------------
(* Texts *)

\* Any line, with any version, key and value.
Line == { Header(v) : v \in Int } \cup {Skipped, Junk}
          \cup { Pair(k, v) : k \in Int, v \in Int \cup {Bad} }

Carries(line) == line.kind = "pair" /\ line.key \in Carried

\* What a line does to the values.
Applied(line, u) ==
  IF Carries(line) THEN [u EXCEPT ![line.key] = ToNorm(line.key, line.value)] ELSE u

LEMMA NormTypes ==
  /\ Def \in Norms /\ \A p \in Table : p \in Params
  /\ \A x \in Int : ClampNorm(x) \in Norm /\ (x \in Norm => ClampNorm(x) = x)
  /\ \A p \in Table, x \in Int : ToNorm(p, x) = ClampNorm(x)
  /\ \A old \in Norms : Start(old) \in Norms
<1> USE BlobAssumption
<1>1. Def \in Norms /\ \A p \in Table : p \in Params
  BY DEF Norms, Norm, Table, Params, HostBypass
<1>2. \A x \in Int : x # NaN
  OBVIOUS
<1>3. \A x \in Int : ClampNorm(x) \in Norm /\ (x \in Norm => ClampNorm(x) = x)
  BY <1>2 DEF ClampNorm, Norm
<1>4. \A p \in Table, x \in Int : ToNorm(p, x) = ClampNorm(x)
  BY <1>2 DEF ToNorm
<1>5. \A old \in Norms : Start(old) \in Norms
  BY <1>1 DEF Start, Norms
<1> QED
  BY <1>1, <1>3, <1>4, <1>5

LEMMA LineTypes ==
  ASSUME NEW line \in Line, Carries(line), line.value # Bad
  PROVE  line.key \in Table /\ line.value \in Int /\ ToNorm(line.key, line.value) \in Norm
<1>1. PICK k \in Int, x \in Int \cup {Bad} : line = Pair(k, x)
  BY DEF Line, Carries, Header, Skipped, Junk
<1>2. line.key = k /\ line.value = x
  BY <1>1 DEF Pair
<1>3. k \in Table /\ x \in Int
  BY <1>1, <1>2, TextAssumption DEF Carries
<1> QED
  BY <1>2, <1>3, NormTypes

\* The values after each line of a text that parses.
LEMMA ParseRuns ==
  ASSUME NEW lines \in Seq(Line), Parses(lines), NEW old \in Norms
  PROVE  \E v \in [1..Len(lines) -> Norms] :
           /\ v[1] = Start(old)
           /\ \A i \in 2..Len(lines) : v[i] = Applied(lines[i], v[i - 1])
           /\ Parse(lines, old) = v[Len(lines)]
<1> DEFINE n == Len(lines)
           v == CHOOSE v : v = [i \in 1..Len(lines) |->
                  IF i = 1 THEN Start(old) ELSE Applied(lines[i], v[i - 1])]
           step == [i \in 1..n |-> [u \in Norms |-> IF i = 1 THEN u ELSE Applied(lines[i], u)]]
<1>1. n \in Nat /\ 1 <= n /\ \A i \in 1..n : lines[i] \in Line
  BY ElementOfSeq DEF Parses
<1>2. \A i \in 2..n : Carries(lines[i]) => lines[i].value # Bad
  BY <1>1 DEF Parses, Carries
<1>3. \A i \in 2..n, u \in Norms : Applied(lines[i], u) \in Norms
  BY <1>1, <1>2, LineTypes DEF Applied, Norms
<1>4. /\ step \in [1..n -> [Norms -> Norms]]
      /\ \A i \in 1..n, u \in Norms : step[i][u] = IF i = 1 THEN u ELSE Applied(lines[i], u)
  BY <1>1, <1>3
<1>5. PICK f \in [1..n -> Norms] :
        \A i \in 1..n : f[i] = IF i = 1 THEN Start(old) ELSE step[i][f[i - 1]]
  <2>1. /\ Start(old) \in Norms /\ 1 \in Int /\ n \in Int /\ 1 <= n
        /\ step \in [1..n -> [Norms -> Norms]]
    BY <1>1, <1>4, NormTypes
  <2> HIDE DEF step, n
  <2>2. Runs(1, n, Norms, Start(old), step) # {}
    BY <2>1, Recursion
  <2> QED
    BY <2>2 DEF Runs
<1> HIDE DEF step
<1>6. \A i \in 1..n : f[i] = IF i = 1 THEN Start(old) ELSE Applied(lines[i], f[i - 1])
  <2> TAKE i \in 1..n
  <2>1. i # 1 => f[i - 1] \in Norms
    BY <1>1, <1>5
  <2> QED
    BY <1>1, <1>4, <1>5, <2>1
<1>7. f = [i \in 1..Len(lines) |->
             IF i = 1 THEN Start(old) ELSE Applied(lines[i], f[i - 1])]
  BY <1>6
<1>8. v = [i \in 1..Len(lines) |->
             IF i = 1 THEN Start(old) ELSE Applied(lines[i], v[i - 1])]
  BY <1>7
<1>9. Parse(lines, old) = v[n]
  BY DEF Parse, Applied, Carries
<1> HIDE DEF v
<1>10. \A i \in 1..n : v[i] = IF i = 1 THEN Start(old) ELSE Applied(lines[i], v[i - 1])
  BY <1>8, Zenon
<1>11. v[n] = f[n]
  <2> DEFINE G == {j \in 1..n : v[j] = f[j]}
  <2>1. 1 \in G
    BY <1>1, <1>6, <1>10
  <2>2. \A k \in 1..n : k # 1 /\ k - 1 \in G => k \in G
    BY <1>1, <1>6, <1>10
  <2>3. n \in Nat /\ 1 <= n /\ 1 \in Int /\ n \in Int
    BY <1>1
  <2> HIDE DEF G, n
  <2>4. \A k \in 1..n : k \in G
    BY <2>1, <2>2, <2>3, UpTo
  <2> QED
    BY <1>1, <2>4 DEF G
<1>12. f[1] = Start(old) /\ \A i \in 2..n : f[i] = Applied(lines[i], f[i - 1])
  BY <1>1, <1>6
<1> QED
  BY <1>9, <1>11, <1>12

\* Any text, of whatever lines and length, is applied whole or not at all, leaves what it
\* does not carry, and what it carries does not depend on what was set before
\* (presetstore.cpp 157-206).
THEOREM ParseIsWhole ==
  ASSUME NEW lines \in Seq(Line), NEW old \in Norms
  PROVE  /\ Parse(lines, old) \in Norms
         /\ Agree(Parse(lines, old), old, Table \ Carried)
         /\ Parses(lines) => Agree(Parse(lines, old), Parse(lines, Def), Carried)
         /\ ~Parses(lines) => Parse(lines, old) = old
<1>1. CASE ~Parses(lines)
  BY <1>1 DEF Parse, Agree
<1>2. CASE Parses(lines)
  <2> DEFINE n == Len(lines)
  <2>1. n \in Nat /\ 1 <= n /\ 1 \in Int /\ n \in Int /\ \A i \in 1..n : lines[i] \in Line
    BY <1>2, ElementOfSeq DEF Parses
  <2>2. PICK v \in [1..n -> Norms] :
          /\ v[1] = Start(old) /\ \A i \in 2..n : v[i] = Applied(lines[i], v[i - 1])
          /\ Parse(lines, old) = v[n]
    BY <1>2, ParseRuns
  <2>3. PICK w \in [1..n -> Norms] :
          /\ w[1] = Start(Def) /\ \A i \in 2..n : w[i] = Applied(lines[i], w[i - 1])
          /\ Parse(lines, Def) = w[n]
    BY <1>2, NormTypes, ParseRuns
  <2> DEFINE G == {i \in 1..n : /\ \A p \in Table \ Carried : v[i][p] = old[p]
                                /\ \A p \in Carried : v[i][p] = w[i][p]}
  <2>4. 1 \in G
    BY <2>1, <2>2, <2>3, TextAssumption DEF Start
  <2>5. \A k \in 1..n : k # 1 /\ k - 1 \in G => k \in G
    <3> SUFFICES ASSUME NEW k \in 2..n, k - 1 \in G
                 PROVE  k \in G
      OBVIOUS
    <3>1. /\ v[k - 1] \in [Table -> Norm] /\ w[k - 1] \in [Table -> Norm]
          /\ v[k] = Applied(lines[k], v[k - 1]) /\ w[k] = Applied(lines[k], w[k - 1])
      BY <2>1, <2>2, <2>3 DEF Norms
    <3>2. CASE ~Carries(lines[k])
      BY <2>1, <3>1, <3>2 DEF Applied
    <3>3. CASE Carries(lines[k])
      <4> DEFINE x == ToNorm(lines[k].key, lines[k].value)
      <4>1. lines[k].key \in Carried /\ lines[k].key \in Table
        BY <3>3, TextAssumption DEF Carries
      <4>2. /\ v[k] = [v[k - 1] EXCEPT ![lines[k].key] = x]
            /\ w[k] = [w[k - 1] EXCEPT ![lines[k].key] = x]
        BY <3>1, <3>3 DEF Applied
      <4> HIDE DEF x
      <4> QED
        BY <2>1, <3>1, <4>1, <4>2, TextAssumption
    <3> QED
      BY <3>2, <3>3
  <2>6. n \in G
    <3>1. n \in Nat /\ 1 <= n /\ 1 \in Int /\ n \in Int
      BY <2>1
    <3> HIDE DEF G, n
    <3>2. \A k \in 1..n : k \in G
      BY <3>1, <2>4, <2>5, UpTo
    <3> QED
      BY <3>1, <3>2
  <2> QED
    BY <1>2, <2>1, <2>2, <2>3, <2>6 DEF Agree
<1> QED
  BY <1>1, <1>2

\* serialise writes a header and one line for each carried parameter.
LEMMA SerialiseIs ==
  ASSUME NEW norm \in Norms
  PROVE  /\ Serialise(norm) \in Seq(Line)
         /\ Len(Serialise(norm)) \in 1..NParams + 1
         /\ Serialise(norm)[1] = Header(FormatVersion)
         /\ \A i \in 2..Len(Serialise(norm)) :
              \E k \in Carried : Serialise(norm)[i] = Pair(k, norm[k])
         /\ \A k \in Carried :
              \E i \in 2..Len(Serialise(norm)) : Serialise(norm)[i] = Pair(k, norm[k])
<1> DEFINE Added(i, q) ==
             IF i - 1 \in Carried THEN Append(q, Pair(i - 1, ClampNorm(norm[i - 1]))) ELSE q
           keys == CHOOSE keys : keys = [i \in 0..NParams |->
                     IF i = 0 THEN <<>> ELSE Added(i, keys[i - 1])]
           step == [i \in 0..NParams |-> [q \in Seq(Line) |-> IF i = 0 THEN q ELSE Added(i, q)]]
<1>1. NParams \in Nat /\ 0 \in Int /\ NParams \in Int /\ 0 <= NParams
  BY BlobAssumption
<1>2. \A k \in Carried : /\ k \in 0..NParams - 1 /\ norm[k] \in Int
                         /\ ClampNorm(norm[k]) = norm[k] /\ Pair(k, norm[k]) \in Line
  <2> TAKE k \in Carried
  <2>1. k \in Table /\ k \in Int /\ norm[k] \in Norm /\ norm[k] \in Int
    BY TextAssumption, BlobAssumption DEF Norms, Norm, Table
  <2> QED
    BY <2>1, NormTypes DEF Table, Line
<1>3. \A i \in 0..NParams, q \in Seq(Line) : i # 0 => Added(i, q) \in Seq(Line)
  BY <1>2, AppendProperties
<1>4. /\ step \in [0..NParams -> [Seq(Line) -> Seq(Line)]] /\ <<>> \in Seq(Line)
      /\ \A i \in 0..NParams, q \in Seq(Line) : step[i][q] = IF i = 0 THEN q ELSE Added(i, q)
  BY <1>3
<1>5. PICK f \in [0..NParams -> Seq(Line)] :
        \A i \in 0..NParams : f[i] = IF i = 0 THEN <<>> ELSE step[i][f[i - 1]]
  <2> HIDE DEF step
  <2>1. Runs(0, NParams, Seq(Line), <<>>, step) # {}
    BY <1>1, <1>4, Recursion
  <2> QED
    BY <2>1 DEF Runs
<1> HIDE DEF step
<1>6. \A i \in 0..NParams : f[i] = IF i = 0 THEN <<>> ELSE Added(i, f[i - 1])
  <2> TAKE i \in 0..NParams
  <2>1. i # 0 => f[i - 1] \in Seq(Line)
    BY <1>1, <1>5
  <2> QED
    BY <1>1, <1>4, <1>5, <2>1
<1>7. f = [i \in 0..NParams |-> IF i = 0 THEN <<>> ELSE Added(i, f[i - 1])]
  BY <1>6
<1>8. keys = [i \in 0..NParams |-> IF i = 0 THEN <<>> ELSE Added(i, keys[i - 1])]
  BY <1>7
<1>9. Serialise(norm) = <<Header(FormatVersion)>> \o keys[NParams]
  BY DEF Serialise
<1> HIDE DEF keys
<1>10. \A i \in 0..NParams : keys[i] = IF i = 0 THEN <<>> ELSE Added(i, keys[i - 1])
  BY <1>8, Zenon
<1> DEFINE Written(i, q) ==
             /\ q \in Seq(Line) /\ Len(q) \in 0..i
             /\ \A j \in 1..Len(q) : \E k \in Carried : q[j] = Pair(k, norm[k])
             /\ \A k \in Carried : k < i => \E j \in 1..Len(q) : q[j] = Pair(k, norm[k])
           G == {i \in 0..NParams : Written(i, keys[i])}
<1>11. 0 \in G
  <2>1. keys[0] = <<>>
    BY <1>1, <1>10
  <2>2. <<>> \in Seq(Line) /\ Len(<<>>) = 0
    OBVIOUS
  <2>3. \A k \in Carried : ~(k < 0)
    BY <1>1, <1>2
  <2>4. Written(0, <<>>)
    BY <2>2, <2>3
  <2> QED
    BY <1>1, <2>1, <2>4
<1>12. \A i \in 0..NParams : i # 0 /\ i - 1 \in G => i \in G
  <2> SUFFICES ASSUME NEW i \in 1..NParams, NEW q, Written(i - 1, q),
                      keys[i] = Added(i, q)
               PROVE  Written(i, keys[i])
    <3>1. \A i \in 0..NParams : i # 0 => i \in 1..NParams /\ keys[i] = Added(i, keys[i - 1])
      BY <1>1, <1>10
    <3> HIDE DEF Added, Written
    <3> QED
      BY <3>1
  <2>1. q \in Seq(Line) /\ Len(q) \in Nat /\ Len(q) <= i - 1
    OBVIOUS
  <2>2. CASE i - 1 \notin Carried
    <3>1. keys[i] = q
      BY <2>2
    <3>2. \A k \in Carried : k < i => k < i - 1
      BY <1>2, <2>2
    <3> QED
      BY <2>1, <3>1, <3>2
  <2>3. CASE i - 1 \in Carried
    <3> DEFINE line == Pair(i - 1, norm[i - 1])
    <3>1. keys[i] = Append(q, line) /\ line \in Line
      BY <1>2, <2>3
    <3> HIDE DEF line
    <3>2. /\ keys[i] \in Seq(Line) /\ Len(keys[i]) = Len(q) + 1
          /\ \A j \in 1..Len(q) : keys[i][j] = q[j]
          /\ keys[i][Len(q) + 1] = line
      <4> HIDE DEF Added, Written
      <4> QED
        BY <2>1, <3>1, AppendProperties
    <3>3. ASSUME NEW j \in 1..Len(keys[i])
          PROVE  \E k \in Carried : keys[i][j] = Pair(k, norm[k])
      <4>1. CASE j = Len(q) + 1
        BY <2>3, <3>2, <4>1 DEF line
      <4>2. CASE j # Len(q) + 1
        <5>1. j \in 1..Len(q)
          BY <2>1, <3>2, <4>2
        <5> QED
          BY <3>2, <5>1
      <4> QED
        BY <4>1, <4>2
    <3>4. ASSUME NEW k \in Carried, k < i
          PROVE  \E j \in 1..Len(keys[i]) : keys[i][j] = Pair(k, norm[k])
      <4>1. CASE k = i - 1
        <5>1. Len(q) + 1 \in 1..Len(keys[i]) /\ line = Pair(k, norm[k])
          BY <2>1, <3>2, <4>1 DEF line
        <5> QED
          BY <3>2, <5>1
      <4>2. CASE k # i - 1
        <5>1. k < i - 1
          BY <1>2, <3>4, <4>2
        <5>2. PICK j \in 1..Len(q) : q[j] = Pair(k, norm[k])
          BY <5>1
        <5>3. j \in 1..Len(keys[i]) /\ keys[i][j] = Pair(k, norm[k])
          BY <2>1, <3>2, <5>2
        <5> QED
          BY <5>3
      <4> QED
        BY <4>1, <4>2
    <3>5. Len(keys[i]) \in 0..i
      BY <2>1, <3>2
    <3> QED
      BY <3>2, <3>3, <3>4, <3>5
  <2> QED
    BY <2>2, <2>3
<1>13. NParams \in G
  <2> HIDE DEF G
  <2>1. \A k \in 0..NParams : k \in G
    BY <1>1, <1>11, <1>12, UpTo
  <2> QED
    BY <1>1, <2>1
<1> DEFINE q == keys[NParams]
<1>14. /\ q \in Seq(Line) /\ Len(q) \in 0..NParams
       /\ \A j \in 1..Len(q) : \E k \in Carried : q[j] = Pair(k, norm[k])
       /\ \A k \in Carried : \E j \in 1..Len(q) : q[j] = Pair(k, norm[k])
  <2>1. Written(NParams, q) /\ \A k \in Carried : k < NParams
    BY <1>1, <1>2, <1>13
  <2> HIDE DEF q
  <2> QED
    BY <2>1
<1>15. <<Header(FormatVersion)>> \in Seq(Line)
  BY TextAssumption DEF Line
<1>16. Serialise(norm) = <<Header(FormatVersion)>> \o q
  BY <1>9
<1> HIDE DEF q
<1>17. /\ Serialise(norm) \in Seq(Line) /\ Len(Serialise(norm)) = Len(q) + 1
       /\ Serialise(norm)[1] = Header(FormatVersion)
       /\ \A i \in 2..Len(q) + 1 : Serialise(norm)[i] = q[i - 1]
  BY <1>14, <1>15, <1>16, ConcatProperties
<1>18. \A i \in 2..Len(q) + 1 : \E k \in Carried : Serialise(norm)[i] = Pair(k, norm[k])
  BY <1>14, <1>17
<1>19. \A k \in Carried : \E i \in 2..Len(q) + 1 : Serialise(norm)[i] = Pair(k, norm[k])
  <2> TAKE k \in Carried
  <2>1. PICK j \in 1..Len(q) : q[j] = Pair(k, norm[k])
    BY <1>14
  <2>2. j + 1 \in 2..Len(q) + 1 /\ (j + 1) - 1 = j
    BY <1>14
  <2> QED
    BY <1>17, <2>1, <2>2
<1> QED
  <2>1. Len(Serialise(norm)) = Len(q) + 1 /\ Len(q) + 1 \in 1..NParams + 1
    BY <1>1, <1>14, <1>17
  <2>2. 2..Len(Serialise(norm)) = 2..Len(q) + 1
    BY <2>1
  <2> QED
    BY <1>17, <1>18, <1>19, <2>1, <2>2

\* What is saved is what is loaded.
LEMMA ParseSaved ==
  ASSUME NEW saved \in Norms, NEW old \in Norms
  PROVE  /\ Parses(Serialise(saved))
         /\ Agree(Parse(Serialise(saved), old), saved, Carried)
<1> DEFINE lines == Serialise(saved)
           n == Len(lines)
<1>1. /\ lines \in Seq(Line) /\ n \in 1..NParams + 1 /\ lines[1] = Header(FormatVersion)
      /\ \A i \in 2..n : \E k \in Carried : lines[i] = Pair(k, saved[k])
      /\ \A k \in Carried : \E i \in 2..n : lines[i] = Pair(k, saved[k])
  BY SerialiseIs
<1> HIDE DEF lines
<1>2. NParams \in Nat /\ n \in Nat /\ 1 <= n /\ 1 \in Int /\ n \in Int
  BY <1>1, BlobAssumption
<1>3. \A k \in Carried : k \in Table /\ k \in Int /\ saved[k] \in Int /\ saved[k] # Bad /\ ToNorm(k, saved[k]) = saved[k]
  <2> TAKE k \in Carried
  <2>1. k \in Table /\ k \in Int /\ saved[k] \in Norm /\ saved[k] \in Int
    BY TextAssumption, BlobAssumption DEF Norms, Norm, Table
  <2> QED
    BY <2>1, NormTypes, TextAssumption
<1>4. \A i \in 2..n : \E k \in Carried : lines[i].kind = "pair" /\ lines[i].key = k /\ lines[i].value = saved[k]
  <2> TAKE i \in 2..n
  <2>1. PICK k \in Carried : lines[i] = Pair(k, saved[k])
    BY <1>1
  <2> QED
    BY <2>1 DEF Pair
<1>5. Parses(lines)
  <2>1. lines[1].kind = "header" /\ lines[1].version \in 1..FormatVersion
    BY <1>1, TextAssumption DEF Header
  <2>2. n \in 1..MaxLines
    BY <1>1, <1>2, TextAssumption
  <2> QED
    BY <1>3, <1>4, <2>1, <2>2 DEF Parses
<1>6. PICK v \in [1..n -> Norms] :
        /\ v[1] = Start(old) /\ \A i \in 2..n : v[i] = Applied(lines[i], v[i - 1])
        /\ Parse(lines, old) = v[n]
  BY <1>1, <1>5, ParseRuns
<1> DEFINE Read(i) == \A k \in Carried :
             (\E j \in 2..i : lines[j] = Pair(k, saved[k])) => v[i][k] = saved[k]
           G == {i \in 1..n : Read(i)}
<1>7. 1 \in G
  BY <1>2
<1>8. \A i \in 1..n : i # 1 /\ i - 1 \in G => i \in G
  <2> SUFFICES ASSUME NEW i \in 2..n, Read(i - 1) PROVE Read(i)
    <3> HIDE DEF Read
    <3> QED
      BY <1>2
  <2>1. PICK c \in Carried : lines[i].kind = "pair" /\ lines[i].key = c /\ lines[i].value = saved[c]
    BY <1>4
  <2>2. v[i - 1] \in [Table -> Norm]
    BY <1>2, <1>6 DEF Norms
  <2>3. v[i] = [v[i - 1] EXCEPT ![c] = saved[c]]
    <3>1. v[i] = Applied(lines[i], v[i - 1])
      BY <1>6
    <3>2. Applied(lines[i], v[i - 1]) = [v[i - 1] EXCEPT ![c] = ToNorm(c, saved[c])]
      BY <2>1 DEF Applied, Carries
    <3> QED
      BY <1>3, <3>1, <3>2
  <2> SUFFICES ASSUME NEW k \in Carried, NEW j \in 2..i, lines[j] = Pair(k, saved[k])
               PROVE  v[i][k] = saved[k]
    OBVIOUS
  <2>4. CASE k = c
    BY <1>3, <2>2, <2>3, <2>4
  <2>5. CASE k # c
    <3>1. lines[j].key = k
      BY DEF Pair
    <3>2. j \in 2..i - 1
      BY <2>1, <2>5, <3>1
    <3>3. v[i - 1][k] = saved[k]
      BY <3>2
    <3> QED
      BY <1>3, <2>2, <2>3, <2>5, <3>3
  <2> QED
    BY <2>4, <2>5
<1>9. \A i \in 1..n : i \in G
  <2> HIDE DEF G, n
  <2> QED
    BY <1>2, <1>7, <1>8, UpTo
<1>10. Read(n)
  BY <1>2, <1>9
<1>11. Agree(Parse(lines, old), saved, Carried)
  BY <1>1, <1>6, <1>10 DEF Agree
<1> QED
  BY <1>5, <1>11 DEF lines

\* A line of a later build changes nothing, wherever it stands.
LEMMA Insert ==
  ASSUME NEW lines \in Seq(Line), Parses(lines), Len(lines) < MaxLines, NEW old \in Norms,
         NEW i \in 1..Len(lines), NEW line \in Line, ~Carries(line), line.kind # "junk"
  PROVE  Parse(SubSeq(lines, 1, i) \o <<line>> \o SubSeq(lines, i + 1, Len(lines)), old)
           = Parse(lines, old)
<1> DEFINE n == Len(lines)
           long == SubSeq(lines, 1, i) \o <<line>> \o SubSeq(lines, i + 1, n)
<1>1. n \in Nat /\ i \in Nat /\ 1 <= i /\ i <= n /\ 1 <= n /\ 1 \in Int /\ n \in Int
  OBVIOUS
<1>2. /\ long \in Seq(Line) /\ Len(long) = n + 1
      /\ \A j \in 1..i : long[j] = lines[j]
      /\ long[i + 1] = line
      /\ \A j \in i + 1..n : long[j + 1] = lines[j]
  <2> DEFINE a == SubSeq(lines, 1, i)
             b == <<line>>
             c == SubSeq(lines, i + 1, n)
  <2>1. a \in Seq(Line) /\ Len(a) = i /\ \A j \in 1..i : a[j] = lines[j]
    BY <1>1, SubSeqProperties
  <2>2. c \in Seq(Line) /\ Len(c) = n - i /\ \A j \in 1..n - i : c[j] = lines[i + j]
    BY <1>1, SubSeqProperties
  <2>3. b \in Seq(Line) /\ Len(b) = 1 /\ b[1] = line
    OBVIOUS
  <2> HIDE DEF a, b, c
  <2>4. /\ a \o b \in Seq(Line) /\ Len(a \o b) = i + 1
        /\ \A j \in 1..i : (a \o b)[j] = lines[j]
        /\ (a \o b)[i + 1] = line
    <3>1. a \o b \in Seq(Line) /\ Len(a \o b) = Len(a) + Len(b)
      BY <2>1, <2>3, ConcatProperties
    <3>2. \A j \in 1..Len(a) + Len(b) : (a \o b)[j] = IF j <= Len(a) THEN a[j] ELSE b[j - Len(a)]
      BY <2>1, <2>3, ConcatProperties
    <3>3. (i + 1) - i = 1 /\ i + 1 \in 1..i + 1 /\ ~(i + 1 <= i)
      BY <1>1
    <3> QED
      BY <1>1, <2>1, <2>3, <3>1, <3>2, <3>3
  <2> DEFINE d == a \o b
  <2>5. long = d \o c
    BY DEF a, b, c
  <2> HIDE DEF d, long
  <2>6. d \in Seq(Line) /\ Len(d) = i + 1
    BY <2>4 DEF d
  <2>7. /\ d \o c \in Seq(Line) /\ Len(d \o c) = n + 1
        /\ \A j \in 1..i + 1 : (d \o c)[j] = d[j]
        /\ \A j \in i + 2..n + 1 : (d \o c)[j] = c[j - (i + 1)]
    BY <1>1, <2>2, <2>6, ConcatProperties
  <2>8. \A j \in i + 1..n : (d \o c)[j + 1] = lines[j]
    <3> TAKE j \in i + 1..n
    <3>1. j + 1 \in i + 2..n + 1 /\ (j + 1) - (i + 1) = j - i /\ j - i \in 1..n - i /\ i + (j - i) = j
      BY <1>1
    <3> QED
      BY <2>2, <2>7, <3>1
  <2> QED
    BY <1>1, <2>4, <2>5, <2>7, <2>8 DEF d
<1> HIDE DEF long
<1>3. Parses(long)
  <2>1. Len(long) \in 1..MaxLines /\ long[1] = lines[1]
    BY <1>1, <1>2, TextAssumption
  <2>2. ASSUME NEW j \in 2..n + 1
        PROVE  /\ long[j].kind # "junk"
               /\ Carries(long[j]) => long[j].value # Bad
    <3>1. CASE j <= i
      <4>1. j \in 2..n /\ long[j] = lines[j]
        BY <1>1, <1>2, <3>1
      <4> QED
        BY <4>1 DEF Parses, Carries
    <3>2. CASE j = i + 1
      BY <1>2, <3>2
    <3>3. CASE j > i + 1
      <4>1. j - 1 \in i + 1..n /\ j - 1 \in 2..n /\ (j - 1) + 1 = j
        BY <1>1, <3>3
      <4>2. long[j] = lines[j - 1]
        BY <1>2, <4>1
      <4> QED
        BY <4>1, <4>2 DEF Parses, Carries
    <3> QED
      BY <1>1, <3>1, <3>2, <3>3
  <2>3. lines[1].kind = "header" /\ lines[1].version \in 1..FormatVersion
    BY DEF Parses
  <2> QED
    BY <1>2, <2>1, <2>2, <2>3 DEF Parses, Carries
<1>4. PICK v \in [1..n -> Norms] :
        /\ v[1] = Start(old) /\ \A j \in 2..n : v[j] = Applied(lines[j], v[j - 1])
        /\ Parse(lines, old) = v[n]
  BY ParseRuns
<1>5. PICK w \in [1..n + 1 -> Norms] :
        /\ w[1] = Start(old) /\ \A j \in 2..n + 1 : w[j] = Applied(long[j], w[j - 1])
        /\ Parse(long, old) = w[n + 1]
  <2>1. \E w \in [1..Len(long) -> Norms] :
          /\ w[1] = Start(old) /\ \A j \in 2..Len(long) : w[j] = Applied(long[j], w[j - 1])
          /\ Parse(long, old) = w[Len(long)]
    BY <1>2, <1>3, ParseRuns
  <2>2. Len(long) = n + 1
    BY <1>2
  <2> HIDE DEF n
  <2> QED
    BY <2>1, <2>2
<1>6. w[i + 1] = w[i]
  <2>1. i + 1 \in 2..n + 1 /\ (i + 1) - 1 = i
    BY <1>1
  <2>2. w[i + 1] = Applied(line, w[i])
    BY <1>2, <1>5, <2>1
  <2> QED
    BY <2>2 DEF Applied
<1> DEFINE Same(j) == (j <= i => w[j] = v[j]) /\ (i <= j => w[j + 1] = v[j])
           G == {j \in 1..n : Same(j)}
<1>7. 1 \in G
  BY <1>1, <1>4, <1>5, <1>6
<1>8. \A j \in 1..n : j # 1 /\ j - 1 \in G => j \in G
  <2> SUFFICES ASSUME NEW j \in 2..n, Same(j - 1) PROVE Same(j)
    <3> HIDE DEF Same
    <3> QED
      BY <1>1
  <2>1. CASE j <= i
    <3>1. w[j] = Applied(lines[j], w[j - 1]) /\ w[j - 1] = v[j - 1]
      BY <1>1, <1>2, <1>5, <2>1
    <3>2. w[j] = v[j]
      BY <1>4, <3>1
    <3> QED
      BY <1>1, <1>6, <2>1, <3>2
  <2>2. CASE j > i
    <3>1. w[j + 1] = Applied(lines[j], w[j]) /\ w[j] = v[j - 1]
      <4>1. j + 1 \in 2..n + 1 /\ (j + 1) - 1 = j /\ j \in i + 1..n /\ i <= j - 1 /\ (j - 1) + 1 = j
        BY <1>1, <2>2
      <4> QED
        BY <1>2, <1>5, <4>1
    <3> QED
      BY <1>1, <1>4, <2>2, <3>1
  <2> QED
    BY <1>1, <2>1, <2>2
<1>9. \A j \in 1..n : j \in G
  <2> HIDE DEF G, n
  <2> QED
    BY <1>1, <1>7, <1>8, UpTo
<1>10. Parse(long, old) = Parse(lines, old)
  BY <1>1, <1>4, <1>5, <1>9
<1> QED
  BY <1>10 DEF long

\* The text a process is about to parse is applied whole or not at all, and what is saved
\* is what is loaded (presetstore.cpp 136-206).
LEMMA TextsWhole == AllTextsWhole
<1>1. ASSUME NEW saved \in Norms, NEW old \in Norms
      PROVE  LET lines == Serialise(saved)
                 new   == Parse(lines, old)
             IN  /\ Parses(lines) /\ Agree(new, saved, Carried)
                 /\ \A i \in 1..Len(lines), line \in {Skipped, Pair(Unknown, Bad)} :
                      Parse(SubSeq(lines, 1, i) \o <<line>> \o SubSeq(lines, i + 1, Len(lines)), old) = new
  <2> DEFINE lines == Serialise(saved)
  <2>1. lines \in Seq(Line) /\ Len(lines) < MaxLines /\ Parses(lines)
        /\ Agree(Parse(lines, old), saved, Carried)
    BY SerialiseIs, ParseSaved, BlobAssumption, TextAssumption
  <2> HIDE DEF lines
  <2>2. \A line \in {Skipped, Pair(Unknown, Bad)} :
           line \in Line /\ ~Carries(line) /\ line.kind # "junk"
    <3>1. NParams \in Int /\ NParams \notin Carried
      BY BlobAssumption, TextAssumption DEF Table
    <3>2. Skipped \in Line /\ Pair(Unknown, Bad) \in Line
      BY <3>1 DEF Line, Unknown
    <3> QED
      BY <3>1, <3>2 DEF Carries, Skipped, Pair, Unknown
  <2>3. \A i \in 1..Len(lines), line \in {Skipped, Pair(Unknown, Bad)} :
           Parse(SubSeq(lines, 1, i) \o <<line>> \o SubSeq(lines, i + 1, Len(lines)), old)
             = Parse(lines, old)
    BY <2>1, <2>2, Insert
  <2> QED
    BY <2>1, <2>3 DEF lines
<1>2. ASSUME NEW lines \in Texts, NEW old \in Norms
      PROVE  LET new == Parse(lines, old)
             IN  /\ new \in Norms
                 /\ Agree(new, old, Table \ Carried)
                 /\ Parses(lines) => Agree(new, Parse(lines, Def), Carried)
                 /\ ~Parses(lines) => new = old
  <2>1. Lines \subseteq Line
    <3>1. NParams \in Nat /\ FormatVersion \in Nat /\ Top \in Nat
      BY BlobAssumption, TextAssumption
    <3>2. /\ \A x \in 0..FormatVersion + 1 : x \in Int
          /\ \A x \in 0..NParams : x \in Int
          /\ \A x \in {-1, 0, Top, Top + 1, Bad} : x \in Int \cup {Bad}
      BY <3>1
    <3> QED
      <4>1. \A x \in 0..FormatVersion + 1 : Header(x) \in Line
        BY <3>2 DEF Line
      <4>2. ASSUME NEW x \in 0..NParams, NEW y \in {-1, 0, Top, Top + 1, Bad}
            PROVE  Pair(x, y) \in Line
        BY <3>2 DEF Line
      <4>3. Skipped \in Line /\ Junk \in Line
        BY DEF Line
      <4> QED
        BY <4>1, <4>2, <4>3 DEF Lines, Unknown
  <2>2. lines \in Seq(Line)
    <3>1. PICK n \in 0..3 : lines \in [1..n -> Lines]
      BY DEF Texts
    <3>2. lines \in [1..n -> Line] /\ n \in Nat
      BY <2>1, <3>1
    <3> QED
      BY <3>2, SeqDef
  <2> QED
    BY <2>2, ParseIsWhole
<1> QED
  BY <1>1, <1>2 DEF AllTextsWhole

-----------------------------------------------------------------------------
(* The order of the list *)

\* Any sequence of characters, of whatever length.
AnyName == Seq(Nat)

Alike(a, b) == Differ(a, b) = {}

\* Two names part at i, or nowhere.
Part(a, b, i) == i \in Differ(a, b) /\ \A j \in Differ(a, b) : i <= j

LEMMA Parting ==
  ASSUME NEW a \in AnyName, NEW b \in AnyName
  PROVE  /\ Differ(a, b) \subseteq Nat
         /\ ~Alike(a, b) => \E i \in Nat : Part(a, b, i)
         /\ \A i : Part(a, b, i) => ~Alike(a, b) /\ FirstOf(Differ(a, b)) = i
<1>1. Differ(a, b) \subseteq Nat
  BY DEF Differ, AnyName
<1>2. ASSUME ~Alike(a, b) PROVE \E i \in Nat : Part(a, b, i)
  BY <1>1, <1>2, LeastNumber DEF Alike, Part
<1>3. ASSUME NEW i, Part(a, b, i)
      PROVE  ~Alike(a, b) /\ FirstOf(Differ(a, b)) = i
  BY <1>1, <1>3 DEF Alike, Part, FirstOf
<1> QED
  BY <1>1, <1>2, <1>3

\* Where two names part, and that they are alike before it.
LEMMA PartIs ==
  ASSUME NEW a \in AnyName, NEW b \in AnyName, NEW i \in Nat
  PROVE  Part(a, b, i) <=>
           /\ i \in 1..Len(a) /\ i \in 1..Len(b) /\ Lower(a[i]) # Lower(b[i])
           /\ \A j \in 1..i - 1 : Lower(a[j]) = Lower(b[j])
<1>1. Len(a) \in Nat /\ Len(b) \in Nat
  BY DEF AnyName
<1>2. \A j : j \in Differ(a, b) <=>
               j \in 1..Len(a) /\ j \in 1..Len(b) /\ Lower(a[j]) # Lower(b[j])
  BY <1>1 DEF Differ
<1> QED
  BY <1>1, <1>2 DEF Part

LEMMA AlikeIs ==
  ASSUME NEW a \in AnyName, NEW b \in AnyName
  PROVE  Alike(a, b) <=> \A j \in 1..Len(a) : j <= Len(b) => Lower(a[j]) = Lower(b[j])
  BY DEF Alike, Differ

\* lessName by its three cases.
LEMMA LessIs ==
  ASSUME NEW a \in AnyName, NEW b \in AnyName
  PROVE  LessName(a, b) <=>
           \/ \E i \in Nat : Part(a, b, i) /\ Lower(a[i]) < Lower(b[i])
           \/ Alike(a, b) /\ Len(a) < Len(b)
           \/ Alike(a, b) /\ Len(a) = Len(b) /\ ByteLess(a, b)
<1>1. CASE Alike(a, b)
  <2>1. \A i : ~Part(a, b, i)
    BY <1>1 DEF Alike, Part
  <2>2. Len(a) \in Nat /\ Len(b) \in Nat
    BY DEF AnyName
  <2>3. LessName(a, b) <=> IF Len(a) # Len(b) THEN Len(a) < Len(b) ELSE ByteLess(a, b)
    BY <1>1 DEF Alike, LessName
  <2> QED
    BY <1>1, <2>1, <2>2, <2>3
<1>2. CASE ~Alike(a, b)
  <2>1. PICK i \in Nat : Part(a, b, i)
    BY <1>2, Parting
  <2>2. \A j : Part(a, b, j) => j = i
    BY <2>1, Parting
  <2>3. LessName(a, b) <=> Lower(a[i]) < Lower(b[i])
    BY <1>2, <2>1, Parting DEF Alike, LessName
  <2> QED
    BY <1>2, <2>1, <2>2, <2>3
<1> QED
  BY <1>1, <1>2

LEMMA LowerType == \A c \in Nat : Lower(c) \in Nat
  BY DEF Lower

LEMMA LetterType ==
  ASSUME NEW a \in AnyName
  PROVE  Len(a) \in Nat /\ \A i \in 1..Len(a) : a[i] \in Nat /\ Lower(a[i]) \in Nat
<1>1. Len(a) \in Nat /\ \A i \in 1..Len(a) : a[i] \in Nat
  BY ElementOfSeq DEF AnyName
<1> QED
  BY <1>1, LowerType

\* Names part at one place, whichever comes first.
LEMMA Symmetric ==
  ASSUME NEW a \in AnyName, NEW b \in AnyName
  PROVE  /\ Alike(a, b) <=> Alike(b, a)
         /\ \A i \in Nat : Part(a, b, i) <=> Part(b, a, i)
<1>1. Differ(a, b) = Differ(b, a)
  BY LetterType DEF Differ
<1> QED
  BY <1>1 DEF Alike, Part

LEMMA ByteLessOrders ==
  ASSUME NEW a \in AnyName, NEW b \in AnyName, Len(a) = Len(b)
  PROVE  /\ a = b <=> ~ByteLess(a, b) /\ ~ByteLess(b, a)
         /\ ~(ByteLess(a, b) /\ ByteLess(b, a))
         /\ \A c \in AnyName : Len(c) = Len(b) /\ ByteLess(a, b) /\ ByteLess(b, c) => ByteLess(a, c)
<1> DEFINE D == {i \in 1..Len(a) : a[i] # b[i]}
<1>0. Len(a) \in Nat /\ D \subseteq Nat /\ \A i \in 1..Len(a) : a[i] \in Nat /\ b[i] \in Nat
  BY LetterType
<1>1. ASSUME a # b PROVE ByteLess(a, b) \/ ByteLess(b, a)
  <2>1. D # {}
    BY <1>1, SeqEqual DEF AnyName
  <2>2. PICK i \in D : \A j \in D : i <= j
    BY <1>0, <2>1, LeastNumber
  <2>3. \A j \in 1..i - 1 : a[j] = b[j]
    BY <1>0, <2>2
  <2>4. a[i] < b[i] \/ b[i] < a[i]
    BY <1>0, <2>2
  <2> QED
    BY <1>0, <2>2, <2>3, <2>4 DEF ByteLess
<1>2. ~(ByteLess(a, b) /\ ByteLess(b, a))
  <2> SUFFICES ASSUME ByteLess(a, b), ByteLess(b, a) PROVE FALSE
    OBVIOUS
  <2>1. PICK i \in 1..Len(a) : a[i] < b[i] /\ \A j \in 1..i - 1 : a[j] = b[j]
    BY DEF ByteLess
  <2>2. PICK k \in 1..Len(a) : b[k] < a[k] /\ \A j \in 1..k - 1 : b[j] = a[j]
    BY DEF ByteLess
  <2>3. ~(i < k) /\ ~(k < i) /\ i # k
    BY <1>0, <2>1, <2>2
  <2> QED
    BY <1>0, <2>3
<1>3. a = b => ~ByteLess(a, b)
  BY <1>2
<1>4. ASSUME NEW c \in AnyName, Len(c) = Len(b), ByteLess(a, b), ByteLess(b, c)
      PROVE  ByteLess(a, c)
  <2>1. PICK i \in 1..Len(a) : a[i] < b[i] /\ \A j \in 1..i - 1 : a[j] = b[j]
    BY <1>4 DEF ByteLess
  <2>2. PICK k \in 1..Len(a) : b[k] < c[k] /\ \A j \in 1..k - 1 : b[j] = c[j]
    BY <1>4 DEF ByteLess
  <2>3. \A j \in 1..Len(a) : c[j] \in Nat
    BY <1>4, LetterType
  <2>4. CASE i <= k
    <3>1. a[i] < c[i] /\ \A j \in 1..i - 1 : a[j] = c[j]
      BY <1>0, <2>1, <2>2, <2>3, <2>4
    <3> QED
      BY <3>1 DEF ByteLess
  <2>5. CASE k < i
    <3>1. a[k] < c[k] /\ \A j \in 1..k - 1 : a[j] = c[j]
      BY <1>0, <2>1, <2>2, <2>3, <2>5
    <3> QED
      BY <3>1 DEF ByteLess
  <2> QED
    BY <1>0, <2>4, <2>5
<1> QED
  BY <1>1, <1>2, <1>3, <1>4

\* Where two pairs of names part decides where their ends do.
LEMMA PartsInTurn ==
  ASSUME NEW a \in AnyName, NEW b \in AnyName, NEW c \in AnyName
  PROVE  /\ \A i \in Nat : Part(a, b, i) /\ Alike(b, c) /\ Len(b) <= Len(c)
              => Part(a, c, i) /\ Lower(b[i]) = Lower(c[i])
         /\ \A i \in Nat : Alike(a, b) /\ Len(a) <= Len(b) /\ Part(b, c, i)
              => \/ i <= Len(a) /\ Part(a, c, i) /\ Lower(a[i]) = Lower(b[i])
                 \/ Alike(a, c) /\ Len(a) < Len(c)
         /\ \A i, j \in Nat : Part(a, b, i) /\ Part(b, c, j) /\ i < j
              => Part(a, c, i) /\ Lower(b[i]) = Lower(c[i])
         /\ \A i, j \in Nat : Part(a, b, i) /\ Part(b, c, j) /\ j < i
              => Part(a, c, j) /\ Lower(a[j]) = Lower(b[j])
         /\ Alike(a, b) /\ Alike(b, c) /\ Len(a) <= Len(b) /\ Len(b) <= Len(c) => Alike(a, c)
<1>1. Len(a) \in Nat /\ Len(b) \in Nat /\ Len(c) \in Nat
  BY LetterType
<1>2. ASSUME NEW i \in Nat, Part(a, b, i), Alike(b, c), Len(b) <= Len(c)
      PROVE  Part(a, c, i) /\ Lower(b[i]) = Lower(c[i])
  <2>1. /\ i \in 1..Len(a) /\ i \in 1..Len(b) /\ Lower(a[i]) # Lower(b[i])
        /\ \A j \in 1..i - 1 : Lower(a[j]) = Lower(b[j])
    BY <1>2, PartIs
  <2>2. \A j \in 1..i : Lower(b[j]) = Lower(c[j])
    BY <1>1, <1>2, <2>1, AlikeIs
  <2>3. i \in 1..Len(c) /\ Lower(a[i]) # Lower(c[i]) /\ Lower(b[i]) = Lower(c[i])
    BY <1>1, <1>2, <2>1, <2>2
  <2>4. \A j \in 1..i - 1 : Lower(a[j]) = Lower(c[j])
    BY <2>1, <2>2
  <2> QED
    BY <2>1, <2>3, <2>4, PartIs
<1>3. ASSUME NEW i \in Nat, Alike(a, b), Len(a) <= Len(b), Part(b, c, i)
      PROVE  \/ i <= Len(a) /\ Part(a, c, i) /\ Lower(a[i]) = Lower(b[i])
             \/ Alike(a, c) /\ Len(a) < Len(c)
  <2>1. /\ i \in 1..Len(b) /\ i \in 1..Len(c) /\ Lower(b[i]) # Lower(c[i])
        /\ \A j \in 1..i - 1 : Lower(b[j]) = Lower(c[j])
    BY <1>3, PartIs
  <2>2. \A j \in 1..Len(a) : Lower(a[j]) = Lower(b[j])
    BY <1>1, <1>3, AlikeIs
  <2>3. CASE i <= Len(a)
    <3>1. i \in 1..Len(a) /\ Lower(a[i]) = Lower(b[i]) /\ Lower(a[i]) # Lower(c[i])
      BY <1>1, <2>1, <2>2, <2>3
    <3>2. \A j \in 1..i - 1 : Lower(a[j]) = Lower(c[j])
      BY <1>1, <2>1, <2>2, <2>3
    <3> QED
      BY <2>1, <2>3, <3>1, <3>2, PartIs
  <2>4. CASE Len(a) < i
    <3>1. \A j \in 1..Len(a) : Lower(a[j]) = Lower(c[j])
      BY <1>1, <2>1, <2>2, <2>4
    <3> QED
      BY <1>1, <2>1, <2>4, <3>1, AlikeIs
  <2> QED
    BY <1>1, <2>3, <2>4
<1>4. ASSUME NEW i \in Nat, NEW j \in Nat, Part(a, b, i), Part(b, c, j), i < j
      PROVE  Part(a, c, i) /\ Lower(b[i]) = Lower(c[i])
  <2>1. /\ i \in 1..Len(a) /\ i \in 1..Len(b) /\ Lower(a[i]) # Lower(b[i])
        /\ \A k \in 1..i - 1 : Lower(a[k]) = Lower(b[k])
        /\ j \in 1..Len(c) /\ \A k \in 1..j - 1 : Lower(b[k]) = Lower(c[k])
    BY <1>4, PartIs
  <2>2. i \in 1..Len(c) /\ i \in 1..j - 1
    BY <1>1, <1>4, <2>1
  <2>3. \A k \in 1..i - 1 : k \in 1..j - 1
    BY <1>4
  <2> QED
    BY <2>1, <2>2, <2>3, PartIs
<1>5. ASSUME NEW i \in Nat, NEW j \in Nat, Part(a, b, i), Part(b, c, j), j < i
      PROVE  Part(a, c, j) /\ Lower(a[j]) = Lower(b[j])
  <2>1. /\ i \in 1..Len(a) /\ \A k \in 1..i - 1 : Lower(a[k]) = Lower(b[k])
        /\ j \in 1..Len(b) /\ j \in 1..Len(c) /\ Lower(b[j]) # Lower(c[j])
        /\ \A k \in 1..j - 1 : Lower(b[k]) = Lower(c[k])
    BY <1>5, PartIs
  <2>2. j \in 1..Len(a) /\ j \in 1..i - 1
    BY <1>1, <1>5, <2>1
  <2>3. \A k \in 1..j - 1 : k \in 1..i - 1
    BY <1>5
  <2> QED
    BY <2>1, <2>2, <2>3, PartIs
<1>6. ASSUME Alike(a, b), Alike(b, c), Len(a) <= Len(b), Len(b) <= Len(c)
      PROVE  Alike(a, c)
  <2>1. \A j \in 1..Len(a) : Lower(a[j]) = Lower(b[j]) /\ Lower(b[j]) = Lower(c[j])
    BY <1>1, <1>6, AlikeIs
  <2> QED
    BY <2>1, AlikeIs
<1> QED
  BY <1>2, <1>3, <1>4, <1>5, <1>6

\* Of two names one comes first, and only one,
LEMMA LessIsTotal ==
  ASSUME NEW a \in AnyName, NEW b \in AnyName
  PROVE  /\ a = b <=> ~LessName(a, b) /\ ~LessName(b, a)
         /\ ~(LessName(a, b) /\ LessName(b, a))
<1>0. /\ Len(a) \in Nat /\ Len(b) \in Nat
      /\ \A i \in 1..Len(a) : Lower(a[i]) \in Nat
      /\ \A i \in 1..Len(b) : Lower(b[i]) \in Nat
  BY LetterType
<1>1. CASE Alike(a, b)
  <2>1. Alike(b, a) /\ \A i : ~Part(a, b, i) /\ ~Part(b, a, i)
    BY <1>1, Symmetric DEF Alike, Part
  <2>2. LessName(a, b) <=> Len(a) < Len(b) \/ (Len(a) = Len(b) /\ ByteLess(a, b))
    BY <1>1, <2>1, LessIs
  <2>3. LessName(b, a) <=> Len(b) < Len(a) \/ (Len(b) = Len(a) /\ ByteLess(b, a))
    BY <2>1, LessIs
  <2>4. CASE Len(a) = Len(b)
    BY <1>0, <2>2, <2>3, <2>4, ByteLessOrders
  <2>5. CASE Len(a) # Len(b)
    BY <1>0, <2>2, <2>3, <2>5
  <2> QED
    BY <2>4, <2>5
<1>2. CASE ~Alike(a, b)
  <2>1. PICK i \in Nat : Part(a, b, i)
    BY <1>2, Parting
  <2>2. ~Alike(b, a) /\ Part(b, a, i) /\ Lower(a[i]) # Lower(b[i])
        /\ Lower(a[i]) \in Nat /\ Lower(b[i]) \in Nat
    BY <1>0, <1>2, <2>1, Symmetric, PartIs
  <2>3. \A j \in Nat : (Part(a, b, j) => j = i) /\ (Part(b, a, j) => j = i)
    BY <2>1, <2>2, Parting
  <2>4. LessName(a, b) <=> Lower(a[i]) < Lower(b[i])
    BY <1>2, <2>1, <2>3, LessIs
  <2>5. LessName(b, a) <=> Lower(b[i]) < Lower(a[i])
    BY <2>2, <2>3, LessIs
  <2>6. a # b
    BY <2>2
  <2> QED
    BY <2>2, <2>4, <2>5, <2>6
<1> QED
  BY <1>1, <1>2

\* consistently,
LEMMA LessIsTransitive ==
  ASSUME NEW a \in AnyName, NEW b \in AnyName, NEW c \in AnyName,
         LessName(a, b), LessName(b, c)
  PROVE  LessName(a, c)
<1>0. /\ Len(a) \in Nat /\ Len(b) \in Nat /\ Len(c) \in Nat
      /\ \A i \in 1..Len(a) : Lower(a[i]) \in Nat
      /\ \A i \in 1..Len(b) : Lower(b[i]) \in Nat
      /\ \A i \in 1..Len(c) : Lower(c[i]) \in Nat
  BY LetterType
<1>1. ASSUME NEW i \in Nat, Part(a, b, i), Lower(a[i]) < Lower(b[i]),
             NEW j \in Nat, Part(b, c, j), Lower(b[j]) < Lower(c[j])
      PROVE  LessName(a, c)
  <2>1. CASE i < j
    <3>1. Part(a, c, i) /\ Lower(a[i]) < Lower(c[i])
      BY <1>1, <2>1, PartsInTurn
    <3> QED
      BY <3>1, LessIs
  <2>2. CASE j < i
    <3>1. Part(a, c, j) /\ Lower(a[j]) < Lower(c[j])
      BY <1>1, <2>2, PartsInTurn
    <3> QED
      BY <3>1, LessIs
  <2>3. CASE i = j
    <3>1. /\ i \in 1..Len(a) /\ i \in 1..Len(b) /\ i \in 1..Len(c)
          /\ \A k \in 1..i - 1 : Lower(a[k]) = Lower(c[k])
      BY <1>1, <2>3, PartIs
    <3>2. Lower(a[i]) < Lower(c[i]) /\ Lower(a[i]) # Lower(c[i])
      BY <1>0, <1>1, <2>3, <3>1
    <3>3. Part(a, c, i)
      BY <3>1, <3>2, PartIs
    <3> QED
      BY <3>2, <3>3, LessIs
  <2> QED
    BY <2>1, <2>2, <2>3
<1>2. ASSUME NEW i \in Nat, Part(a, b, i), Lower(a[i]) < Lower(b[i]),
             Alike(b, c), Len(b) <= Len(c)
      PROVE  LessName(a, c)
  <2>1. Part(a, c, i) /\ Lower(a[i]) < Lower(c[i])
    BY <1>2, PartsInTurn
  <2> QED
    BY <2>1, LessIs
<1>3. ASSUME NEW i \in Nat, Part(b, c, i), Lower(b[i]) < Lower(c[i]),
             Alike(a, b), Len(a) <= Len(b)
      PROVE  LessName(a, c)
  <2>1. \/ Part(a, c, i) /\ Lower(a[i]) < Lower(c[i])
        \/ Alike(a, c) /\ Len(a) < Len(c)
    BY <1>3, PartsInTurn
  <2> QED
    BY <2>1, LessIs
<1>4. ASSUME Alike(a, b), Alike(b, c),
             Len(a) < Len(b) \/ (Len(a) = Len(b) /\ ByteLess(a, b)),
             Len(b) < Len(c) \/ (Len(b) = Len(c) /\ ByteLess(b, c))
      PROVE  LessName(a, c)
  <2>1. Alike(a, c)
    BY <1>0, <1>4, PartsInTurn
  <2>2. CASE Len(a) = Len(b) /\ Len(b) = Len(c)
    <3>1. ByteLess(a, c)
      BY <1>0, <1>4, <2>2, ByteLessOrders
    <3> QED
      BY <2>1, <2>2, <3>1, LessIs
  <2>3. CASE Len(a) < Len(c)
    BY <2>1, <2>3, LessIs
  <2> QED
    BY <1>0, <1>4, <2>2, <2>3
<1>5. \/ \E i \in Nat : Part(a, b, i) /\ Lower(a[i]) < Lower(b[i])
      \/ Alike(a, b) /\ Len(a) < Len(b)
      \/ Alike(a, b) /\ Len(a) = Len(b) /\ ByteLess(a, b)
  BY LessIs
<1>6. \/ \E i \in Nat : Part(b, c, i) /\ Lower(b[i]) < Lower(c[i])
      \/ Alike(b, c) /\ Len(b) < Len(c)
      \/ Alike(b, c) /\ Len(b) = Len(c) /\ ByteLess(b, c)
  BY LessIs
<1> QED
  BY <1>0, <1>1, <1>2, <1>3, <1>4, <1>5, <1>6

\* and nothing else comes between two that differ in case only.
LEMMA CaseStaysTogether ==
  ASSUME NEW a \in AnyName, NEW b \in AnyName, NEW c \in AnyName,
         SameLetters(a, b), LessName(c, b), ~LessName(c, a)
  PROVE  SameLetters(a, c)
<1>0. /\ Len(a) = Len(b) /\ Alike(a, b) /\ Alike(b, a)
      /\ Len(a) \in Nat /\ Len(c) \in Nat
  BY Symmetric, LetterType DEF SameLetters, Alike
<1>1. ASSUME NEW i \in Nat, Part(c, b, i), Lower(c[i]) < Lower(b[i])
      PROVE  FALSE
  <2>1. Part(c, a, i) /\ Lower(c[i]) < Lower(a[i])
    BY <1>0, <1>1, PartsInTurn
  <2> QED
    BY <2>1, LessIs
<1>2. Alike(c, b) /\ (Len(c) < Len(b) \/ Len(c) = Len(b))
  BY <1>1, LessIs
<1>3. Alike(c, a)
  BY <1>0, <1>2, PartsInTurn
<1>4. Len(c) = Len(a)
  BY <1>0, <1>2, <1>3, LessIs
<1>5. Alike(a, c)
  BY <1>3, Symmetric
<1> QED
  BY <1>4, <1>5 DEF SameLetters, Alike

\* lessName orders names of any length and any characters: totally, one way only,
\* transitively, and deaf to case but between names that differ in nothing else
\* (presetstore.cpp 111-123).
THEOREM LessNameOrders ==
  \A a, b, c \in AnyName :
    /\ a = b <=> ~LessName(a, b) /\ ~LessName(b, a)
    /\ ~(LessName(a, b) /\ LessName(b, a))
    /\ LessName(a, b) /\ LessName(b, c) => LessName(a, c)
    /\ SameLetters(a, b) /\ LessName(c, b) /\ ~LessName(c, a) => SameLetters(a, c)
  BY LessIsTotal, LessIsTransitive, CaseStaysTogether

LEMMA NamesOrder == AllOrdered
<1>1. Names \subseteq AnyName
  <2>1. \A k \in 0..3 : [1..k -> Chars] \subseteq Seq(Nat)
    BY DEF Chars
  <2> QED
    BY <2>1, Zenon DEF Names, AnyName
<1>2. \A a, b \in Names : a \in Smaller[b] <=> LessName(a, b)
  BY DEF Smaller
<1>3. ASSUME NEW a \in Names, NEW b \in Names
      PROVE  /\ (a = b) <=> a \notin Smaller[b] /\ b \notin Smaller[a]
             /\ a \in Smaller[b] => Smaller[a] \subseteq Smaller[b] \ {a}
             /\ SameLetters(a, b) => \A c \in Smaller[b] \ Smaller[a] : SameLetters(a, c)
  <2>1. (a = b) <=> a \notin Smaller[b] /\ b \notin Smaller[a]
    BY <1>1, <1>2, LessIsTotal
  <2>2. ASSUME a \in Smaller[b], NEW c \in Smaller[a]
        PROVE  c \in Smaller[b] \ {a}
    <3>1. c \in Names
      BY DEF Smaller
    <3> QED
      BY <1>1, <1>2, <2>2, <3>1, LessIsTotal, LessIsTransitive
  <2>3. ASSUME SameLetters(a, b), NEW c \in Smaller[b] \ Smaller[a]
        PROVE  SameLetters(a, c)
    <3>1. c \in Names
      BY DEF Smaller
    <3> QED
      BY <1>1, <1>2, <2>3, <3>1, CaseStaysTogether
  <2> QED
    BY <2>1, <2>2, <2>3
<1> QED
  BY <1>3 DEF AllOrdered

-----------------------------------------------------------------------------
(* Texts and names in the store *)

\* Whoever saves and whatever fails, the text that a process is about to parse is applied
\* whole or not at all, and what is saved is what is loaded (presetstore.cpp 136-206).
THEOREM TextsStayWhole == Spec => []TextsAreWhole
<1>1. TextsAreWhole
  BY TextsWhole DEF TextsAreWhole
<1> QED
  BY <1>1, PTL

\* The order of the list is one std::sort can count on, whichever presets there are
\* (presetstore.cpp 111-123, 264).
THEOREM NamesStayOrdered == Spec => []NamesAreOrdered
<1>1. NamesAreOrdered
  BY NamesOrder DEF NamesAreOrdered
<1> QED
  BY <1>1, PTL
=============================================================================
