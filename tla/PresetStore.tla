----------------------------- MODULE PresetStore -----------------------------
(***************************************************************************)
(* One preset of the store (src/src/presets/presetstore.cpp), call by call *)
(* on the file system. Each host process runs save, load and remove on its *)
(* own message thread; every process finds the same directory from $HOME.  *)
(* Any call may fail, a process may die between two calls, and the power   *)
(* may go. Presets of other names never share a file with this one.        *)
(*                                                                         *)
(* The text of a sound is Parts pieces, the header first. The file system  *)
(* is the POSIX one: an open descriptor keeps its file through unlink and  *)
(* rename, and a power cut takes the directory back to a committed state   *)
(* and keeps only the data that was fsynced.                               *)
(***************************************************************************)
EXTENDS Naturals

CONSTANTS
  Proc,     \* host processes with the plug-in loaded
  Saver,    \* those whose user saves this preset
  Sound,    \* the knob positions a save may store
  Parts,    \* pieces the text of a sound is written in
  File,     \* files the disk has room for
  None      \* no file, no sound

ASSUME StoreAssumption ==
  /\ Saver \subseteq Proc
  /\ Parts \in Nat \ {0}
  /\ None \notin Sound /\ None \notin File

VARIABLES
  dir,      \* dir[e]: the file the directory entry names, e = "preset" or "temp"
  disk,     \* the directory last committed to the disk
  text,     \* text[f]: whose sound, how many parts, and whether fsynced
  pc,       \* pc[p]: the call process p makes next
  fd,       \* fd[p]: the file p has open
  sound,    \* sound[p]: what p is saving
  got,      \* got[p]: parts read so far
  written,  \* written[p]: writeAll and fsync have succeeded
  result,   \* result[p]: what the last operation of p returned
  failed    \* history: a call of p's operation failed on its own

proc == <<pc, fd, sound, got, written, result, failed>>
vars == <<dir, disk, text, proc>>

Entry == {"preset", "temp"}
Blank == [sound |-> None, len |-> 0, synced |-> FALSE]

Init ==
  /\ dir = [e \in Entry |-> None] /\ disk = dir
  /\ text = [f \in File |-> Blank]
  /\ pc = [p \in Proc |-> "idle"]
  /\ fd = [p \in Proc |-> None]
  /\ sound = [p \in Proc |-> None]
  /\ got = [p \in Proc |-> 0]
  /\ written = [p \in Proc |-> FALSE]
  /\ result = [p \in Proc |-> "none"]
  /\ failed = [p \in Proc |-> FALSE]

Free == {f \in File : \A e \in Entry : dir[e] # f /\ disk[e] # f}
          \ {fd[p] : p \in Proc}

Unlink(e) == dir' = [dir EXCEPT ![e] = None]

\* The operation of p goes on with call c; it broke or did not break on the way.
Go(p, c, broke) ==
  /\ pc' = [pc EXCEPT ![p] = c]
  /\ failed' = [failed EXCEPT ![p] = @ \/ broke]

\* The operation of p returns r, a call having broken or not; its locals are gone.
Return(p, r, broke) ==
  /\ Go(p, "idle", broke)
  /\ fd' = [fd EXCEPT ![p] = None]
  /\ sound' = [sound EXCEPT ![p] = None]
  /\ got' = [got EXCEPT ![p] = 0]
  /\ written' = [written EXCEPT ![p] = FALSE]
  /\ result' = [result EXCEPT ![p] = r]

\* The operation of p begins.
Begin(p, c) ==
  /\ pc' = [pc EXCEPT ![p] = c]
  /\ failed' = [failed EXCEPT ![p] = FALSE]
  /\ result' = [result EXCEPT ![p] = "none"]

-----------------------------------------------------------------------------
(* Store::save *)

\* pathFor and ensureDir; a directory that cannot be made ends it.
SaveBegin(p) ==
  /\ p \in Saver /\ pc[p] = "idle"
  /\ \/ /\ \E s \in Sound : sound' = [sound EXCEPT ![p] = s]
        /\ Begin(p, "unlink")
        /\ UNCHANGED <<fd, got, written>>
     \/ Return(p, "unsaved", TRUE)
  /\ UNCHANGED <<dir, disk, text>>

\* Mutant: a temp file left by a crash is not removed first.
SaveNoUnlink(p) ==
  /\ pc[p] = "unlink"
  /\ Go(p, "open", FALSE)
  /\ UNCHANGED <<dir, disk, text, fd, sound, got, written, result>>

\* A leftover temp file is removed; what unlink returns is not looked at.
SaveUnlink(p) ==
  /\ pc[p] = "unlink"
  /\ \/ Unlink("temp") /\ Go(p, "open", FALSE)
     \/ dir["temp"] # None /\ Go(p, "open", TRUE) /\ UNCHANGED dir
  /\ UNCHANGED <<disk, text, fd, sound, got, written, result>>

\* open O_CREAT | O_EXCL: fails on an existing temp file, or for a cause of its own.
SaveOpen(p) ==
  /\ pc[p] = "open"
  /\ \/ /\ dir["temp"] = None /\ Free # {}
        /\ LET f == CHOOSE g \in Free : TRUE
           IN  /\ dir' = [dir EXCEPT !["temp"] = f]
               /\ text' = [g \in File |-> IF g = f THEN [Blank EXCEPT !.sound = sound[p]]
                                         ELSE IF g \in Free THEN Blank ELSE text[g]]
               /\ fd' = [fd EXCEPT ![p] = f]
        /\ Go(p, "write", FALSE)
        /\ UNCHANGED <<sound, got, written, result>>
     \/ /\ dir["temp"] # None
        /\ Return(p, "unsaved", FALSE)
        /\ UNCHANGED <<dir, text>>
     \/ /\ Return(p, "unsaved", TRUE)
        /\ UNCHANGED <<dir, text>>
  /\ UNCHANGED disk

\* writeAll: write() may take any number of the parts that are left, or fail.
SaveWrite(p) ==
  /\ pc[p] = "write"
  /\ \/ \E k \in text[fd[p]].len + 1 .. Parts :
          /\ text' = [text EXCEPT ![fd[p]].len = k]
          /\ Go(p, IF k = Parts THEN "sync" ELSE "write", FALSE)
     \/ /\ Go(p, "close", TRUE) /\ UNCHANGED text
  /\ UNCHANGED <<dir, disk, fd, sound, got, written, result>>

\* Mutant: the data is left to the page cache.
SaveNoSync(p) ==
  /\ pc[p] = "sync"
  /\ written' = [written EXCEPT ![p] = TRUE]
  /\ Go(p, "close", FALSE)
  /\ UNCHANGED <<dir, disk, text, fd, sound, got, result>>

SaveSync(p) ==
  /\ pc[p] = "sync"
  /\ \/ /\ text' = [text EXCEPT ![fd[p]].synced = TRUE]
        /\ written' = [written EXCEPT ![p] = TRUE]
        /\ Go(p, "close", FALSE)
     \/ /\ Go(p, "close", TRUE) /\ UNCHANGED <<text, written>>
  /\ UNCHANGED <<dir, disk, fd, sound, got, result>>

\* The descriptor is closed whatever happened; only a clean close of a written file
\* goes on to the rename.
SaveClose(p) ==
  /\ pc[p] = "close"
  /\ fd' = [fd EXCEPT ![p] = None]
  /\ \/ Go(p, IF written[p] THEN "rename" ELSE "abort", FALSE)
     \/ Go(p, "abort", TRUE)
  /\ UNCHANGED <<dir, disk, text, sound, got, written, result>>

\* rename: whatever the temp entry names by now takes the preset's place. It fails
\* when the entry is gone, or for a cause of its own.
SaveRename(p) ==
  /\ pc[p] = "rename"
  /\ \/ /\ dir["temp"] # None
        /\ dir' = [dir EXCEPT !["preset"] = dir["temp"], !["temp"] = None]
        /\ Return(p, "saved", FALSE)
     \/ /\ Go(p, "abort", dir["temp"] # None)
        /\ UNCHANGED <<dir, fd, sound, got, written, result>>
  /\ UNCHANGED <<disk, text>>

\* A failed save removes its temp file, or fails to, and returns false.
SaveAbort(p) ==
  /\ pc[p] = "abort"
  /\ Unlink("temp") \/ UNCHANGED dir
  /\ Return(p, "unsaved", FALSE)
  /\ UNCHANGED <<disk, text>>

-----------------------------------------------------------------------------
(* Store::load and Store::remove *)

\* open and fstat; the descriptor holds the file through a later rename.
LoadOpen(p) ==
  /\ pc[p] = "idle"
  /\ \/ /\ dir["preset"] # None
        /\ fd' = [fd EXCEPT ![p] = dir["preset"]]
        /\ Begin(p, "read")
        /\ UNCHANGED <<sound, got, written>>
     \/ Return(p, "unloaded", FALSE)
  /\ UNCHANGED <<dir, disk, text>>

\* Parsing the k parts that were read. Text without the header is refused; text cut
\* later still parses, and the knobs it lacks take their defaults.
Parsed(k) == IF k = 0 THEN "unloaded" ELSE IF k < Parts THEN "loaded cut" ELSE "loaded"

\* Mutant: one read() is taken for the whole file.
LoadReadOnce(p) ==
  /\ pc[p] = "read"
  /\ \E k \in 0..text[fd[p]].len : Return(p, Parsed(k), FALSE)
  /\ UNCHANGED <<dir, disk, text>>

\* read() until the end of the file, which is not where it was when load opened it if
\* a saver is still writing; then parse.
LoadRead(p) ==
  /\ pc[p] = "read"
  /\ \/ /\ \E k \in got[p] + 1 .. text[fd[p]].len : got' = [got EXCEPT ![p] = k]
        /\ UNCHANGED <<pc, fd, sound, written, result, failed>>
     \/ got[p] = text[fd[p]].len /\ Return(p, Parsed(got[p]), FALSE)
     \/ Return(p, "unloaded", TRUE)
  /\ UNCHANGED <<dir, disk, text>>

Remove(p) ==
  /\ pc[p] = "idle" /\ dir["preset"] # None
  /\ Unlink("preset")
  /\ Return(p, "removed", FALSE)
  /\ UNCHANGED <<disk, text>>

-----------------------------------------------------------------------------
(* The environment *)

\* A host process dies and is started again; its temp file stays.
Crash(p) ==
  /\ pc[p] # "idle"
  /\ Return(p, "none", FALSE)
  /\ UNCHANGED <<dir, disk, text>>

\* The kernel commits the directory.
Commit == disk' = dir /\ disk # dir /\ UNCHANGED <<dir, text, proc>>

\* Every process dies, the directory is the committed one, and of a file that was not
\* fsynced any part may be missing.
PowerLoss ==
  LET named == {disk[e] : e \in Entry} \ {None}
  IN  /\ dir' = disk
      /\ \E kept \in [named -> 0..Parts] :
           text' = [f \in File |->
                      IF f \notin named THEN Blank
                      ELSE IF text[f].synced \/ text[f].len <= kept[f] THEN text[f]
                      ELSE [text[f] EXCEPT !.len = kept[f]]]
      /\ pc' = [p \in Proc |-> "idle"]
      /\ fd' = [p \in Proc |-> None]
      /\ sound' = [p \in Proc |-> None]
      /\ got' = [p \in Proc |-> 0]
      /\ written' = [p \in Proc |-> FALSE]
      /\ result' = [p \in Proc |-> "none"]
      /\ failed' = [p \in Proc |-> FALSE]
      /\ UNCHANGED disk

Save(p) ==
  \/ SaveBegin(p) \/ SaveUnlink(p) \/ SaveOpen(p) \/ SaveWrite(p)
  \/ SaveSync(p) \/ SaveClose(p) \/ SaveRename(p) \/ SaveAbort(p)

Next ==
  \/ \E p \in Proc : Save(p) \/ LoadOpen(p) \/ LoadRead(p) \/ Remove(p) \/ Crash(p)
  \/ Commit \/ PowerLoss

Spec == Init /\ [][Next]_vars

-----------------------------------------------------------------------------
\* Entries name files, a file never holds more than the whole text, and no load counts
\* more of it than there is.
TypeOK ==
  /\ dir \in [Entry -> File \cup {None}] /\ disk \in [Entry -> File \cup {None}]
  /\ text \in [File -> [sound : Sound \cup {None}, len : 0..Parts, synced : BOOLEAN]]
  /\ pc \in [Proc -> {"idle", "unlink", "open", "write", "sync", "close", "rename",
                      "abort", "read"}]
  /\ fd \in [Proc -> File \cup {None}]
  /\ sound \in [Proc -> Sound \cup {None}]
  /\ got \in [Proc -> 0..Parts]
  /\ written \in [Proc -> BOOLEAN] /\ failed \in [Proc -> BOOLEAN]
  /\ result \in [Proc -> {"none", "saved", "unsaved", "loaded",
                          "loaded cut", "unloaded", "removed"}]

Torn == [torn |-> TRUE]

\* What the file of an entry is worth, now and after a power cut.
Now(f)   == IF f = None THEN None
            ELSE IF text[f].len = Parts THEN text[f].sound ELSE Torn
After(f) == IF f = None THEN None
            ELSE IF text[f].len = Parts /\ text[f].synced THEN text[f].sound ELSE Torn

Register == INSTANCE PresetRegister WITH
              Absent <- None, shown <- Now(dir["preset"]), durable <- After(disk["preset"])

\* An interrupted save, by a failed call, a crash or a power cut, leaves the previous
\* preset intact: the preset is at every moment one whole sound or absent.
SaveIsAtomic == Register!Spec

\* A save that reports success has put its own sound in place, and one that reports
\* failure had a call that failed by itself: what an earlier crash left behind never
\* stands in its way.
SavesReportTruly ==
  [][\A p \in Proc : pc[p] # "idle" =>
       /\ result'[p] = "saved" => Now(dir["preset"])' = sound[p]
       /\ result'[p] = "unsaved" => failed'[p]]_vars

\* A load never hands the knobs a sound of which a part is missing, whatever is saved,
\* removed or interrupted between its calls. With one saving process, that is: two make
\* half a preset between them (SettledPresetIsWhole).
LoadsWhole == \A p \in Proc : result[p] # "loaded cut"

\* save's comment: "Renamed into place, so an interrupted save leaves the previous
\* preset intact". Once no process is in an operation, the preset is not half written.
SettledPresetIsWhole ==
  (\A p \in Proc : pc[p] = "idle") => Now(dir["preset"]) # Torn
=============================================================================
