----------------------------- MODULE SessionStore -----------------------------
(***************************************************************************)
(* SessionStore (packages/gateway/src/sessions/store.ts): the gateway's    *)
(* sessions, in memory and in one JSON file.  persist() writes a snapshot  *)
(* to a temporary file and renames it over the real one.  Nothing keeps    *)
(* two calls apart, and they share the temporary file.                     *)
(*                                                                         *)
(* The sessions are reduced to a version number, counting their changes.   *)
(* The file system is external: a file is an inode, so a writer that       *)
(* opened the temporary file goes on writing to it under its new name.     *)
(***************************************************************************)
EXTENDS Naturals

CONSTANTS
    Writers,  \* those who call persist(), one call at a time each
    IoFails   \* whether a file operation may fail

ASSUME StoreAssumption == IoFails \in BOOLEAN

VARIABLES
    version,     \* entries: how often they changed
    disk,        \* sessions.json
    tmp,         \* sessions.json.tmp
    save,        \* the persist() call of each writer
    overlapped,  \* history: two calls were in flight at once
    faulty       \* history: a file operation failed, or a change was left unsaved

storeVars == <<version, disk, tmp, save, overlapped, faulty>>

NoFile == [kind |-> "none", v |-> 0]
Empty == [kind |-> "empty", v |-> 0]
Torn == [kind |-> "torn", v |-> 0]
Whole(v) == [kind |-> "whole", v |-> v]

NoSave == [step |-> "none", snap |-> 0, file |-> "none"]

Saving(w) == save[w].step \in {"mkdir", "open", "write", "rename"}

\* load(): a missing file is an empty store, anything but whole JSON throws.
Loads(file) == file.kind \in {"none", "whole"}

StoreInit ==
    /\ version = 0 /\ disk = NoFile /\ tmp = NoFile
    /\ save = [w \in Writers |-> NoSave]
    /\ overlapped = FALSE /\ faulty = FALSE

-----------------------------------------------------------------------------

\* persist() up to its first await.
Persist(w) ==
    /\ save' = [save EXCEPT ![w] = [NoSave EXCEPT !.step = "mkdir"]]
    /\ overlapped' = (overlapped \/ \E o \in Writers \ {w} : Saving(o))

\* What is serialised: the live entries.
Entries == version

\* mkdir resolves: the entries are serialised.
Snapshot(w) ==
    /\ save[w].step = "mkdir"
    /\ save' = [save EXCEPT ![w].step = "open", ![w].snap = Entries]
    /\ UNCHANGED <<version, disk, tmp, overlapped, faulty>>

\* Mutant: the real file is written in place.
OpenInPlace(w) ==
    /\ disk' = Empty /\ save' = [save EXCEPT ![w].step = "write", ![w].file = "disk"]
    /\ UNCHANGED tmp

\* writeFile creates or truncates the temporary file.
OpenTmp(w) ==
    /\ tmp' = Empty /\ save' = [save EXCEPT ![w].step = "write", ![w].file = "tmp"]
    /\ UNCHANGED disk

Open(w) ==
    /\ save[w].step = "open"
    /\ OpenTmp(w)
    /\ UNCHANGED <<version, overlapped, faulty>>

\* The file that w has open becomes c, wherever it is by now.
Overwrite(w, c) ==
    /\ tmp' = IF save[w].file = "tmp" THEN c ELSE tmp
    /\ disk' = IF save[w].file = "disk" THEN c ELSE disk

\* writeFile writes from the start; over another writer's text, the longer end shows.
Write(w) ==
    LET before == IF save[w].file = "tmp" THEN tmp ELSE disk IN
    /\ save[w].step = "write"
    /\ \/ Overwrite(w, Whole(save[w].snap))
       \/ before # Empty /\ Overwrite(w, Torn)
    /\ save' = [save EXCEPT ![w].step = "rename"]
    /\ UNCHANGED <<version, overlapped, faulty>>

\* rename() fails with ENOENT when another call has renamed the temporary file.
Renamed(w) == tmp # NoFile

\* rename() settles, and persist() with it.
Rename(w) ==
    /\ save[w].step = "rename"
    /\ IF Renamed(w)
       THEN /\ disk' = tmp /\ tmp' = NoFile
            /\ save' = [o \in Writers |->
                 IF o = w THEN [NoSave EXCEPT !.step = "saved"]
                 ELSE [save[o] EXCEPT !.file = CASE @ = "tmp" -> "disk"
                                                 [] @ = "disk" -> "gone"
                                                 [] OTHER -> @]]
       ELSE /\ save' = [save EXCEPT ![w] = [NoSave EXCEPT !.step = "failed"]]
            /\ UNCHANGED <<disk, tmp>>
    /\ UNCHANGED <<version, overlapped, faulty>>

\* A file operation fails: persist() rejects; what was being written stays as it is.
IoError(w) ==
    /\ IoFails /\ Saving(w)
    /\ \/ UNCHANGED <<disk, tmp>>
       \/ save[w].step = "write" /\ Overwrite(w, Torn)
    /\ save' = [save EXCEPT ![w] = [NoSave EXCEPT !.step = "failed"]]
    /\ faulty' = TRUE
    /\ UNCHANGED <<version, overlapped>>

-----------------------------------------------------------------------------
(* Properties.                                                             *)

File == [kind : {"none", "empty", "torn", "whole"}, v : Nat]

StoreTypeOK ==
    /\ version \in Nat /\ disk \in File /\ tmp \in File
    /\ save \in [Writers -> [step : {"none", "mkdir", "open", "write", "rename",
                                     "saved", "failed"},
                             snap : Nat, file : {"none", "tmp", "disk", "gone"}]]
    /\ overlapped \in BOOLEAN /\ faulty \in BOOLEAN

\* A gateway killed at any moment starts again: as long as no two persist() calls
\* overlapped, sessions.json is whole at every step, failed writes included.
CrashSafe == ~overlapped => Loads(disk)

\* As long as no two calls overlapped, the file never goes back to older sessions.
SavesAdvance == [][~overlapped' => disk'.v >= disk.v]_storeVars

\* "persist writes atomically", as the store's test has it: whatever the gateway's own
\* calls do, a reader (the next start) finds the whole file or none.
PersistIsAtomic == Loads(disk)

=============================================================================
