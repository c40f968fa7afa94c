----------------------------- MODULE AtomicFile -----------------------------
(***************************************************************************)
(* filez.yeet_out_atomic and write_blob_atomic: several programs (or        *)
(* interns) replace one file, others slurp it, and the machine may lose     *)
(* power between any two system calls.                                      *)
(*                                                                          *)
(* The file system is modelled from what platform.c asks of it: a directory *)
(* and file contents, each as every process sees it and as the disk has it. *)
(* fsync copies one to the other; a crash keeps what was synced, and of     *)
(* anything else the old, the new or a part.                                *)
(***************************************************************************)
EXTENDS Naturals, Sequences, SequencesExt

CONSTANTS
    Writers,        \* each replaces the file once, with contents of its own
    Readers,
    Torn            \* contents that are nobody's: empty, or a part

VARIABLES
    names,          \* the directory: name -> file, or NoFile
    diskNames,      \* the directory on the disk
    contents,       \* file -> its contents
    diskContents,   \* file -> its contents on the disk
    at,             \* where each writer is in write_atomic; both "answered" and "unsynced" answer
    reading,        \* the file each reader has open, or NoFile
    seen,           \* what each reader read last
    versions,       \* the contents that were moved into place, in order
    up              \* has the power stayed on?

fileVars == <<names, diskNames, contents, diskContents, at, reading, seen, versions, up>>

NoFile == "no file"
Target == "target"
First == "first"                \* the file that is there at the start, and its contents

\* temp_sibling's name: eight random bytes, which no two writers share.
TempShared(w) == <<"tmp", "">>
Temp(w) == <<"tmp", w>>

Names == {<<Target, "">>} \cup {Temp(w) : w \in Writers}
Files == Writers \cup {First}   \* a writer's file is the one it created
TargetName == <<Target, "">>

FileInit ==
    /\ names = [n \in Names |-> IF n = TargetName THEN First ELSE NoFile]
    /\ diskNames = names
    /\ contents = [f \in Files |-> IF f = First THEN First ELSE Torn]
    /\ diskContents = contents
    /\ at = [w \in Writers |-> "start"]
    /\ reading = [r \in Readers |-> NoFile]
    /\ seen = [r \in Readers |-> First]
    /\ versions = <<First>>
    /\ up = TRUE

-----------------------------------------------------------------------------
(* A writer: platform_write_file_durable, then platform_replace_file *)

Go(w, from, to) == up /\ at[w] = from /\ at' = [at EXCEPT ![w] = to]

\* The file that w's temporary name leads to.
Mine(w) == names[Temp(w)]

\* fopen "wb" creates the file, or empties the one of that name.
Open(w) ==
    /\ Go(w, "start", "opened")
    /\ LET f == IF Mine(w) = NoFile THEN w ELSE Mine(w)
       IN /\ names' = [names EXCEPT ![Temp(w)] = f]
          /\ contents' = [contents EXCEPT ![f] = Torn]
    /\ UNCHANGED <<diskNames, diskContents, reading, seen, versions, up>>

\* fwrite and fflush
Write(w) ==
    /\ Go(w, "opened", "written")
    /\ contents' = [f \in Files |-> IF f = Mine(w) THEN w ELSE contents[f]]
    /\ UNCHANGED <<names, diskNames, diskContents, reading, seen, versions, up>>

\* fsync
SyncSkipped(w) ==
    /\ Go(w, "written", "durable")
    /\ UNCHANGED <<names, diskNames, contents, diskContents, reading, seen, versions, up>>
Sync(w) ==
    /\ Go(w, "written", "durable")
    /\ diskContents' = [f \in Files |-> IF f = Mine(w) THEN contents[f] ELSE diskContents[f]]
    /\ UNCHANGED <<names, diskNames, contents, reading, seen, versions, up>>

\* One of those calls, or fclose, fails: the error is thrown, and the temporary file stays.
Fail(w) ==
    /\ \E from \in {"start", "opened", "written", "durable"} : Go(w, from, "failed")
    /\ UNCHANGED <<names, diskNames, contents, diskContents, reading, seen, versions, up>>

\* rename
Rename(w) ==
    /\ Go(w, "durable", "renamed")
    /\ Mine(w) # NoFile
    /\ names' = [names EXCEPT ![TargetName] = Mine(w), ![Temp(w)] = NoFile]
    /\ versions' = Append(versions, w)
    /\ UNCHANGED <<diskNames, contents, diskContents, reading, seen, up>>

\* The rename fails: the temporary file is removed and the error thrown.
RenameFails(w) ==
    /\ Go(w, "durable", "failed")
    /\ names' = [names EXCEPT ![Temp(w)] = NoFile]
    /\ UNCHANGED <<diskNames, contents, diskContents, reading, seen, versions, up>>

\* fsync of the directory, and the answer.
SyncDirectory(w) ==
    /\ Go(w, "renamed", "answered")
    /\ diskNames' = names
    /\ UNCHANGED <<names, contents, diskContents, reading, seen, versions, up>>

\* A directory that cannot be opened is skipped, and one whose fsync fails may be nowhere yet: the
\* caller gets the same answer.
SkipDirectory(w) ==
    /\ Go(w, "renamed", "unsynced")
    /\ UNCHANGED <<names, diskNames, contents, diskContents, reading, seen, versions, up>>

-----------------------------------------------------------------------------
(* A reader: platform_read_file opens the file and reads what is in it then *)

OpenToRead(r) ==
    /\ reading[r] = NoFile
    /\ reading' = [reading EXCEPT ![r] = names[TargetName]]
    /\ UNCHANGED <<names, diskNames, contents, diskContents, at, seen, versions, up>>

Slurp(r) ==
    /\ reading[r] # NoFile
    /\ seen' = [seen EXCEPT ![r] = contents[reading[r]]]
    /\ reading' = [reading EXCEPT ![r] = NoFile]
    /\ UNCHANGED <<names, diskNames, contents, diskContents, at, versions, up>>

-----------------------------------------------------------------------------
(* Loss of power, after which readers start again on what the disk has *)

Kept(new, old, part) == IF new = old THEN {new} ELSE {new, old} \cup part

Crash ==
    /\ up /\ up' = FALSE
    /\ \E f \in Kept(names[TargetName], diskNames[TargetName], {}) :
         names' = [n \in Names |-> IF n = TargetName THEN f ELSE NoFile]
    /\ \E c \in [Files -> Files \cup {Torn}] :
         /\ \A f \in Files : c[f] \in Kept(contents[f], diskContents[f], {Torn})
         /\ contents' = c
    /\ diskNames' = names' /\ diskContents' = contents'
    /\ reading' = [r \in Readers |-> NoFile]
    /\ UNCHANGED <<at, seen, versions>>

FileNext ==
    \/ \E w \in Writers : Open(w) \/ Write(w) \/ Sync(w) \/ Fail(w) \/ Rename(w) \/ RenameFails(w)
                          \/ SyncDirectory(w) \/ SkipDirectory(w)
    \/ \E r \in Readers : OpenToRead(r) \/ Slurp(r)
    \/ Crash

FileSpec == FileInit /\ [][FileNext]_fileVars

-----------------------------------------------------------------------------
(* Properties *)

\* Whoever slurps the file, while it is being replaced or after a crash, gets one writer's
\* contents or the old ones, whole (docs/STDLIB.md:293-294).
ReadersSeeWhole == \A r \in Readers : seen[r] # Torn

\* An answered write is what the file holds, or something moved into place after it: while the power
\* stays on; and after it was lost, if fsync has put the directory on the disk.  That it then lasts
\* in any case is not so: platform_replace_file answers all the same when it could not sync the directory.
AnsweredSurvives ==
    \A w \in Writers : at[w] = "answered" \/ (at[w] = "unsynced" /\ up) =>
        \E i, j \in DOMAIN versions :
            versions[i] = w /\ versions[j] = contents[names[TargetName]] /\ i <= j
=============================================================================
