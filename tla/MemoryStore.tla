------------------------------ MODULE MemoryStore ------------------------------
(***************************************************************************)
(* The long-term store of Memory: a dictionary in memory and a JSON file,   *)
(* written through atomic_write_text.  Every system call may fail, and the  *)
(* program may go down between any two of them; so may the machine, and the *)
(* file is then something that had reached the disk.                        *)
(*                                                                          *)
(* One Memory object uses the path.  A value that JSON cannot encode makes  *)
(* store raise before it does anything and is left out.                     *)
(***************************************************************************)
CONSTANTS
  Keys, Values,
  None,          \* no such key
  Absent, Torn   \* no file; a file with part of a text

ASSUME MarksAssumption ==
  None \notin Values /\ None \notin Keys \X Values /\ Absent # Torn

Maps == [Keys -> Values \cup {None}]

ASSUME FilesAssumption == Absent \notin Maps /\ Torn \notin Maps /\ None \notin Maps

Empty == [k \in Keys |-> None]

VARIABLES
  pc,          \* the next thing to do, "idle" between calls, "down"
  mem,         \* _long_term
  call,        \* the key and value store was called with, or None
  candidate,   \* candidate
  file,        \* what is at store_path
  temp,        \* what is at temporary_path
  synced,      \* the temporary file has reached the disk
  disk,        \* what a loss of power may leave at store_path
  noted,       \* temporary_path was set when a call of the system failed
  litter,      \* temporary files of earlier calls are still there
  excused      \* a crash or a failing unlink left one; not in the code

rest == <<noted, litter, excused>>
vars == <<pc, mem, call, candidate, file, temp, synced, disk, rest>>

Init ==
  /\ pc = "down" /\ mem = Empty /\ call = None /\ candidate = Empty
  /\ file = Absent /\ temp = Absent /\ synced = FALSE /\ disk = {Absent}
  /\ noted = FALSE /\ litter = FALSE /\ excused = FALSE

(* Memory.__init__: what is at the path, if anything is; part of a text     *)
(* makes it raise.                                                         *)
Load ==
  /\ pc = "down" /\ file # Torn
  /\ mem' = IF file = Absent THEN Empty ELSE file
  /\ pc' = "idle" /\ call' = None
  /\ UNCHANGED <<candidate, file, temp, synced, disk, rest>>

-----------------------------------------------------------------------------
(* Memory.store *)

(* Slip: the file is written with the new entry alone.                     *)
Store_NewOnly(k, v) ==
  /\ pc = "idle"
  /\ candidate' = [Empty EXCEPT ![k] = v]
  /\ call' = <<k, v>> /\ pc' = "create"
  /\ UNCHANGED <<mem, file, temp, synced, disk, rest>>

Store(k, v) ==
  /\ pc = "idle"
  /\ candidate' = [mem EXCEPT ![k] = v]
  /\ call' = <<k, v>> /\ pc' = "create"
  /\ UNCHANGED <<mem, file, temp, synced, disk, rest>>

(* Slip: the path of the temporary file is noted after writing only.       *)
PathNoted_AfterWriting == pc \notin {"create", "write"}

(* temporary_path is set as soon as there is a file, before it is written.  *)
PathNoted == pc # "create"

(* A call of the system fails: the exception goes through finally.         *)
Raises == pc' = "clean" /\ noted' = PathNoted /\ UNCHANGED <<file, synced, disk>>

(* The temporary file is made, beside the target, with a name of its own.   *)
Create ==
  /\ pc = "create"
  /\ \/ /\ pc' = "write" /\ temp' = Empty /\ synced' = FALSE
        /\ litter' = (litter \/ temp # Absent)
        /\ UNCHANGED <<file, disk, noted>>
     \/ Raises /\ UNCHANGED <<temp, litter>>
  /\ UNCHANGED <<mem, call, candidate, excused>>

(* write and flush: all of the text, or part of it and an error.           *)
Write ==
  /\ pc = "write"
  /\ \/ pc' = "fsync" /\ temp' = candidate /\ UNCHANGED <<file, synced, disk, noted>>
     \/ Raises /\ temp' = Torn
  /\ UNCHANGED <<mem, call, candidate, litter, excused>>

(* Slip: no fsync.                                                         *)
Fsync_Omitted ==
  /\ pc = "fsync"
  /\ pc' = "replace"
  /\ UNCHANGED <<mem, call, candidate, file, temp, synced, disk, rest>>

Fsync ==
  /\ pc = "fsync"
  /\ \/ pc' = "replace" /\ synced' = TRUE /\ UNCHANGED <<file, disk, noted>>
     \/ Raises
  /\ UNCHANGED <<mem, call, candidate, temp, litter, excused>>

(* Slip: a failing replace is passed over.                                 *)
Replace_Ignored ==
  /\ pc = "replace"
  /\ \/ /\ file' = temp /\ temp' = Absent
        /\ disk' = disk \cup {IF synced THEN temp ELSE Torn}
     \/ UNCHANGED <<file, temp, disk>>
  /\ pc' = "commit"
  /\ UNCHANGED <<mem, call, candidate, synced, rest>>

(* os.replace.  The directory is not synced: until it settles, a loss of    *)
(* power may bring the old file back.                                      *)
Replace ==
  /\ pc = "replace"
  /\ \/ /\ file' = temp /\ temp' = Absent
        /\ disk' = disk \cup {IF synced THEN temp ELSE Torn}
        /\ pc' = "commit" /\ UNCHANGED <<synced, noted>>
     \/ Raises /\ UNCHANGED temp
  /\ UNCHANGED <<mem, call, candidate, litter, excused>>

(* finally, after an exception: unlink may fail as well.                   *)
Clean ==
  /\ pc = "clean"
  /\ pc' = "idle" /\ call' = None
  /\ IF noted /\ temp # Absent
       THEN \/ temp' = Absent /\ UNCHANGED excused
            \/ excused' = TRUE /\ UNCHANGED temp
       ELSE UNCHANGED <<temp, excused>>
  /\ UNCHANGED <<mem, candidate, file, synced, disk, noted, litter>>

(* _long_term = candidate, and store returns.                              *)
Commit ==
  /\ pc = "commit"
  /\ mem' = candidate
  /\ pc' = "idle" /\ call' = None
  /\ UNCHANGED <<candidate, file, temp, synced, disk, rest>>

-----------------------------------------------------------------------------
(* The program, the file system and the machine *)

Down == pc' = "down" /\ mem' = Empty /\ temp' = Absent /\ synced' = FALSE

(* The program goes down wherever it is.                                   *)
Crash ==
  /\ pc # "down" /\ Down
  /\ litter' = (litter \/ temp # Absent) /\ excused' = (excused \/ temp # Absent)
  /\ UNCHANGED <<call, candidate, file, disk, noted>>

(* The file system writes the directory some time.                         *)
Settle ==
  /\ file # Torn
  /\ disk' = {file}
  /\ UNCHANGED <<pc, mem, call, candidate, file, temp, synced, rest>>

PowerLoss ==
  /\ Down
  /\ file' \in disk /\ disk' = {file'}
  /\ litter' = (litter \/ temp # Absent) /\ excused' = (excused \/ temp # Absent)
  /\ UNCHANGED <<call, candidate, noted>>

Next ==
  \/ Load \/ (\E k \in Keys, v \in Values : Store(k, v))
  \/ Create \/ Write \/ Fsync \/ Replace \/ Clean \/ Commit
  \/ Crash \/ Settle \/ PowerLoss

Spec == Init /\ [][Next]_vars

-----------------------------------------------------------------------------
(* Properties *)

TypeOK ==
  /\ pc \in {"down", "idle", "create", "write", "fsync", "replace", "clean", "commit"}
  /\ mem \in Maps /\ candidate \in Maps
  /\ call \in (Keys \X Values) \cup {None}
  /\ file \in Maps \cup {Absent, Torn} /\ temp \in Maps \cup {Absent, Torn}
  /\ disk \subseteq Maps \cup {Absent, Torn} /\ disk # {}
  /\ synced \in BOOLEAN /\ noted \in BOOLEAN /\ litter \in BOOLEAN /\ excused \in BOOLEAN

ContentsOf(f) == IF f = Absent THEN Empty ELSE f

Contents == ContentsOf(file)

(* No reader and no restart finds part of a text, whatever fails and        *)
(* whenever the program or the machine goes down.                          *)
FileIsWhole == file # Torn /\ Torn \notin disk

(* Between calls memory and file agree: a call that failed left no trace in *)
(* either, so the next one cannot drop what is stored.                     *)
MemoryIsTheFile == pc = "idle" => mem = Contents

(* Whichever call of the system fails, a temporary file is left behind by   *)
(* crashes and failing unlinks only.                                       *)
NoLitter == litter \/ (pc = "idle" /\ temp # Absent) => excused

(* The docstring of core/io.py calls the write durable and atomic: what     *)
(* store has returned for stays in the file until the next call.           *)
DurableOnceReturned == [][call = None /\ call' = None => Contents' = Contents]_vars

KV == INSTANCE KeyValueStore WITH
  contents    <- Contents,
  recoverable <- {ContentsOf(f) : f \in disk},
  view        <- IF pc = "idle" THEN mem ELSE None,
  pending     <- IF pc \in {"create", "write", "fsync", "replace"} THEN call ELSE None

(* The store is an atomic one for its caller, whatever fails: crashes keep  *)
(* what is stored, and a loss of power takes back whole calls only, those   *)
(* made since the directory was last written.                              *)
IsAtomic == KV!Spec
=============================================================================
