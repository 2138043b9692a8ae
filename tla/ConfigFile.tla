----------------------------- MODULE ConfigFile -----------------------------
(***************************************************************************)
(* How the configuration file is written (mt_config_save_file of           *)
(* config/yaml_save.c): to a temporary file, synced, renamed over the old  *)
(* one, the directory synced.  The process may be killed and the power may *)
(* fail between any two of these steps.                                    *)
(*                                                                         *)
(* A copy is a file's data and whether the data have reached the disk.     *)
(***************************************************************************)
EXTENDS Naturals

CONSTANTS Contents,   \* what a complete file may hold
          Missing,    \* no such file
          Torn        \* a file cut short

ASSUME ContentsAssumption ==
    Missing \notin Contents /\ Torn \notin Contents /\ Missing # Torn

VARIABLES file,     \* the copy a reader of the path gets
          durable,  \* the copy the path leads to after a power failure
          tmp,      \* the temporary file
          data,     \* the text being saved
          wpc,      \* mt_config_save_file's next step, or "idle"
          edits     \* files put in place by others so far

fileVars == <<file, durable, tmp, data, wpc, edits>>

Copies == [data : Contents \cup {Missing, Torn}, synced : BOOLEAN]
NoCopy == [data |-> Missing, synced |-> TRUE]

FileTypeOK ==
    /\ file \in Copies /\ durable \in Copies /\ tmp \in Copies
    /\ data \in Contents \cup {Missing}
    /\ wpc \in {"idle", "write", "fsync", "rename", "dir"}
    /\ edits \in Nat

FileInit(c) ==
    /\ file = [data |-> c, synced |-> TRUE] /\ durable = file
    /\ tmp = NoCopy /\ data = Missing /\ wpc = "idle" /\ edits = 0

\* mt_config_save_buffer has made the text; the temporary file is created.
SaveBegin(c) ==
    /\ wpc = "idle"
    /\ data' = c /\ wpc' = "write"
    /\ tmp' = [data |-> Torn, synced |-> FALSE]
    /\ UNCHANGED <<file, durable, edits>>

\* The write loop.
WriteTmp ==
    /\ wpc = "write"
    /\ tmp' = [data |-> data, synced |-> FALSE] /\ wpc' = "fsync"
    /\ UNCHANGED <<file, durable, data, edits>>

\* Mutant: the file is closed without fsync.
CloseTmp ==
    /\ wpc = "fsync" /\ wpc' = "rename"
    /\ UNCHANGED <<file, durable, tmp, data, edits>>

FsyncTmp ==
    /\ wpc = "fsync"
    /\ tmp' = [tmp EXCEPT !.synced = TRUE] /\ wpc' = "rename"
    /\ UNCHANGED <<file, durable, data, edits>>

\* open, write, fsync, close or rename fails: the temporary file is removed.
SaveFails ==
    /\ wpc \in {"write", "fsync", "rename"}
    /\ tmp' = NoCopy /\ data' = Missing /\ wpc' = "idle"
    /\ UNCHANGED <<file, durable, edits>>

Rename ==
    /\ wpc = "rename"
    /\ file' = tmp /\ tmp' = NoCopy /\ wpc' = "dir"
    /\ UNCHANGED <<durable, data, edits>>

\* The directory cannot be opened or synced: nobody is told.
SyncDir ==
    /\ wpc = "dir"
    /\ durable' \in {file, durable}
    /\ data' = Missing /\ wpc' = "idle"
    /\ UNCHANGED <<file, tmp, edits>>

SaveStep == WriteTmp \/ FsyncTmp \/ Rename \/ SyncDir

\* The process dies.  The next one's temporary file has another name.
FileKill ==
    /\ tmp' = NoCopy /\ data' = Missing /\ wpc' = "idle"
    /\ UNCHANGED <<file, durable, edits>>

\* What had not reached the disk is lost: the rename, or a file's text.
FilePowerLoss ==
    /\ \E c \in {file, durable} :
          file' = [data |-> IF c.synced THEN c.data ELSE Torn, synced |-> TRUE]
    /\ durable' = file'
    /\ tmp' = NoCopy /\ data' = Missing /\ wpc' = "idle"
    /\ UNCHANGED edits

\* Somebody else installs a file.
Edit(c) ==
    /\ wpc = "idle"
    /\ file' = [data |-> c, synced |-> TRUE] /\ durable' = file'
    /\ edits' = edits + 1
    /\ UNCHANGED <<tmp, data, wpc>>

FileNext ==
    \/ \E c \in Contents : SaveBegin(c) \/ Edit(c)
    \/ SaveStep \/ SaveFails \/ FileKill \/ FilePowerLoss

FileSpec == (\E c \in Contents \cup {Missing} : FileInit(c)) /\ [][FileNext]_fileVars

-----------------------------------------------------------------------------
\* Whatever happens between the steps of a save, a reader of the path never
\* finds a file cut short, not even after a power failure.
NeverTorn == file.data # Torn

\* A save takes effect as a whole: the file only ever changes to the complete
\* text being saved, or back to the text before it when the power fails first.
SaveAtomic ==
    [][file'.data # file.data =>
          \/ wpc = "rename" /\ file'.data = data
          \/ file'.data = durable.data
          \/ edits' # edits]_fileVars
=============================================================================
