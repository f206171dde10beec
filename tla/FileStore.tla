------------------------------ MODULE FileStore ------------------------------
(***************************************************************************)
(* internal/state/file_store.go: the checkpoint file, system call by       *)
(* system call.  Save writes a temporary file beside the state file, syncs *)
(* it, renames it over the state file and syncs the directory; any call    *)
(* may fail, the process may be killed and the machine may lose power      *)
(* between any two of them.  One Save runs at a time: the configure        *)
(* service calls it under its mutex.                                       *)
(*                                                                         *)
(* The file system is POSIX: a rename is atomic, is visible at once, and   *)
(* survives a power loss for certain only after the directory is synced;   *)
(* the data of a file that was not synced may be lost with the power.      *)
(***************************************************************************)
EXTENDS Naturals

CONSTANTS
    States,     \* the states (state.State) that are saved
    Empty,      \* the state of a missing file: State{}
    Torn,       \* bytes that do not decode
    MaxLosses   \* bound: how many crashes and power losses happen

ASSUME StatesAssumption == Empty \notin States /\ Torn \notin States /\ Torn # Empty
ASSUME LossesAssumption == MaxLosses \in Nat

VARIABLES
    file,      \* what the state path names now
    onDisk,    \* what it names if the power fails and no unsynced rename survives
    tmp,       \* the temporary file of the Save in progress, or NoFile
    pc,        \* the next system call of Save
    arg,       \* the state being saved
    kept,      \* the last state whose Save returned nil (history)
    tried,     \* the states whose Save was started since (history)
    losses     \* how often the process or the machine went down

vars == <<file, onDisk, tmp, pc, arg, kept, tried, losses>>

\* A file: its bytes, decoded, and whether they are on stable storage.
Files == [data : States \cup {Empty, Torn}, synced : BOOLEAN]
NoFile == [data |-> Empty, synced |-> TRUE]

PCs == {"idle", "prepare", "create", "write", "sync", "chmod", "close", "rename",
        "open_dir", "sync_dir"}

LoadError == "decode state file"

\* FileStore.Load of such a file: a missing file is the empty state, and bytes that
\* do not decode are an error.
Load(f) == IF f.data = Torn THEN LoadError ELSE f.data

Init ==
    /\ file = NoFile
    /\ onDisk = NoFile
    /\ tmp = NoFile
    /\ pc = "idle"
    /\ arg = Empty
    /\ kept = Empty
    /\ tried = {}
    /\ losses = 0

-----------------------------------------------------------------------------
(* Save                                                                    *)

Begin(s) ==
    /\ pc = "idle"
    /\ pc' = "prepare"
    /\ arg' = s
    /\ tried' = tried \cup {s}
    /\ UNCHANGED <<file, onDisk, tmp, kept, losses>>

\* Mutant: an error path forgets the cleanup.
LeaveTemp == UNCHANGED tmp

\* cleanup(): the temporary file is removed; a failing remove is ignored, and the
\* file is nobody's any more.
Cleanup == tmp' = NoFile

\* An error return before the temporary file exists, or after the rename.
GiveUp ==
    /\ pc' = "idle"
    /\ UNCHANGED <<file, onDisk, tmp, arg, kept, tried, losses>>

\* An error return that removes the temporary file.
CleanUpAndGiveUp ==
    /\ Cleanup
    /\ pc' = "idle"
    /\ UNCHANGED <<file, onDisk, arg, kept, tried, losses>>

Continue(label) ==
    /\ pc' = label
    /\ UNCHANGED <<file, onDisk, arg, kept, tried, losses>>

\* The context and path checks, MkdirAll and Marshal.
Prepare == pc = "prepare" /\ (GiveUp \/ (Continue("create") /\ UNCHANGED tmp))

CreateTemp ==
    /\ pc = "create"
    /\ \/ GiveUp
       \/ Continue("write") /\ tmp' = [data |-> Torn, synced |-> FALSE]

Write ==
    /\ pc = "write"
    /\ \/ CleanUpAndGiveUp
       \/ Continue("sync") /\ tmp' = [data |-> arg, synced |-> FALSE]

\* Mutant: the temporary file is not synced before it is renamed.
NotSynced == FALSE

\* tmpFile.Sync() has put the bytes on stable storage.
Synced == TRUE

Sync ==
    /\ pc = "sync"
    /\ \/ CleanUpAndGiveUp
       \/ Continue("chmod") /\ tmp' = [tmp EXCEPT !.synced = Synced]

Chmod == pc = "chmod" /\ (CleanUpAndGiveUp \/ (Continue("close") /\ UNCHANGED tmp))

Close == pc = "close" /\ (CleanUpAndGiveUp \/ (Continue("rename") /\ UNCHANGED tmp))

\* The last look at the context, and the rename.
Rename ==
    /\ pc = "rename"
    /\ \/ CleanUpAndGiveUp
       \/ /\ file' = tmp
          /\ tmp' = NoFile
          /\ pc' = "open_dir"
          /\ UNCHANGED <<onDisk, arg, kept, tried, losses>>

OpenDir == pc = "open_dir" /\ (GiveUp \/ (Continue("sync_dir") /\ UNCHANGED tmp))

\* Mutant: Save returns without syncing the directory.
ForgetRename == onDisk

\* Mutant: the directory entry loses its file.
BytesWithoutFile == file.data

\* dirFile.Sync() makes the rename survive a power loss.
DurableFile == file

\* The directory sync, and the nil return.
SyncDir ==
    /\ pc = "sync_dir"
    /\ \/ GiveUp
       \/ /\ onDisk' = DurableFile
          /\ kept' = arg
          /\ tried' = {}
          /\ pc' = "idle"
          /\ UNCHANGED <<file, tmp, arg, losses>>

-----------------------------------------------------------------------------
(* Losses                                                                  *)

\* The process is killed; a temporary file stays behind, with a name of its own.
Kill ==
    /\ losses < MaxLosses
    /\ losses' = losses + 1
    /\ pc' = "idle"
    /\ tmp' = NoFile
    /\ UNCHANGED <<file, onDisk, arg, kept, tried>>

\* What a file may hold once the power is back.
AfterLoss(f) ==
    {[data |-> f.data, synced |-> TRUE]} \cup
    (IF f.synced THEN {} ELSE {[data |-> Torn, synced |-> TRUE]})

\* The files the state path may name once the power is back.
Survivors == AfterLoss(file) \cup AfterLoss(onDisk)

\* The machine loses power: the unsynced rename survives or not.
PowerLoss ==
    /\ losses < MaxLosses
    /\ losses' = losses + 1
    /\ \E f \in Survivors : file' = f /\ onDisk' = f
    /\ pc' = "idle"
    /\ tmp' = NoFile
    /\ UNCHANGED <<arg, kept, tried>>

\* The kernel writes the directory back before anybody syncs it.
WriteBack ==
    /\ onDisk # file
    /\ onDisk' = file
    /\ UNCHANGED <<file, tmp, pc, arg, kept, tried, losses>>

-----------------------------------------------------------------------------

Step == \/ Prepare \/ CreateTemp \/ Write \/ Sync \/ Chmod \/ Close
        \/ Rename \/ OpenDir \/ SyncDir

Next == (\E s \in States : Begin(s)) \/ Step \/ Kill \/ PowerLoss \/ WriteBack

Spec == Init /\ [][Next]_vars

-----------------------------------------------------------------------------
(* Properties                                                              *)

\* Every variable has its type: what the state path names is always a file.
TypeOK ==
    /\ file \in Files /\ onDisk \in Files /\ tmp \in Files
    /\ pc \in PCs
    /\ arg \in States \cup {Empty}
    /\ kept \in States \cup {Empty}
    /\ tried \subseteq States
    /\ losses \in 0 .. MaxLosses

\* The file, and whatever a power loss would leave of it, holds the last state whose
\* Save returned nil, or one whose Save was started since and did not return
\* nil: nothing older and no mixture, so a nil return survives a power loss.
AllOrNothing == \A f \in {file} \cup Survivors : f.data \in {kept} \cup tried

\* A Save that returns has disposed of its temporary file.
TempIsDisposed == pc = "idle" => tmp = NoFile

\* Save's nine system calls, each of which may fail or be the last before a crash,
\* replace the checkpoint as one step or not at all: the store implements
\* AtomicStore, which is what the configure service takes Save to be.  So the state
\* file always decodes, also after a power loss at any point: a torn checkpoint
\* would fail every later configure call until someone removes it by hand.
Promise == INSTANCE AtomicStore WITH
    stored <- Load(file), possible <- {Load(f) : f \in Survivors}
IsAtomic == Promise!Spec
=============================================================================
